---------------------------- MODULE MCAccountStore ----------------------------
(* A login, a chat request and the user at work on two accounts.           *)
EXTENDS AccountStore
CONSTANTS login, chat, user, u1, u2

MCAsks ==
  [t \in Tasks |->
     CASE t = login -> [kind : {"upsert"}, uid : {u1}]
       [] t = chat -> [kind : {"note"}, uid : {u1, u2}]
       [] t = user -> [kind : {"update", "delete"}, uid : {u1, u2}]]
===============================================================================
