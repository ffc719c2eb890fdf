--------------------------- MODULE WbCatalogProofs ---------------------------
(***************************************************************************)
(* The promises of WbTokens and WbCatalog, for any number of accounts,     *)
(* callers, tokens and endpoints.  A step of the catalogue is a step of    *)
(* the tokens or leaves them alone, so that what is proved of the tokens   *)
(* holds beneath the catalogue (CatalogUsesTokens).                        *)
(***************************************************************************)
EXTENDS WbCatalog, TLAPS

Under == {"reread", "decide", "asked", "answered"}

(* What a caller that is at work knows. *)
CallerFits(c) == /\ pc[c] # "idle" => acc[c] \in Accounts /\ held[c] \in Row
                 /\ pc[c] = "answered" => got[c] \in Answer

(* The lock of an account is held by the caller that is under it. *)
Locked == \A c \in Callers, a \in Accounts : lock[a] = c <=> acc[c] = a /\ pc[c] \in Under

Steps == {"idle", "found", "waiting", "reread", "decide", "asked", "answered", "ready", "failed"}

CallersFit == /\ pc \in [Callers -> Steps] /\ lock \in [Accounts -> Callers \cup {None}]
              /\ Locked /\ \A c \in Callers : CallerFits(c)

Basic == TokenTypeOK /\ Locked /\ \A c \in Callers : CallerFits(c)

-----------------------------------------------------------------------------
(* Types and locks. *)

LEMMA NextNumber ==
  ASSUME TokenTypeOK, issued < MaxTokens
  PROVE  issued + 1 \in Numbers /\ issued + 1 \in 0 .. MaxTokens
  BY TokenAssumption DEF TokenAssumption, TokenTypeOK, Numbers

LEMMA NoneIsNone == None \notin Accounts /\ None \notin Callers /\ None \notin Token /\ None \notin Row
  BY TokenAssumption DEF TokenAssumption

LEMMA PatchedRow ==
  ASSUME NEW r \in Row, NEW g \in Answer
  PROVE  Patched(r, g) \in Row
  BY DEF Patched, Row, Answer

(* A step of one caller that keeps its account and moves within, or        *)
(* outside, the lock.                                                      *)
LEMMA OwnStep ==
  ASSUME Basic, NEW c \in Callers, NEW step, Goto(c, step),
         step \in Steps,
         pc[c] # "idle", acc' = acc,
         held' \in [Callers -> Row \cup {None}], got' \in [Callers -> Answer \cup {None}],
         \A d \in Callers : d # c => held'[d] = held[d] /\ got'[d] = got[d],
         held'[c] \in Row, step = "answered" => got'[c] \in Answer,
         \/ UNCHANGED lock /\ (step \in Under <=> pc[c] \in Under)
         \/ Release(c) /\ pc[c] \in Under /\ step \notin Under
         \/ lock[acc[c]] = None /\ lock' = [lock EXCEPT ![acc[c]] = c] /\ step \in Under
  PROVE  CallersFit'
<1>1. acc[c] \in Accounts
  BY DEF Basic, CallerFits
<1>2. pc'[c] = step /\ \A d \in Callers : d # c => pc'[d] = pc[d]
  BY DEF Goto, Basic, TokenTypeOK
<1>3. pc' \in [Callers -> Steps]
  BY DEF Goto, Basic, TokenTypeOK, Steps
<1>4. lock' \in [Accounts -> Callers \cup {None}]
  BY <1>1 DEF Basic, TokenTypeOK, Release
<1>5. \A d \in Callers : CallerFits(d)'
  BY <1>1, <1>2 DEF Basic, CallerFits
<1>6. Locked'
  <2>1. SUFFICES ASSUME NEW d \in Callers, NEW a \in Accounts
                 PROVE  lock'[a] = d <=> acc[d] = a /\ pc'[d] \in Under
    BY DEF Locked
  <2>2. lock[a] = d <=> acc[d] = a /\ pc[d] \in Under
    BY DEF Basic, Locked
  <2>3. lock[a] = c <=> acc[c] = a /\ pc[c] \in Under
    BY DEF Basic, Locked
  <2>4. lock \in [Accounts -> Callers \cup {None}]
    BY DEF Basic, TokenTypeOK
  <2>5. CASE UNCHANGED lock /\ (step \in Under <=> pc[c] \in Under)
    BY <1>2, <2>2, <2>5
  <2>6. CASE Release(c) /\ pc[c] \in Under /\ step \notin Under
    BY <1>1, <1>2, <2>2, <2>3, <2>4, <2>6, NoneIsNone DEF Release
  <2>7. CASE lock[acc[c]] = None /\ lock' = [lock EXCEPT ![acc[c]] = c] /\ step \in Under
    BY <1>1, <1>2, <2>2, <2>3, <2>4, <2>7, NoneIsNone
  <2> QED BY <2>5, <2>6, <2>7
<1> QED BY <1>3, <1>4, <1>5, <1>6 DEF CallersFit

LEMMA BasicInit == TokenInit => Basic
<1>1. SUFFICES ASSUME TokenInit PROVE Basic
  OBVIOUS
<1>2. 0 \in 0 .. MaxTokens
  BY TokenAssumption DEF TokenAssumption
<1>3. TokenTypeOK
  BY <1>1, <1>2 DEF TokenInit, TokenTypeOK
<1>4. Locked
  BY <1>1, NoneIsNone DEF TokenInit, Locked, Under
<1>5. \A c \in Callers : CallerFits(c)
  BY <1>1 DEF TokenInit, CallerFits
<1> QED BY <1>3, <1>4, <1>5 DEF Basic

LEMMA BasicEnsure ==
  ASSUME Basic, NEW c \in Callers, Ensure(c)
  PROVE  Basic'
<1>1. CallerFits(c) /\ TokenTypeOK
  BY DEF Basic
<1>2. ASSUME CallersFit', UNCHANGED <<row, upstream, issued, stale, spent, acc>>, torn' \subseteq Accounts,
             held' \in [Callers -> Row \cup {None}], got' \in [Callers -> Answer \cup {None}]
      PROVE  Basic'
  BY <1>1, <1>2 DEF Basic, TokenTypeOK, CallersFit, Steps
<1> USE DEF Under, Steps, storeVars
<1>3. CASE Check(c)
  <2>1. CallersFit'
    BY <1>1, <1>3, OwnStep DEF Check, TokenTypeOK, CallerFits
  <2> QED BY <1>1, <1>2, <1>3, <2>1 DEF Check, TokenTypeOK
<1>4. CASE Acquire(c)
  <2>1. CallersFit'
    <3>1. Goto(c, "reread") /\ pc[c] = "waiting" /\ UNCHANGED <<acc, held, got>>
      BY <1>4 DEF Acquire
    <3>2. lock[acc[c]] = None /\ lock' = [lock EXCEPT ![acc[c]] = c]
      BY <1>4 DEF Acquire
    <3> QED BY <1>1, <3>1, <3>2, OwnStep DEF TokenTypeOK, CallerFits
  <2> QED BY <1>1, <1>2, <1>4, <2>1 DEF Acquire, TokenTypeOK
<1>5. CASE Reread(c)
  BY <1>1, <1>5, OwnStep DEF Reread, Basic, TokenTypeOK, CallerFits, CallersFit
<1>6. CASE Decide(c)
  BY <1>1, <1>6, OwnStep DEF Decide, Basic, TokenTypeOK, CallerFits, CallersFit
<1>7. ASSUME NEW rotates \in BOOLEAN, Accept(c, rotates) PROVE Basic'
  <2> DEFINE new == [login |-> held[c].refresh.login, n |-> issued + 1]
             ans == [access |-> new, refresh |-> IF rotates THEN new ELSE None]
  <2>1. issued' = issued + 1 /\ issued + 1 \in Numbers /\ issued + 1 \in 0 .. MaxTokens
    BY <1>1, <1>7, NextNumber DEF Accept
  <2>2. pc[c] = "asked" /\ Goto(c, "answered") /\ UNCHANGED <<row, stale, lock, acc, held, torn>>
    BY <1>7 DEF Accept
  <2>3. held[c] \in Row /\ held[c].refresh.login \in Numbers /\ held[c].access.n \in Numbers
    BY <1>1, <2>2 DEF CallerFits, Row, Token
  <2>4. new \in Token
    BY <2>1, <2>3 DEF Token
  <2>5. ans \in Answer
    BY <2>4 DEF Answer
  <2>6. got' = [got EXCEPT ![c] = ans]
    BY <1>7 DEF Accept
  <2>7. got' \in [Callers -> Answer \cup {None}] /\ got'[c] = ans /\ \A d \in Callers : d # c => got'[d] = got[d]
    BY <1>1, <2>5, <2>6 DEF TokenTypeOK
  <2>8. CallersFit'
    <3> HIDE DEF ans, new
    <3> QED BY <1>1, <2>2, <2>3, <2>5, <2>7, OwnStep DEF TokenTypeOK
  <2>9. upstream' \in [Numbers -> Numbers \cup {None}]
    BY <1>1, <1>7, <2>1, <2>3 DEF Accept, TokenTypeOK
  <2>10. spent' \subseteq Numbers
    BY <1>1, <1>7, <2>3 DEF Accept, TokenTypeOK
  <2>11. TokenTypeOK'
    <3> HIDE DEF ans, new
    <3> QED BY <1>1, <2>1, <2>2, <2>7, <2>8, <2>9, <2>10 DEF TokenTypeOK, CallersFit
  <2> QED BY <2>8, <2>11 DEF Basic, CallersFit
<1>8. CASE Refused(c)
  BY <1>1, <1>8, OwnStep DEF Refused, Basic, TokenTypeOK, CallerFits, CallersFit
<1>9. CASE LostAnswer(c)
  BY <1>1, <1>9, OwnStep DEF LostAnswer, Basic, TokenTypeOK, CallerFits, CallersFit
<1>10. CASE Write(c)
  <2>1. pc[c] = "answered" /\ Release(c) /\ acc[c] \in Accounts /\ got[c] \in Answer /\ held[c] \in Row
    BY <1>1, <1>10 DEF Write, CallerFits
  <2>2. UNCHANGED <<upstream, issued, spent, stale, acc, got, torn>>
    BY <1>10 DEF Write
  <2>3. CASE row[acc[c]] # None
    <3>1. Patched(row[acc[c]], got[c]) \in Row
      BY <1>1, <2>1, <2>3, PatchedRow DEF TokenTypeOK
    <3>2. /\ row' = [row EXCEPT ![acc[c]] = Patched(row[acc[c]], got[c])]
          /\ held' = [held EXCEPT ![c] = row'[acc[c]]] /\ Goto(c, "ready")
      BY <1>10, <2>3 DEF Write
    <3>3. row' \in [Accounts -> Row \cup {None}] /\ row'[acc[c]] \in Row
      BY <1>1, <2>1, <3>1, <3>2 DEF TokenTypeOK
    <3>4. /\ held' \in [Callers -> Row \cup {None}] /\ held'[c] \in Row
          /\ \A d \in Callers : d # c => held'[d] = held[d]
      BY <1>1, <3>2, <3>3 DEF TokenTypeOK
    <3>5. CallersFit'
      BY <1>1, <2>1, <2>2, <3>2, <3>4, OwnStep DEF TokenTypeOK
    <3> QED BY <1>1, <2>2, <3>3, <3>4, <3>5 DEF Basic, TokenTypeOK, CallersFit
  <2>4. CASE row[acc[c]] = None
    <3>1. Goto(c, "failed") /\ UNCHANGED <<row, held>>
      BY <1>10, <2>4 DEF Write
    <3>2. CallersFit'
      BY <1>1, <2>1, <2>2, <3>1, OwnStep DEF TokenTypeOK
    <3> QED BY <1>1, <1>2, <2>2, <3>1, <3>2 DEF TokenTypeOK
  <2> QED BY <2>3, <2>4
<1> QED BY <1>3, <1>4, <1>5, <1>6, <1>7, <1>8, <1>9, <1>10 DEF Ensure

(* A caller takes an account, or leaves it. *)
LEMMA BasicUse ==
  ASSUME Basic, NEW c \in Callers, NEW a \in Accounts, Use(c, a)
  PROVE  Basic'
<1>1. TokenTypeOK /\ Locked /\ pc[c] = "idle" /\ row[a] \in Row
  BY DEF Basic, TokenTypeOK, Use
<1>2. TokenTypeOK'
  BY <1>1 DEF Use, Goto, storeVars, TokenTypeOK
<1>3. Locked'
  BY <1>1 DEF Use, Goto, TokenTypeOK, Locked, Under
<1>4. \A d \in Callers : CallerFits(d)'
  BY <1>1 DEF Use, Goto, TokenTypeOK, Basic, CallerFits
<1> QED BY <1>2, <1>3, <1>4 DEF Basic

LEMMA BasicReturn ==
  ASSUME Basic, NEW c \in Callers, Return(c)
  PROVE  Basic'
<1>1. TokenTypeOK /\ Locked
  BY DEF Basic
<1>2. TokenTypeOK'
  BY <1>1 DEF Return, Goto, storeVars, TokenTypeOK
<1>3. Locked'
  BY <1>1, NoneIsNone DEF Return, Goto, TokenTypeOK, Locked, Under
<1>4. \A d \in Callers : CallerFits(d)'
  BY <1>1 DEF Return, Goto, TokenTypeOK, Basic, CallerFits
<1> QED BY <1>2, <1>3, <1>4 DEF Basic

(* The user, time and the end of the process. *)
LEMMA BasicAround ==
  ASSUME Basic, Around \/ Restart
  PROVE  Basic'
<1>1. TokenTypeOK /\ Locked
  BY DEF Basic
<1>2. ASSUME NEW a \in Accounts, Login(a) PROVE Basic'
  <2> DEFINE t == [login |-> issued + 1, n |-> issued + 1]
  <2>1. issued' = issued + 1 /\ issued + 1 \in Numbers /\ issued + 1 \in 0 .. MaxTokens
    BY <1>1, <1>2, NextNumber DEF Login
  <2>2. [access |-> t, refresh |-> t] \in Row
    BY <2>1 DEF Row, Token
  <2>3. row' \in [Accounts -> Row \cup {None}]
    BY <1>1, <1>2, <2>2 DEF Login, TokenTypeOK
  <2>4. upstream' \in [Numbers -> Numbers \cup {None}]
    BY <1>1, <1>2, <2>1 DEF Login, TokenTypeOK
  <2>5. UNCHANGED <<spent, stale, lock, pc, acc, held, got>> /\ torn' \subseteq Accounts
    BY <1>1, <1>2 DEF Login, TokenTypeOK, callerVars
  <2>6. TokenTypeOK'
    BY <1>1, <2>1, <2>3, <2>4, <2>5 DEF TokenTypeOK
  <2> QED BY <1>1, <2>5, <2>6 DEF Basic, Locked, CallerFits
<1>3. ASSUME NEW a \in Accounts, Delete(a) PROVE Basic'
  BY <1>1, <1>3 DEF Delete, callerVars, Basic, TokenTypeOK, Locked, CallerFits
<1>4. ASSUME NEW n \in Numbers, Expire(n) PROVE Basic'
  BY <1>1, <1>4 DEF Expire, callerVars, storeVars, Basic, TokenTypeOK, Locked, CallerFits
<1>5. CASE Restart
  <2>1. TokenTypeOK'
    <3>1. \A c \in Callers : pc[c] = "answered" => acc[c] \in Accounts
      BY DEF Basic, CallerFits
    <3> QED BY <1>1, <1>5, <3>1 DEF Restart, storeVars, TokenTypeOK
  <2>2. Locked' /\ \A d \in Callers : CallerFits(d)'
    BY <1>1, <1>5, NoneIsNone DEF Restart, TokenTypeOK, Locked, CallerFits, Under
  <2> QED BY <2>1, <2>2 DEF Basic
<1> QED BY <1>2, <1>3, <1>4, <1>5 DEF Around

LEMMA BasicStep ==
  ASSUME Basic, [TokenNext]_tokenVars
  PROVE  Basic'
<1>1. CASE UNCHANGED tokenVars
  BY <1>1 DEF tokenVars, Basic, TokenTypeOK, Locked, CallerFits
<1> QED BY <1>1, BasicEnsure, BasicUse, BasicReturn, BasicAround DEF TokenNext
-----------------------------------------------------------------------------
(* Where the tokens of an account may be, and what is known of them.       *)

Has(r, t) == r # None /\ (r.access = t \/ r.refresh = t)

(* A caller at work on an account carries its row, and the answer it got. *)
Carries(c, a, t) == /\ pc[c] # "idle" /\ acc[c] = a
                    /\ Has(held[c], t) \/ (pc[c] = "answered" /\ Has(got[c], t))

Of(a, t) == Has(row[a], t) \/ \E c \in Callers : Carries(c, a, t)

(* Every token has been issued. *)
Known == \A a \in Accounts, t \in Token : Of(a, t) => t.login <= issued /\ t.n <= issued

(* Accounts share neither a login nor the number of a token. *)
Apart == \A a, b \in Accounts, s, t \in Token : a # b /\ Of(a, s) /\ Of(b, t) => s.login # t.login /\ s.n # t.n

SpentKnown == \A n \in spent : n <= issued

Issuance == Known /\ Apart /\ SpentKnown

(* A step that issues no token and spends none. *)
LEMMA NothingIssued ==
  ASSUME Issuance, UNCHANGED <<issued, spent>>,
         \A a \in Accounts, t \in Token : Of(a, t)' => Of(a, t)
  PROVE  Issuance'
<1>1. Known'
  BY DEF Issuance, Known
<1>2. Apart'
  BY DEF Issuance, Apart
<1>3. SpentKnown'
  BY DEF Issuance, SpentKnown
<1> QED BY <1>1, <1>2, <1>3 DEF Issuance

(* A step that issues one token to one account: for a new login, or in a   *)
(* login the account has a token of.                                       *)
LEMMA OneIssued ==
  ASSUME Basic, Issuance, NEW a0 \in Accounts, NEW new \in Token, issued' = issued + 1, new.n = issued + 1,
         new.login = issued + 1 \/ \E s \in Token : Of(a0, s) /\ s.login = new.login,
         \A a \in Accounts, t \in Token : Of(a, t)' => Of(a, t) \/ (a = a0 /\ t = new),
         \A n \in spent' : n \in spent \/ \E s \in Token : Of(a0, s) /\ s.n = n
  PROVE  Issuance'
<1>1. issued \in Nat /\ MaxTokens \in Nat
  BY TokenAssumption DEF Basic, TokenTypeOK, TokenAssumption
<1>2. \A t \in Token : t.login \in Nat /\ t.n \in Nat
  BY <1>1 DEF Token, Numbers
<1>3. spent \subseteq Nat
  BY <1>1 DEF Basic, TokenTypeOK, Numbers
<1>4. \A a \in Accounts, t \in Token : Of(a, t) => t.login <= issued /\ t.n <= issued
  BY DEF Issuance, Known
<1>5. Known'
  BY <1>1, <1>2, <1>4 DEF Known
<1>6. Apart'
  <2>1. SUFFICES ASSUME NEW a \in Accounts, NEW b \in Accounts, NEW s \in Token, NEW t \in Token,
                        a # b, Of(a, s)', Of(b, t)'
                 PROVE  s.login # t.login /\ s.n # t.n
    BY DEF Apart
  <2>2. \A x \in Accounts, y \in Accounts, u \in Token, v \in Token :
           x # y /\ Of(x, u) /\ Of(y, v) => u.login # v.login /\ u.n # v.n
    BY DEF Issuance, Apart
  <2>3. ASSUME NEW b1 \in Accounts, NEW u \in Token, b1 # a0, Of(b1, u)
        PROVE  new.login # u.login /\ new.n # u.n
    BY <1>1, <1>2, <1>4, <2>2, <2>3
  <2>4. CASE Of(a, s) /\ Of(b, t)
    BY <2>1, <2>2, <2>4
  <2>5. CASE a = a0 /\ s = new
    BY <2>1, <2>3, <2>5
  <2>6. CASE b = a0 /\ t = new
    BY <2>1, <2>3, <2>6
  <2> QED BY <2>1, <2>4, <2>5, <2>6
<1>7. SpentKnown'
  <2>1. ASSUME NEW n \in spent' PROVE n <= issued + 1
    <3>1. CASE n \in spent
      BY <1>1, <1>3, <3>1 DEF Issuance, SpentKnown
    <3>2. ASSUME NEW s \in Token, Of(a0, s), s.n = n PROVE n <= issued + 1
      BY <1>1, <1>2, <1>4, <3>2
    <3> QED BY <2>1, <3>1, <3>2
  <2> QED BY <2>1 DEF SpentKnown
<1> QED BY <1>5, <1>6, <1>7 DEF Issuance

(* A step of one caller that leaves every row alone adds what it carries.  *)
LEMMA HeldFlow ==
  ASSUME NEW c \in Callers, UNCHANGED row,
         \A d \in Callers : d # c => pc'[d] = pc[d] /\ acc'[d] = acc[d] /\ held'[d] = held[d] /\ got'[d] = got[d],
         NEW a \in Accounts, NEW t \in Token, Of(a, t)'
  PROVE  Of(a, t) \/ Carries(c, a, t)'
<1>1. ASSUME NEW d \in Callers, d # c, Carries(d, a, t)' PROVE Carries(d, a, t)
  BY <1>1 DEF Carries, Has
<1>2. Has(row[a], t)' => Has(row[a], t)
  BY DEF Has
<1> QED BY <1>1, <1>2 DEF Of

LEMMA PlainIssuance ==
  ASSUME Issuance, NEW c \in Callers, UNCHANGED <<row, issued, spent, acc, held, got>>,
         \A d \in Callers : d # c => pc'[d] = pc[d],
         pc[c] # "idle", pc'[c] = "answered" => pc[c] = "answered"
  PROVE  Issuance'
<1>1. ASSUME NEW a \in Accounts, NEW t \in Token, Of(a, t)' PROVE Of(a, t)
  <2>1. Carries(c, a, t)' => Carries(c, a, t)
    BY DEF Carries, Has
  <2> QED BY <1>1, <2>1, HeldFlow DEF Of
<1> QED BY <1>1, NothingIssued

(* The upstream issues a token in the login of the refresh token.          *)
LEMMA AcceptIssuance ==
  ASSUME Basic, Issuance, NEW c \in Callers, NEW rotates \in BOOLEAN, Accept(c, rotates)
  PROVE  Issuance'
<1> DEFINE new == [login |-> held[c].refresh.login, n |-> issued + 1]
           ans == [access |-> new, refresh |-> IF rotates THEN new ELSE None]
<1>1. pc[c] = "asked" /\ acc[c] \in Accounts /\ held[c] \in Row
  BY DEF Accept, Basic, CallerFits
<1>2. issued' = issued + 1 /\ issued + 1 \in Numbers
  BY NextNumber DEF Accept, Basic
<1>3. held[c].access \in Token /\ held[c].refresh \in Token /\ held[c] # None
  BY <1>1, NoneIsNone DEF Row
<1>4. new \in Token /\ new.n = issued + 1 /\ new.login = held[c].refresh.login
  BY <1>2, <1>3 DEF Token
<1>5. /\ got'[c] = ans /\ UNCHANGED <<row, acc, held>>
      /\ \A d \in Callers : d # c => got'[d] = got[d] /\ pc'[d] = pc[d]
  BY DEF Accept, Goto, Basic, TokenTypeOK
<1>6. ans.access = new /\ ans.refresh \in {new, None}
  OBVIOUS
<1> HIDE DEF new, ans
<1>7. Of(acc[c], held[c].refresh) /\ Of(acc[c], held[c].access)
  BY <1>1, <1>3 DEF Of, Carries, Has
<1>8. ASSUME NEW a \in Accounts, NEW t \in Token, Of(a, t)'
      PROVE  Of(a, t) \/ (a = acc[c] /\ t = new)
  <2>1. CASE Of(a, t)
    BY <2>1
  <2>2. CASE Carries(c, a, t)'
    <3>1. acc[c] = a /\ (Has(held[c], t) \/ Has(ans, t))
      BY <1>5, <2>2 DEF Carries, Has
    <3>2. Has(ans, t) => t = new
      BY <1>6, NoneIsNone DEF Has
    <3>3. Has(held[c], t) => Carries(c, a, t)
      BY <1>1, <3>1 DEF Carries
    <3> QED BY <3>1, <3>2, <3>3 DEF Of
  <2> QED BY <1>5, <1>8, <2>1, <2>2, HeldFlow
<1>9. ASSUME NEW n \in spent' PROVE n \in spent \/ \E s \in Token : Of(acc[c], s) /\ s.n = n
  BY <1>3, <1>7, <1>9 DEF Accept
<1> QED BY <1>1, <1>2, <1>3, <1>4, <1>7, <1>8, <1>9, OneIssued

(* A login issues a token with a login of its own. *)
LEMMA LoginIssuance ==
  ASSUME Basic, Issuance, NEW a0 \in Accounts, Login(a0)
  PROVE  Issuance'
<1> DEFINE new == [login |-> issued + 1, n |-> issued + 1]
           both == [access |-> new, refresh |-> new]
<1>1. issued' = issued + 1 /\ issued + 1 \in Numbers /\ UNCHANGED <<spent, pc, acc, held, got>>
  BY NextNumber DEF Login, Basic, callerVars
<1>2. new \in Token /\ new.n = issued + 1 /\ new.login = issued + 1
  BY <1>1 DEF Token
<1>3. row'[a0] = both /\ \A a \in Accounts : a # a0 => row'[a] = row[a]
  BY DEF Login, Basic, TokenTypeOK
<1>4. both.access = new /\ both.refresh = new
  OBVIOUS
<1> HIDE DEF new, both
<1>5. ASSUME NEW a \in Accounts, NEW t \in Token, Of(a, t)'
      PROVE  Of(a, t) \/ (a = a0 /\ t = new)
  <2>1. \A d \in Callers : Carries(d, a, t)' => Carries(d, a, t)
    BY <1>1 DEF Carries, Has
  <2>2. Has(row[a], t)' => Has(row[a], t) \/ (a = a0 /\ t = new)
    BY <1>3, <1>4 DEF Has
  <2> QED BY <1>5, <2>1, <2>2 DEF Of
<1>6. \A n \in spent' : n \in spent \/ \E s \in Token : Of(a0, s) /\ s.n = n
  BY <1>1
<1> QED BY <1>1, <1>2, <1>5, <1>6, OneIssued

LEMMA WriteIssuance ==
  ASSUME Basic, Issuance, NEW c \in Callers, Write(c)
  PROVE  Issuance'
<1>1. pc[c] = "answered" /\ acc[c] \in Accounts /\ UNCHANGED <<issued, spent, acc, got>>
  BY DEF Write, Basic, CallerFits
<1>2. \A d \in Callers : d # c => held'[d] = held[d] /\ pc'[d] = pc[d]
  BY DEF Write, Goto, Basic, TokenTypeOK
<1>3. \A a \in Accounts : a # acc[c] => row'[a] = row[a]
  BY DEF Write, Basic, TokenTypeOK
<1>4. ASSUME NEW t \in Token, Has(row'[acc[c]], t) PROVE Of(acc[c], t)
  <2>1. CASE row[acc[c]] # None
    <3>1. row'[acc[c]] = Patched(row[acc[c]], got[c])
      BY <1>1, <2>1 DEF Write, Basic, TokenTypeOK
    <3>2. got[c] # None
      BY <1>1, TokenAssumption DEF TokenAssumption, Basic, CallerFits
    <3>3. Has(row[acc[c]], t) \/ Has(got[c], t)
      BY <1>4, <2>1, <3>1, <3>2 DEF Has, Patched
    <3> QED BY <1>1, <3>3 DEF Of, Carries
  <2>2. CASE row[acc[c]] = None
    <3>1. row' = row
      BY <2>2 DEF Write
    <3> QED BY <1>4, <2>2, <3>1 DEF Has
  <2> QED BY <2>1, <2>2
<1>5. held'[c] = row'[acc[c]] \/ held' = held
  BY DEF Write, Basic, TokenTypeOK
<1>6. pc'[c] \in {"ready", "failed"}
  BY DEF Write, Goto, Basic, TokenTypeOK
<1>7. ASSUME NEW a \in Accounts, NEW t \in Token, Of(a, t)' PROVE Of(a, t)
  <2>1. ASSUME NEW d \in Callers, d # c, Carries(d, a, t)' PROVE Carries(d, a, t)
    BY <1>1, <1>2, <2>1 DEF Carries, Has
  <2>2. Has(row[a], t)' => Of(a, t)
    BY <1>3, <1>4 DEF Has, Of
  <2>3. Carries(c, a, t)' => Of(a, t)
    <3>1. SUFFICES ASSUME Carries(c, a, t)' PROVE Of(a, t)
      OBVIOUS
    <3>2. acc[c] = a /\ Has(held'[c], t)
      BY <1>1, <1>6, <3>1 DEF Carries, Has
    <3>3. CASE held'[c] = row'[acc[c]]
      BY <1>4, <3>2, <3>3
    <3>4. CASE held' = held
      BY <1>1, <3>2, <3>4 DEF Of, Carries
    <3> QED BY <1>5, <3>3, <3>4
  <2> QED BY <1>7, <2>1, <2>2, <2>3 DEF Of
<1> QED BY <1>1, <1>7, NothingIssued

LEMMA IssuanceEnsure ==
  ASSUME Basic, Issuance, NEW c \in Callers, Ensure(c)
  PROVE  Issuance'
<1>1. TokenTypeOK
  BY DEF Basic
<1>2. CASE Check(c)
  BY <1>1, <1>2, PlainIssuance DEF Check, Goto, storeVars, TokenTypeOK
<1>3. CASE Acquire(c)
  BY <1>1, <1>3, PlainIssuance DEF Acquire, Goto, storeVars, TokenTypeOK
<1>4. CASE Reread(c)
  <2>1. /\ UNCHANGED <<row, issued, spent, acc, got>> /\ pc[c] = "reread" /\ pc'[c] = "decide"
        /\ \A d \in Callers : d # c => pc'[d] = pc[d] /\ held'[d] = held[d]
    BY <1>1, <1>4 DEF Reread, Goto, storeVars, TokenTypeOK
  <2>2. held'[c] = held[c] \/ held'[c] = row[acc[c]]
    BY <1>1, <1>4 DEF Reread, TokenTypeOK
  <2>3. ASSUME NEW a \in Accounts, NEW t \in Token, Of(a, t)' PROVE Of(a, t)
    <3>1. Carries(c, a, t)' => Carries(c, a, t) \/ Has(row[a], t)
      BY <2>1, <2>2 DEF Carries, Has
    <3> QED BY <2>1, <2>3, <3>1, HeldFlow DEF Of
  <2> QED BY <2>1, <2>3, NothingIssued
<1>5. CASE Decide(c)
  BY <1>1, <1>5, PlainIssuance DEF Decide, Goto, storeVars, TokenTypeOK
<1>6. CASE Refused(c)
  BY <1>1, <1>6, PlainIssuance DEF Refused, Goto, storeVars, TokenTypeOK
<1>7. CASE LostAnswer(c)
  BY <1>1, <1>7, PlainIssuance DEF LostAnswer, Goto, storeVars, TokenTypeOK
<1> QED BY <1>2, <1>3, <1>4, <1>5, <1>6, <1>7, AcceptIssuance, WriteIssuance DEF Ensure

LEMMA IssuanceStep ==
  ASSUME Basic, Issuance, [TokenNext]_tokenVars
  PROVE  Issuance'
<1>1. TokenTypeOK
  BY DEF Basic
<1>2. ASSUME NEW a \in Accounts, Delete(a) PROVE Issuance'
  <2>1. UNCHANGED <<issued, spent, pc, acc, held, got>> /\ row' = [row EXCEPT ![a] = None]
    BY <1>2 DEF Delete, callerVars
  <2>2. ASSUME NEW b \in Accounts, NEW t \in Token, Of(b, t)' PROVE Of(b, t)
    <3>1. \A d \in Callers : Carries(d, b, t)' => Carries(d, b, t)
      BY <2>1 DEF Carries, Has
    <3>2. Has(row[b], t)' => Has(row[b], t)
      BY <1>1, <2>1 DEF Has, TokenTypeOK
    <3> QED BY <2>2, <3>1, <3>2 DEF Of
  <2> QED BY <2>1, <2>2, NothingIssued
<1>3. ASSUME UNCHANGED <<row, issued, spent, pc, acc, held, got>> PROVE Issuance'
  <2>1. ASSUME NEW b \in Accounts, NEW t \in Token, Of(b, t)' PROVE Of(b, t)
    BY <1>3, <2>1 DEF Of, Carries, Has
  <2> QED BY <1>3, <2>1, NothingIssued
<1>4. ASSUME NEW n \in Numbers, Expire(n) PROVE Issuance'
  BY <1>3, <1>4 DEF Expire, storeVars, callerVars
<1>5. CASE UNCHANGED tokenVars
  BY <1>3, <1>5 DEF tokenVars
<1>6. CASE Restart
  <2>1. UNCHANGED <<row, issued, spent>> /\ \A d \in Callers : pc'[d] = "idle"
    BY <1>6 DEF Restart, storeVars
  <2>2. ASSUME NEW b \in Accounts, NEW t \in Token, Of(b, t)' PROVE Of(b, t)
    BY <2>1, <2>2 DEF Of, Carries, Has
  <2> QED BY <2>1, <2>2, NothingIssued
<1>7. ASSUME NEW c \in Callers, Return(c) PROVE Issuance'
  <2>1. /\ UNCHANGED <<row, issued, spent>> /\ pc'[c] = "idle"
        /\ \A d \in Callers : d # c => pc'[d] = pc[d] /\ acc'[d] = acc[d] /\ held'[d] = held[d] /\ got'[d] = got[d]
    BY <1>1, <1>7 DEF Return, Goto, storeVars, TokenTypeOK
  <2>2. ASSUME NEW b \in Accounts, NEW t \in Token, Of(b, t)' PROVE Of(b, t)
    <3>1. ~Carries(c, b, t)'
      BY <2>1 DEF Carries
    <3> QED BY <2>1, <2>2, <3>1, HeldFlow
  <2> QED BY <2>1, <2>2, NothingIssued
<1>8. ASSUME NEW c \in Callers, NEW a \in Accounts, Use(c, a) PROVE Issuance'
  <2>1. /\ UNCHANGED <<row, issued, spent>> /\ pc'[c] = "found" /\ acc'[c] = a /\ held'[c] = row[a]
        /\ \A d \in Callers : d # c => pc'[d] = pc[d] /\ acc'[d] = acc[d] /\ held'[d] = held[d] /\ got'[d] = got[d]
    BY <1>1, <1>8 DEF Use, Goto, storeVars, TokenTypeOK
  <2>2. ASSUME NEW b \in Accounts, NEW t \in Token, Of(b, t)' PROVE Of(b, t)
    <3>1. Carries(c, b, t)' => Has(row[b], t)
      BY <2>1 DEF Carries, Has
    <3> QED BY <2>1, <2>2, <3>1, HeldFlow DEF Of
  <2> QED BY <2>1, <2>2, NothingIssued
<1> QED BY <1>2, <1>4, <1>5, <1>6, <1>7, <1>8, LoginIssuance, IssuanceEnsure DEF TokenNext, Around

-----------------------------------------------------------------------------
(* What the rows are worth.                                                *)

Good(r) == Accepts(r.refresh) /\ r.access.login = r.refresh.login /\ r.access.n \notin spent

(* A stored row can be refreshed with, and has not been refreshed yet; or  *)
(* the answer that makes it so is about to be merged into it.  Who is past *)
(* the second look at the store goes by what is stored.                    *)
SoundAt(a) ==
    row[a] # None /\ a \notin torn =>
      /\ (\A c \in Callers : acc[c] = a => pc[c] # "answered") => Good(row[a])
      /\ \A c \in Callers : acc[c] = a =>
           /\ pc[c] = "answered" => Good(Patched(row[a], got[c]))
           /\ pc[c] \in {"decide", "asked", "answered"} => held[c] = row[a]

Sound == \A a \in Accounts : SoundAt(a)

LEMMA RowTokens ==
  ASSUME Basic, NEW a \in Accounts, row[a] # None
  PROVE  row[a].access \in Token /\ row[a].refresh \in Token /\ Of(a, row[a].access) /\ Of(a, row[a].refresh)
  BY DEF Basic, TokenTypeOK, Row, Of, Has

LEMMA PatchedTokens ==
  ASSUME Basic, NEW a \in Accounts, row[a] # None, NEW c \in Callers, acc[c] = a, pc[c] = "answered"
  PROVE  LET r == Patched(row[a], got[c])
         IN  r.access \in Token /\ r.refresh \in Token /\ Of(a, r.access) /\ Of(a, r.refresh)
<1>1. got[c] \in Answer /\ got[c] # None
  BY TokenAssumption DEF TokenAssumption, Basic, CallerFits
<1>2. got[c].access \in Token /\ got[c].refresh \in Token \cup {None}
  BY <1>1 DEF Answer
<1>3. Of(a, got[c].access) /\ Of(a, got[c].refresh)
  BY <1>1 DEF Of, Carries, Has
<1> QED BY <1>2, <1>3, RowTokens DEF Patched

(* Only one caller is between the second look and the write. *)
LEMMA OnlyOne ==
  ASSUME Basic, NEW c \in Callers, NEW d \in Callers, pc[c] \in Under, pc[d] \in Under, acc[c] = acc[d]
  PROVE  c = d
<1>1. acc[c] \in Accounts
  BY DEF Basic, CallerFits, Under
<1> QED BY <1>1 DEF Basic, Locked

(* Callers that move while rows and upstream stand still. *)
LEMMA CallerSound ==
  ASSUME Sound, UNCHANGED <<row, upstream, spent>>, torn \subseteq torn',
         \A d \in Callers :
           \/ pc'[d] = pc[d] /\ acc'[d] = acc[d] /\ held'[d] = held[d] /\ got'[d] = got[d]
           \/ /\ pc[d] # "answered" \/ acc[d] \in torn'
              /\ \/ pc'[d] \notin {"decide", "asked", "answered"}
                 \/ /\ pc'[d] # "answered" /\ acc'[d] = acc[d]
                    /\ row[acc[d]] = None \/ acc[d] \in torn' \/ held'[d] = row[acc[d]]
  PROVE  Sound'
<1>1. SUFFICES ASSUME NEW a \in Accounts, row[a] # None, a \notin torn' PROVE SoundAt(a)'
  BY DEF Sound, SoundAt
<1>2. SoundAt(a) /\ a \notin torn
  BY <1>1 DEF Sound
<1>4. ASSUME \A d \in Callers : acc'[d] = a => pc'[d] # "answered" PROVE Good(row[a])'
  <2>1. \A d \in Callers : acc[d] = a => pc[d] # "answered"
    BY <1>1, <1>4
  <2>2. Good(row[a])
    BY <1>1, <1>2, <2>1 DEF SoundAt
  <2> QED BY <2>2 DEF Good, Accepts
<1>5. ASSUME NEW d \in Callers, acc'[d] = a, pc'[d] = "answered" PROVE Good(Patched(row[a], got[d]))'
  <2>1. acc[d] = a /\ pc[d] = "answered" /\ got'[d] = got[d]
    BY <1>5
  <2>2. Good(Patched(row[a], got[d]))
    BY <1>1, <1>2, <2>1 DEF SoundAt
  <2> QED BY <2>1, <2>2 DEF Good, Accepts, Patched
<1>6. ASSUME NEW d \in Callers, acc'[d] = a, pc'[d] \in {"decide", "asked", "answered"} PROVE held'[d] = row[a]
  BY <1>1, <1>2, <1>6 DEF SoundAt
<1> QED BY <1>4, <1>5, <1>6 DEF SoundAt

(* What an account is left alone by. *)
LEMMA AccountSound ==
  ASSUME Basic, Sound, NEW a \in Accounts, row'[a] = row[a], a \notin torn' => a \notin torn,
         \A d \in Callers : acc[d] = a \/ acc'[d] = a =>
           pc'[d] = pc[d] /\ acc'[d] = acc[d] /\ held'[d] = held[d] /\ got'[d] = got[d],
         \A s, t \in Token : Of(a, s) /\ Of(a, t) =>
           upstream'[s.login] = upstream[s.login] /\ (t.n \in spent' => t.n \in spent)
  PROVE  SoundAt(a)'
<1>1. SUFFICES ASSUME row[a] # None, a \notin torn' PROVE SoundAt(a)'
  BY DEF SoundAt
<1>2. SoundAt(a) /\ a \notin torn
  BY <1>1 DEF Sound
<1>3. ASSUME NEW r, r.access \in Token, r.refresh \in Token, Of(a, r.access), Of(a, r.refresh), Good(r)
      PROVE  upstream'[r.refresh.login] = r.refresh.n /\ r.access.login = r.refresh.login /\ r.access.n \notin spent'
  BY <1>3 DEF Good, Accepts
<1>4. ASSUME \A d \in Callers : acc'[d] = a => pc'[d] # "answered" PROVE Good(row[a])'
  <2>1. Good(row[a])
    BY <1>1, <1>2, <1>4 DEF SoundAt
  <2> QED BY <1>1, <1>3, <2>1, RowTokens DEF Good, Accepts
<1>5. ASSUME NEW d \in Callers, acc'[d] = a, pc'[d] = "answered" PROVE Good(Patched(row[a], got[d]))'
  <2>1. acc[d] = a /\ pc[d] = "answered" /\ got'[d] = got[d]
    BY <1>5
  <2>2. Good(Patched(row[a], got[d]))
    BY <1>1, <1>2, <2>1 DEF SoundAt
  <2>3. Patched(row[a], got[d])' = Patched(row[a], got[d])
    BY <2>1 DEF Patched
  <2> DEFINE r == Patched(row[a], got[d])
  <2>4. r.access \in Token /\ r.refresh \in Token /\ Of(a, r.access) /\ Of(a, r.refresh)
    BY <1>1, <2>1, PatchedTokens
  <2>5. upstream'[r.refresh.login] = r.refresh.n /\ r.access.login = r.refresh.login /\ r.access.n \notin spent'
    BY <1>3, <2>2, <2>4
  <2> QED BY <2>3, <2>5 DEF Good, Accepts
<1>6. ASSUME NEW d \in Callers, acc'[d] = a, pc'[d] \in {"decide", "asked", "answered"} PROVE held'[d] = row[a]
  BY <1>1, <1>2, <1>6 DEF SoundAt
<1> QED BY <1>4, <1>5, <1>6 DEF SoundAt

LEMMA AcceptSound ==
  ASSUME Basic, Issuance, Sound, NEW c \in Callers, NEW rotates \in BOOLEAN, Accept(c, rotates)
  PROVE  Sound'
<1> DEFINE new == [login |-> held[c].refresh.login, n |-> issued + 1]
           ans == [access |-> new, refresh |-> IF rotates THEN new ELSE None]
<1>1. pc[c] = "asked" /\ acc[c] \in Accounts /\ held[c] \in Row /\ Accepts(held[c].refresh)
  BY DEF Accept, Basic, CallerFits
<1>2. held[c].access \in Token /\ held[c].refresh \in Token /\ held[c] # None
  BY <1>1, NoneIsNone DEF Row
<1>3. /\ got'[c] = ans /\ pc'[c] = "answered" /\ UNCHANGED <<row, acc, held, torn>>
      /\ \A d \in Callers : d # c => got'[d] = got[d] /\ pc'[d] = pc[d]
  BY DEF Accept, Goto, Basic, TokenTypeOK
<1>4. upstream' = IF rotates THEN [upstream EXCEPT ![held[c].refresh.login] = issued + 1] ELSE upstream
  BY DEF Accept
<1>5. spent' = spent \cup {held[c].access.n}
  BY DEF Accept
<1>6. Of(acc[c], held[c].refresh) /\ Of(acc[c], held[c].access)
  BY <1>1, <1>2 DEF Of, Carries, Has
<1>7. held[c].refresh.login \in Numbers /\ upstream \in [Numbers -> Numbers \cup {None}]
  BY <1>2 DEF Token, Basic, TokenTypeOK
<1>8. ASSUME NEW a \in Accounts, a # acc[c] PROVE SoundAt(a)'
  <2>1. \A t \in Token : Of(a, t) => t.login # held[c].refresh.login /\ t.n # held[c].access.n
    BY <1>1, <1>2, <1>6, <1>8 DEF Issuance, Apart
  <2>2. \A s, t \in Token : Of(a, s) /\ Of(a, t) =>
           upstream'[s.login] = upstream[s.login] /\ (t.n \in spent' => t.n \in spent)
    BY <1>4, <1>5, <1>7, <2>1 DEF Token
  <2>3. \A d \in Callers : acc[d] = a \/ acc'[d] = a =>
           pc'[d] = pc[d] /\ acc'[d] = acc[d] /\ held'[d] = held[d] /\ got'[d] = got[d]
    BY <1>3, <1>8
  <2>4. row'[a] = row[a] /\ (a \notin torn' => a \notin torn)
    BY <1>3
  <2> QED BY <2>2, <2>3, <2>4, AccountSound
<1>9. ASSUME NEW a \in Accounts, a = acc[c] PROVE SoundAt(a)'
  <2>1. SUFFICES ASSUME row[acc[c]] # None, acc[c] \notin torn PROVE SoundAt(a)'
    BY <1>3, <1>9 DEF SoundAt
  <2>2. SoundAt(acc[c])
    BY <1>1 DEF Sound
  <2>3. held[c] = row[acc[c]]
    BY <1>1, <2>1, <2>2 DEF SoundAt
  <2>4. \A d \in Callers : acc[d] = acc[c] /\ pc[d] \in Under => d = c
    BY <1>1, OnlyOne DEF Under
  <2>5. Good(row[acc[c]])
    BY <1>1, <2>1, <2>2, <2>4 DEF SoundAt, Under
  <2>6. held[c].access.login = held[c].refresh.login
    BY <2>3, <2>5 DEF Good
  <2>7. issued + 1 \notin spent'
    <3>1. issued \in Nat
      BY TokenAssumption DEF TokenAssumption, Basic, TokenTypeOK
    <3>2. \A n \in spent : n <= issued
      BY DEF Issuance, SpentKnown
    <3>3. held[c].access.n <= issued
      BY <1>1, <1>2, <1>6 DEF Issuance, Known
    <3> QED BY <1>5, <3>1, <3>2, <3>3
  <2>8. new.login = held[c].refresh.login /\ new.n = issued + 1 /\ ans.access = new /\ new \in Token
    BY <1>7, NextNumber DEF Accept, Basic, Token
  <2>9. ans.refresh = IF rotates THEN new ELSE None
    OBVIOUS
  <2> HIDE DEF new, ans
  <2>10. Good(Patched(row[acc[c]], got[c]))'
    <3>1. CASE rotates
      <4>1. upstream'[new.login] = new.n
        BY <1>4, <1>7, <2>8, <3>1
      <4>2. Patched(row[acc[c]], got[c])' = [access |-> new, refresh |-> new]
        BY <1>3, <2>8, <2>9, <3>1, NoneIsNone DEF Patched
      <4> QED BY <2>7, <2>8, <4>1, <4>2 DEF Good, Accepts
    <3>2. CASE ~rotates
      <4>1. upstream'[held[c].refresh.login] = held[c].refresh.n
        BY <1>1, <1>4, <3>2 DEF Accepts
      <4>2. Patched(row[acc[c]], got[c])' = [access |-> new, refresh |-> held[c].refresh]
        BY <1>3, <2>3, <2>8, <2>9, <3>2 DEF Patched
      <4> QED BY <2>7, <2>8, <4>1, <4>2 DEF Good, Accepts
    <3> QED BY <3>1, <3>2
  <2>11. \A d \in Callers : acc'[d] = acc[c] /\ pc'[d] \in Under => d = c
    BY <1>3, <2>4
  <2>12. held'[c] = row'[acc[c]] /\ acc' = acc /\ pc'[c] = "answered"
    BY <1>3, <2>3
  <2>13. Good(Patched(row[a], got[c]))'
    BY <1>3, <1>9, <2>10 DEF Good, Accepts
  <2> QED BY <1>9, <2>11, <2>12, <2>13 DEF SoundAt, Under
<1> QED BY <1>8, <1>9 DEF Sound

LEMMA LoginSound ==
  ASSUME Basic, Issuance, Sound, NEW a0 \in Accounts, Login(a0)
  PROVE  Sound'
<1> DEFINE new == [login |-> issued + 1, n |-> issued + 1]
           both == [access |-> new, refresh |-> new]
<1>1. issued + 1 \in Numbers /\ UNCHANGED <<spent, pc, acc, held, got>>
  BY NextNumber DEF Login, Basic, callerVars
<1>2. row'[a0] = both /\ \A a \in Accounts : a # a0 => row'[a] = row[a]
  BY DEF Login, Basic, TokenTypeOK
<1>3. upstream'[issued + 1] = issued + 1 /\ \A l \in Numbers : l # issued + 1 => upstream'[l] = upstream[l]
  BY <1>1 DEF Login, Basic, TokenTypeOK
<1>4. issued \in Nat
  BY TokenAssumption DEF TokenAssumption, Basic, TokenTypeOK
<1>5. torn' = IF InFlight(a0) = {} THEN torn \ {a0} ELSE torn \cup {a0}
  BY DEF Login
<1>6. ASSUME NEW a \in Accounts, a # a0 PROVE SoundAt(a)'
  <2>1. \A s, t \in Token : Of(a, s) /\ Of(a, t) =>
           upstream'[s.login] = upstream[s.login] /\ (t.n \in spent' => t.n \in spent)
    BY <1>1, <1>3, <1>4 DEF Issuance, Known, Token, Numbers
  <2>2. row'[a] = row[a] /\ (a \notin torn' => a \notin torn)
    BY <1>2, <1>5, <1>6
  <2> QED BY <1>1, <2>1, <2>2, AccountSound
<1>7. SoundAt(a0)'
  <2>1. SUFFICES ASSUME a0 \notin torn' PROVE SoundAt(a0)'
    BY DEF SoundAt
  <2>2. \A d \in Callers : acc'[d] = a0 => pc'[d] \notin {"decide", "asked", "answered"}
    BY <1>1, <1>5, <2>1 DEF InFlight
  <2>3. issued + 1 \notin spent
    BY <1>4 DEF Issuance, SpentKnown
  <2>4. both.access = new /\ both.refresh = new /\ new.login = issued + 1 /\ new.n = issued + 1
    OBVIOUS
  <2> HIDE DEF both, new
  <2>5. Good(row[a0])'
    BY <1>1, <1>2, <1>3, <2>3, <2>4 DEF Good, Accepts
  <2> QED BY <2>2, <2>5 DEF SoundAt
<1> QED BY <1>6, <1>7 DEF Sound

LEMMA WriteSound ==
  ASSUME Basic, Sound, NEW c \in Callers, Write(c)
  PROVE  Sound'
<1>1. pc[c] = "answered" /\ acc[c] \in Accounts /\ UNCHANGED <<upstream, spent, acc, got, torn>>
  BY DEF Write, Basic, CallerFits
<1>2. /\ pc'[c] \in {"ready", "failed"}
      /\ \A d \in Callers : d # c => pc'[d] = pc[d] /\ held'[d] = held[d]
  BY DEF Write, Goto, Basic, TokenTypeOK
<1>3. \A a \in Accounts : a # acc[c] => row'[a] = row[a]
  BY DEF Write, Basic, TokenTypeOK
<1>4. ASSUME NEW a \in Accounts, a # acc[c] PROVE SoundAt(a)'
  BY <1>1, <1>2, <1>3, <1>4, AccountSound
<1>5. ASSUME NEW a \in Accounts, a = acc[c] PROVE SoundAt(a)'
  <2>1. CASE row[acc[c]] = None
    BY <1>5, <2>1 DEF Write, SoundAt
  <2>2. CASE row[acc[c]] # None
    <3>1. SUFFICES ASSUME acc[c] \notin torn PROVE SoundAt(a)'
      BY <1>1, <1>5 DEF SoundAt
    <3>2. row'[acc[c]] = Patched(row[acc[c]], got[c])
      BY <1>1, <2>2 DEF Write, Basic, TokenTypeOK
    <3>3. Good(Patched(row[acc[c]], got[c]))
      BY <1>1, <2>2, <3>1 DEF Sound, SoundAt
    <3>4. Good(row[acc[c]])'
      BY <1>1, <3>2, <3>3 DEF Good, Accepts
    <3>5. \A d \in Callers : acc[d] = acc[c] /\ pc[d] \in Under => d = c
      BY <1>1, OnlyOne DEF Under
    <3>6. \A d \in Callers : acc'[d] = acc[c] => pc'[d] \notin Under
      BY <1>1, <1>2, <3>5 DEF Under
    <3>7. Good(row[a])'
      BY <1>1, <1>5, <3>4 DEF Good, Accepts
    <3> QED BY <1>5, <3>6, <3>7 DEF SoundAt, Under
  <2> QED BY <2>1, <2>2
<1> QED BY <1>4, <1>5 DEF Sound

LEMMA DeleteSound ==
  ASSUME Basic, Sound, NEW a0 \in Accounts, Delete(a0)
  PROVE  Sound'
<1>1. UNCHANGED <<upstream, spent, pc, acc, held, got, torn>> /\ row' = [row EXCEPT ![a0] = None]
  BY DEF Delete, callerVars
<1>2. ASSUME NEW a \in Accounts, a # a0 PROVE SoundAt(a)'
  <2>1. row'[a] = row[a]
    BY <1>1, <1>2 DEF Basic, TokenTypeOK
  <2> QED BY <1>1, <2>1, AccountSound
<1>3. SoundAt(a0)'
  BY <1>1 DEF SoundAt, Basic, TokenTypeOK
<1> QED BY <1>2, <1>3 DEF Sound

LEMMA SoundEnsure ==
  ASSUME Basic, Issuance, Sound, NEW c \in Callers, Ensure(c)
  PROVE  Sound'
<1>1. TokenTypeOK
  BY DEF Basic
<1>2. CASE Check(c)
  BY <1>1, <1>2, CallerSound DEF Check, Goto, storeVars, TokenTypeOK
<1>3. CASE Acquire(c)
  BY <1>1, <1>3, CallerSound DEF Acquire, Goto, storeVars, TokenTypeOK
<1>4. CASE Reread(c)
  <2>1. /\ UNCHANGED <<row, upstream, spent, torn, acc, got>> /\ pc[c] = "reread" /\ pc'[c] = "decide"
        /\ \A d \in Callers : d # c => pc'[d] = pc[d] /\ held'[d] = held[d]
    BY <1>1, <1>4 DEF Reread, Goto, storeVars, TokenTypeOK
  <2>2. row[acc[c]] = None \/ held'[c] = row[acc[c]]
    BY <1>1, <1>4 DEF Reread, TokenTypeOK
  <2> QED BY <2>1, <2>2, CallerSound
<1>5. CASE Decide(c)
  <2>1. /\ UNCHANGED <<row, upstream, spent, torn, acc, held, got>> /\ pc[c] = "decide" /\ pc'[c] \in {"asked", "ready"}
        /\ \A d \in Callers : d # c => pc'[d] = pc[d]
    BY <1>1, <1>5 DEF Decide, Goto, storeVars, TokenTypeOK
  <2>2. row[acc[c]] = None \/ acc[c] \in torn \/ held[c] = row[acc[c]]
    <3>1. acc[c] \in Accounts
      BY <2>1 DEF Basic, CallerFits
    <3> QED BY <2>1, <3>1 DEF Sound, SoundAt
  <2> QED BY <2>1, <2>2, CallerSound
<1>6. CASE Refused(c)
  BY <1>1, <1>6, CallerSound DEF Refused, Goto, storeVars, TokenTypeOK
<1>7. CASE LostAnswer(c)
  BY <1>1, <1>7, CallerSound DEF LostAnswer, Goto, storeVars, TokenTypeOK
<1> QED BY <1>2, <1>3, <1>4, <1>5, <1>6, <1>7, AcceptSound, WriteSound DEF Ensure

LEMMA SoundStep ==
  ASSUME Basic, Issuance, Sound, [TokenNext]_tokenVars
  PROVE  Sound'
<1>1. TokenTypeOK
  BY DEF Basic
<1>2. ASSUME NEW n \in Numbers, Expire(n) PROVE Sound'
  BY <1>2, CallerSound DEF Expire, storeVars, callerVars
<1>3. CASE UNCHANGED tokenVars
  BY <1>3, CallerSound DEF tokenVars
<1>4. CASE Restart
  <2>1. /\ UNCHANGED <<row, upstream, spent>> /\ torn \subseteq torn'
        /\ \A d \in Callers : pc'[d] = "idle" /\ (pc[d] # "answered" \/ acc[d] \in torn')
    BY <1>4 DEF Restart, storeVars
  <2> QED BY <2>1, CallerSound
<1>5. ASSUME NEW c \in Callers, Return(c) PROVE Sound'
  BY <1>1, <1>5, CallerSound DEF Return, Goto, storeVars, TokenTypeOK
<1>6. ASSUME NEW c \in Callers, NEW a \in Accounts, Use(c, a) PROVE Sound'
  BY <1>1, <1>6, CallerSound DEF Use, Goto, storeVars, TokenTypeOK
<1> QED BY <1>2, <1>3, <1>4, <1>5, <1>6, LoginSound, DeleteSound, SoundEnsure DEF TokenNext, Around

-----------------------------------------------------------------------------
(* The promises of the tokens. *)

TokenInv == Basic /\ Issuance /\ Sound

LEMMA TokenInvInit == TokenInit => TokenInv
<1>1. SUFFICES ASSUME TokenInit PROVE TokenInv
  OBVIOUS
<1>2. \A a \in Accounts : row[a] = None /\ \A t \in Token : ~Of(a, t)
  BY <1>1 DEF TokenInit, Of, Has, Carries
<1>3. Issuance
  BY <1>1, <1>2 DEF TokenInit, Issuance, Known, Apart, SpentKnown
<1>4. Sound
  BY <1>2 DEF Sound, SoundAt
<1> QED BY <1>1, <1>3, <1>4, BasicInit DEF TokenInv

LEMMA TokenInvStep == TokenInv /\ [TokenNext]_tokenVars => TokenInv'
<1>1. SUFFICES ASSUME TokenInv, [TokenNext]_tokenVars PROVE TokenInv'
  OBVIOUS
<1> QED BY <1>1, BasicStep, IssuanceStep, SoundStep DEF TokenInv

(* Whatever users, callers, answers and restarts do, in any number: the    *)
(* types, one caller under the lock of an account, rows with the tokens of *)
(* their own login, and refresh tokens that are accepted.                  *)
THEOREM TokenInvariance == TokenSpec => []TokenInv
  BY TokenInvInit, TokenInvStep, PTL DEF TokenSpec

(* StoredIsAccepted: every stored account can be refreshed, unless an      *)
(* answer was lost or the user logged in during a refresh.                 *)
THEOREM RowsAccepted == TokenSpec => []StoredIsAccepted
<1>1. TokenInv => StoredIsAccepted
  <2>1. SUFFICES ASSUME TokenInv, NEW a \in Accounts, row[a] # None, a \notin torn,
                        ~\E c \in InFlight(a) : pc[c] = "answered"
                 PROVE  Accepts(row[a].refresh) /\ row[a].access.login = row[a].refresh.login
    BY DEF StoredIsAccepted
  <2>2. \A c \in Callers : acc[c] = a => pc[c] # "answered"
    BY <2>1 DEF InFlight
  <2>3. Good(row[a])
    BY <2>1, <2>2 DEF TokenInv, Sound, SoundAt
  <2> QED BY <2>3 DEF Good
<1> QED BY <1>1, TokenInvariance, PTL

LEMMA LocksTaken == TokenInv => TokenTypeOK /\ LockHeld
  BY NoneIsNone DEF TokenInv, Basic, LockHeld, Locked, CallerFits, Under

(* RefreshesRight: of all callers that find the token of a stored account  *)
(* near its end one refreshes it, and no refresh writes an account the     *)
(* user has deleted.                                                       *)
THEOREM RefreshOnceOnly == TokenSpec => RefreshesRight
<1> DEFINE Once == \A c \in Callers : (pc[c] = "asked" /\ pc'[c] = "answered" /\ row[acc[c]] # None) =>
                      held[c].access.n \notin spent \/ acc[c] \in torn
           Stays == \A a \in Accounts : (row[a] = None /\ row'[a] # None) => row'[a].access.n = row'[a].access.login
<1>1. TokenInv => Once
  <2>1. SUFFICES ASSUME TokenInv, NEW c \in Callers, pc[c] = "asked", row[acc[c]] # None, acc[c] \notin torn
                 PROVE  held[c].access.n \notin spent
    OBVIOUS
  <2>2. acc[c] \in Accounts
    BY <2>1 DEF TokenInv, Basic, CallerFits
  <2>3. \A d \in Callers : acc[d] = acc[c] => pc[d] # "answered"
    BY <2>1, OnlyOne DEF TokenInv, Under
  <2>4. held[c] = row[acc[c]] /\ Good(row[acc[c]])
    BY <2>1, <2>2, <2>3 DEF TokenInv, Sound, SoundAt
  <2> QED BY <2>4 DEF Good
<1>2. TokenInv /\ [TokenNext]_tokenVars => Stays
  <2>1. SUFFICES ASSUME TokenTypeOK, [TokenNext]_tokenVars, NEW a \in Accounts, row[a] = None, row'[a] # None
                 PROVE  row'[a].access.n = row'[a].access.login
    BY LocksTaken
  <2>2. ASSUME NEW b \in Accounts, Login(b) PROVE row'[a].access.n = row'[a].access.login
    BY <2>1, <2>2 DEF Login, TokenTypeOK
  <2>3. ASSUME NEW b \in Accounts, Delete(b) PROVE FALSE
    BY <2>1, <2>3 DEF Delete, TokenTypeOK
  <2>4. ASSUME NEW c \in Callers, Write(c) PROVE FALSE
    BY <2>1, <2>4 DEF Write, TokenTypeOK
  <2>5. row' = row \/ (\E b \in Accounts : Login(b) \/ Delete(b)) \/ \E c \in Callers : Write(c)
    BY <2>1 DEF TokenNext, Around, Ensure, tokenVars, storeVars, Restart, Expire, Return, Use, Check, Acquire,
                Reread, Decide, Accept, Refused, LostAnswer
  <2> QED BY <2>1, <2>2, <2>3, <2>4, <2>5
<1>3. TokenSpec => [][Once]_tokenVars
  BY <1>1, TokenInvariance, PTL DEF TokenSpec
<1>4. TokenSpec => [][Stays]_tokenVars
  BY <1>2, TokenInvariance, PTL DEF TokenSpec
<1> QED BY <1>3, <1>4 DEF RefreshesRight, RefreshedOnce, DeletedStays

-----------------------------------------------------------------------------
(* The catalogue moves over the tokens. *)

AllEnabled == enabled \subseteq Accounts

LEMMA EnabledStep == AllEnabled /\ [CatalogNext]_allVars => AllEnabled'
<1>1. SUFFICES ASSUME AllEnabled, [CatalogNext]_allVars PROVE AllEnabled'
  OBVIOUS
<1> USE DEF AllEnabled, allVars, catalogVars, loadVars
<1>2. ASSUME NEW c \in Callers, Load(c) \/ Loading(c) \/ Using(c) \/ Serve(c) PROVE enabled' = enabled
  BY <1>2 DEF Load, Loading, Using, Serve, Pick, Nobody, Look, Take, Repick, NoToken, Leave, Fetch
<1> QED BY <1>1, <1>2 DEF CatalogNext, Time, Change, Stop, Switch

LEMMA TokensBeneath == AllEnabled /\ [CatalogNext]_allVars => [TokenNext]_tokenVars
<1>1. SUFFICES ASSUME AllEnabled, [CatalogNext]_allVars PROVE TokenNext \/ UNCHANGED tokenVars
  OBVIOUS
<1>2. \A a \in Pool : a \in Accounts
  BY <1>1 DEF AllEnabled, Pool
<1>3. ASSUME NEW c \in Callers, Load(c) \/ Loading(c) \/ Using(c) \/ Serve(c)
      PROVE  TokenNext \/ UNCHANGED tokenVars
  BY <1>2, <1>3 DEF Load, Loading, Using, Serve, Pick, Nobody, Look, Take, Repick, NoToken, Leave, Fetch, TokenNext
<1> QED BY <1>1, <1>3 DEF CatalogNext, Time, Change, Stop, Switch, TokenNext, allVars

(* The catalogue, its switches and its restarts use the tokens as WbTokens *)
(* says, so that what holds of WbTokens holds beneath it.                  *)
THEOREM CatalogUsesTokens == CatalogSpec => TokenSpec
<1>1. CatalogInit => TokenInit /\ AllEnabled
  BY DEF CatalogInit, AllEnabled
<1> QED BY <1>1, EnabledStep, TokensBeneath, PTL DEF CatalogSpec, TokenSpec

-----------------------------------------------------------------------------
(* The promises of the catalogue. *)

Places == {"out", "pick", "nobody", "look", "queued", "repick", "fetch", "shown"}

CachesType == /\ enabled \subseteq Accounts
              /\ cache \in [of : Accounts \cup {None}, young : BOOLEAN]
              /\ negative \in BOOLEAN /\ loading \in Callers \cup {None}
              /\ at \in [Callers -> Places] /\ seen \in [Callers -> BOOLEAN]

(* A load that asks the upstream holds the lock and has no cached answer;  *)
(* one that is past the first look at the pool has seen an account.        *)
LoadFits(c) == /\ at[c] \in {"repick", "fetch"} => loading = c /\ ~Hit /\ ~negative
               /\ at[c] \in {"look", "queued", "repick", "fetch", "shown"} => seen[c]

LoadMoves == loading # None => at[loading] \in {"nobody", "repick", "fetch"}

CachesInv == CachesType /\ LoadMoves /\ \A c \in Callers : LoadFits(c)

LEMMA CachesInit == CatalogInit => CachesInv
<1>1. SUFFICES ASSUME CatalogInit PROVE CachesInv
  OBVIOUS
<1>2. CachesType
  BY <1>1 DEF CatalogInit, CachesType, NoModels, Places
<1>3. LoadMoves /\ \A c \in Callers : LoadFits(c)
  BY <1>1 DEF CatalogInit, LoadMoves, LoadFits
<1> QED BY <1>2, <1>3 DEF CachesInv

LEMMA SeenType ==
  ASSUME NEW r, NEW e, Watch(r, e), at' \in [Callers -> Places]
  PROVE  seen' \in [Callers -> BOOLEAN]
  BY DEF Watch

(* What has been seen stays seen until the load is over. *)
LEMMA SeenStays ==
  ASSUME NEW r, NEW e, Watch(r, e), NEW c \in Callers, at'[c] # "out", at[c] # "out"
  PROVE  /\ seen[c] => seen'[c]
         /\ (\E a \in e : r[a] # None) => seen'[c]
  BY DEF Watch

(* How a step of a load handles the lock of the catalogue, and the caches. *)
LockMove(c, to) == \/ UNCHANGED loading /\ (loading = c => to \in {"nobody", "repick", "fetch"})
                   \/ loading = c /\ loading' = None
                   \/ loading = None /\ loading' = c /\ to \in {"nobody", "repick", "fetch"}

CacheMove(c) == UNCHANGED <<cache, negative>> \/ loading = c \/ (~Hit' /\ ~negative')

(* A step of one load. *)
LEMMA LoadStep ==
  ASSUME CachesInv, NEW c \in Callers, NEW to \in Places, Step(c, to), UNCHANGED enabled, Watch(row, enabled),
         cache' \in [of : Accounts \cup {None}, young : BOOLEAN], negative' \in BOOLEAN,
         to \in {"look", "queued", "repick", "fetch", "shown"} => at[c] # "out" /\ (seen[c] \/ Pool # {}),
         to \in {"repick", "fetch"} => loading' = c /\ ~Hit' /\ ~negative',
         LockMove(c, to), CacheMove(c)
  PROVE  CachesInv'
<1>1. /\ at' \in [Callers -> Places] /\ at'[c] = to /\ \A d \in Callers : d # c => at'[d] = at[d]
  BY DEF CachesInv, CachesType, Step
<1>2. CachesType'
  BY <1>1, SeenType DEF CachesInv, CachesType, LockMove
<1>3. LoadMoves'
  BY <1>1, NoneIsNone DEF CachesInv, CachesType, LoadMoves, LockMove
<1>4. ASSUME NEW d \in Callers, d # c PROVE LoadFits(d)'
  <2>1. LoadFits(d) /\ at'[d] = at[d]
    BY <1>1, <1>4 DEF CachesInv
  <2>2. at[d] \in {"repick", "fetch"} => loading' = d /\ ~Hit' /\ ~negative'
    BY <1>4, <2>1, NoneIsNone DEF LoadFits, Hit, LockMove, CacheMove
  <2>3. at[d] \in {"look", "queued", "repick", "fetch", "shown"} => seen'[d]
    BY <2>1, SeenStays DEF LoadFits
  <2> QED BY <2>1, <2>2, <2>3 DEF LoadFits
<1>5. LoadFits(c)'
  <2>1. to \in {"look", "queued", "repick", "fetch", "shown"} => seen'[c]
    <3>1. Pool # {} => \E a \in enabled : row[a] # None
      BY DEF Pool
    <3> QED BY <1>1, <3>1, SeenStays
  <2> QED BY <1>1, <2>1 DEF LoadFits
<1> QED BY <1>2, <1>3, <1>4, <1>5 DEF CachesInv

(* A step of one load that has no lock and leaves the caches alone. *)
LEMMA QuietStep ==
  ASSUME CachesInv, NEW c \in Callers, NEW to \in Places, Step(c, to), Watch(row, enabled),
         UNCHANGED <<enabled, cache, negative, loading>>, at[c] \notin {"nobody", "repick", "fetch"},
         to \notin {"repick", "fetch"},
         to \in {"look", "queued", "shown"} => at[c] # "out" /\ (seen[c] \/ Pool # {})
  PROVE  CachesInv'
<1>1. loading # c
  BY NoneIsNone DEF CachesInv, LoadMoves
<1>2. cache' \in [of : Accounts \cup {None}, young : BOOLEAN] /\ negative' \in BOOLEAN
  BY DEF CachesInv, CachesType
<1>3. UNCHANGED enabled /\ UNCHANGED loading /\ UNCHANGED <<cache, negative>>
  OBVIOUS
<1>4. to \in {"look", "queued", "repick", "fetch", "shown"} => at[c] # "out" /\ (seen[c] \/ Pool # {})
  OBVIOUS
<1>5. to \in {"repick", "fetch"} => loading' = c /\ ~Hit' /\ ~negative'
  OBVIOUS
<1>6. LockMove(c, to) /\ CacheMove(c)
  BY <1>1, <1>3 DEF LockMove, CacheMove
<1> QED BY <1>2, <1>3, <1>4, <1>5, <1>6, LoadStep

(* A step outside the loads. *)
LEMMA OtherStep ==
  ASSUME CachesInv, UNCHANGED <<loading, at>>, enabled' \subseteq Accounts, seen' \in [Callers -> BOOLEAN],
         cache' \in [of : Accounts \cup {None}, young : BOOLEAN], negative' \in BOOLEAN,
         Hit' => Hit, negative' => negative,
         \A c \in Callers : at[c] # "out" /\ seen[c] => seen'[c]
  PROVE  CachesInv'
<1>1. CachesType' /\ LoadMoves'
  BY DEF CachesInv, CachesType, LoadMoves
<1>2. ASSUME NEW c \in Callers PROVE LoadFits(c)'
  <2>1. LoadFits(c)
    BY DEF CachesInv
  <2> QED BY <2>1 DEF LoadFits
<1> QED BY <1>1, <1>2 DEF CachesInv

LEMMA FetchStep ==
  ASSUME CachesInv, Basic, NEW c \in Callers, NEW result \in {"models", "nothing", "error"}, Fetch(c, result)
  PROVE  CachesInv'
<1>1. at[c] = "fetch" /\ acc[c] \in Accounts /\ LoadFits(c)
  BY DEF Fetch, Basic, CallerFits, CachesInv
<1>2. cache' \in [of : Accounts \cup {None}, young : BOOLEAN] /\ negative' \in BOOLEAN
  BY <1>1 DEF Fetch, CachesInv, CachesType
<1>3. loading = c /\ loading' = None /\ seen[c]
  BY <1>1 DEF LoadFits, Fetch, LetGo
<1>4. Watch(row, enabled) /\ UNCHANGED enabled
  BY DEF Fetch
<1>5. ASSUME NEW to \in {"shown", "out"}, Step(c, to) PROVE CachesInv'
  <2>1. to \in Places /\ to \notin {"repick", "fetch"}
    BY <1>5 DEF Places
  <2>2. to \in {"look", "queued", "repick", "fetch", "shown"} => at[c] # "out" /\ (seen[c] \/ Pool # {})
    BY <1>1, <1>3
  <2>3. to \in {"repick", "fetch"} => loading' = c /\ ~Hit' /\ ~negative'
    BY <2>1
  <2>4. LockMove(c, to) /\ CacheMove(c)
    BY <1>3 DEF LockMove, CacheMove
  <2> QED BY <1>2, <1>4, <1>5, <2>1, <2>2, <2>3, <2>4, LoadStep
<1>6. Step(c, "shown") \/ Step(c, "out")
  BY DEF Fetch, Finish
<1> QED BY <1>5, <1>6

LEMMA LoadingStep ==
  ASSUME CachesInv, Basic, NEW c \in Callers, Load(c) \/ Loading(c)
  PROVE  CachesInv'
<1>1. CachesType /\ LoadMoves /\ LoadFits(c)
  BY DEF CachesInv
<1> USE DEF Places
<1>2. CASE Load(c)
  BY <1>2, QuietStep DEF Load
<1>3. CASE Pick(c)
  <2>1. at[c] = "pick" /\ UNCHANGED <<enabled, cache, negative, loading>> /\ Watch(row, enabled)
    BY <1>3 DEF Pick
  <2>2. (Pool = {} /\ Step(c, "nobody")) \/ (Pool # {} /\ Step(c, "look"))
    BY <1>3 DEF Pick
  <2> QED BY <2>1, <2>2, QuietStep
<1>4. CASE Nobody(c)
  BY <1>1, <1>4, NoneIsNone, LoadStep DEF LockMove, CacheMove, Nobody, CachesType, LoadMoves, LetGo, Finish, NoModels, Hit
<1>5. CASE Look(c)
  <2>1. at[c] = "look" /\ seen[c] /\ UNCHANGED <<enabled, cache, negative, loading>> /\ Watch(row, enabled)
    BY <1>1, <1>5 DEF Look, LoadFits
  <2>2. Step(c, "shown") \/ Step(c, "out") \/ Step(c, "queued")
    BY <1>5 DEF Look, Finish
  <2> QED BY <2>1, <2>2, QuietStep
<1>6. CASE Take(c)
  <2>1. /\ at[c] = "queued" /\ loading = None /\ seen[c] /\ UNCHANGED <<enabled, cache, negative>>
        /\ Watch(row, enabled)
    BY <1>1, <1>6 DEF Take, LoadFits
  <2>2. CASE UNCHANGED loading /\ (Step(c, "shown") \/ Step(c, "out"))
    BY <2>1, <2>2, QuietStep
  <2>3. CASE ~Hit /\ ~negative /\ Step(c, "repick") /\ loading' = c
    <3>1. ~Hit' /\ ~negative' /\ "repick" \in Places
      BY <2>1, <2>3 DEF Hit
    <3>2. cache' \in [of : Accounts \cup {None}, young : BOOLEAN] /\ negative' \in BOOLEAN
      BY <1>1, <2>1 DEF CachesType
    <3> QED BY <2>1, <2>3, <3>1, <3>2, LoadStep DEF LockMove, CacheMove
  <2> QED BY <1>6, <2>2, <2>3 DEF Take, Finish
<1>7. CASE Repick(c)
  BY <1>1, <1>7, NoneIsNone, LoadStep DEF LockMove, CacheMove, Repick, CachesType, LoadMoves, LoadFits, Hit
<1>8. CASE NoToken(c)
  BY <1>1, <1>8, NoneIsNone, LoadStep DEF LockMove, CacheMove, NoToken, CachesType, LoadMoves, LoadFits, LetGo, Finish
<1>9. CASE Leave(c)
  BY <1>9, QuietStep DEF Leave
<1>10. ASSUME NEW result \in Answers, Fetch(c, result) PROVE CachesInv'
  <2>1. result \in {"models", "nothing", "error"}
    BY <1>10 DEF Answers, Union
  <2> QED BY <1>10, <2>1, FetchStep
<1> QED BY <1>2, <1>3, <1>4, <1>5, <1>6, <1>7, <1>8, <1>9, <1>10 DEF Loading

LEMMA CachesStep ==
  ASSUME CachesInv, Basic, [CatalogNext]_allVars
  PROVE  CachesInv'
<1>1. CachesType
  BY DEF CachesInv
<1>2. CASE UNCHANGED catalogVars
  BY <1>1, <1>2, OtherStep DEF catalogVars, CachesType, Hit
<1>3. CASE Time
  BY <1>1, <1>3, OtherStep DEF Time, CacheAges, NegativeEnds, CachesType, Hit
<1>4. ASSUME NEW a \in Accounts, Switch(a) PROVE CachesInv'
  <2>1. UNCHANGED <<cache, negative, loading, at>> /\ enabled' \subseteq Accounts /\ Watch(row, enabled')
    BY <1>1, <1>4 DEF Switch, loadVars, CachesType
  <2> QED BY <1>1, <2>1, SeenType, SeenStays, OtherStep DEF CachesType, Hit
<1>5. CASE Change
  <2>1. UNCHANGED <<cache, negative, loading, at>> /\ enabled' \subseteq Accounts /\ Watch(row', enabled')
    BY <1>1, <1>5 DEF Change, loadVars, CachesType
  <2> QED BY <1>1, <2>1, SeenType, SeenStays, OtherStep DEF CachesType, Hit
<1>6. CASE Stop
  BY <1>1, <1>6, NoneIsNone DEF Stop, CachesInv, CachesType, LoadMoves, LoadFits, NoModels, Places
<1>7. ASSUME NEW c \in Callers, Using(c) \/ Serve(c) PROVE CachesInv'
  BY <1>2, <1>7 DEF Using, Serve
<1>8. UNCHANGED allVars => UNCHANGED catalogVars
  BY DEF allVars
<1> QED BY <1>2, <1>3, <1>4, <1>5, <1>6, <1>7, <1>8, LoadingStep DEF CatalogNext

(* For any number of accounts, callers, tokens and endpoints the tokens    *)
(* and the caches keep their invariants together.                          *)
THEOREM CatalogInvariance == CatalogSpec => [](TokenInv /\ CachesInv)
<1>1. CachesInv /\ TokenInv /\ [CatalogNext]_allVars => CachesInv'
  BY CachesStep DEF TokenInv
<1> QED BY <1>1, CachesInit, CatalogUsesTokens, TokenInvariance, PTL DEF CatalogSpec

(* CatalogInv: types, the locks of the accounts and the lock of the        *)
(* catalogue: who holds one is on the way to giving it back.               *)
THEOREM LocksAreReturned == CatalogSpec => []CatalogInv
<1>1. TokenInv /\ CachesInv => CatalogInv
  <2>1. SUFFICES ASSUME TokenInv, CachesInv PROVE CatalogInv
    OBVIOUS
  <2>2. TokenTypeOK /\ LockHeld
    BY <2>1, LocksTaken
  <2>3. CatalogTypeOK
    BY <2>1, <2>2 DEF CachesInv, CachesType, CatalogTypeOK, Places
  <2>4. ASSUME NEW a \in Accounts, lock[a] # None
        PROVE  acc[lock[a]] = a /\ pc[lock[a]] \in {"reread", "decide", "asked", "answered"}
    BY <2>1, <2>2, <2>4 DEF TokenInv, Basic, Locked, TokenTypeOK, Under
  <2> QED BY <2>1, <2>2, <2>3, <2>4 DEF CatalogInv, LocksMove, CachesInv, LoadMoves
<1> QED BY <1>1, CatalogInvariance, PTL

(* OneFetch: of all callers one asks the upstream, and only if neither     *)
(* cache answers.                                                          *)
THEOREM OneFetchOnly == CatalogSpec => []OneFetch
<1>1. CachesInv => OneFetch
  BY DEF CachesInv, LoadFits, OneFetch
<1> QED BY <1>1, CatalogInvariance, PTL

(* EmptyPoolShowsNothing: models are only shown by a load during which an  *)
(* account could be selected.                                              *)
THEOREM EmptyPoolIsEmpty == CatalogSpec => []EmptyPoolShowsNothing
<1>1. CachesInv => EmptyPoolShowsNothing
  BY DEF CachesInv, LoadFits, EmptyPoolShowsNothing
<1> QED BY <1>1, CatalogInvariance, PTL

(* StoredIsAccepted and RefreshesRight beneath the catalogue. *)
THEOREM CatalogKeepsTokens == CatalogSpec => []StoredIsAccepted /\ RefreshesRight
  BY CatalogUsesTokens, RowsAccepted, RefreshOnceOnly
==============================================================================
