--------------------------- MODULE HistoryProofs ---------------------------
(***************************************************************************)
(* Batches of calls and results stay together in the history that is read  *)
(* from a request, for every number of pieces and each of the protocols    *)
(* (BatchesStayAlways), and what is said in it reaches every upstream, the *)
(* results of named calls WorkBuddy among them (NothingLostAlways).        *)
(*                                                                         *)
(* A request whose calls are answered at once is read from the front.      *)
(* After n pieces a history owes the results of the calls that have been   *)
(* read and not answered (Debt): all calls of the run before n, less the   *)
(* results that came, so the ids owed are the end of the run's.  The       *)
(* history read so far would be paired if those results were added to it   *)
(* (Owes).  Reading a message keeps the two level (Level): a message of    *)
(* calls brings its ids into debt, a message of results pays the first of  *)
(* it, and any other comes when nothing is owed.  At the end nothing is    *)
(* owed, so the history itself is paired.                                  *)
(*                                                                         *)
(* Chat and Anthropic make their messages group by group (GroupSteps); in  *)
(* Anthropic a message may hold results and text (Leveling).  Responses    *)
(* goes item by item: the calls being collected are the debt, and the      *)
(* results that wait are level with the items (Reading).                   *)
(*                                                                         *)
(* What is spoken in a history is what its messages give when each is      *)
(* heard (Voices, Drawn), so a pass is followed message by message: what   *)
(* it adds or leaves out is not heard, and what it joins is heard as one   *)
(* (Folds).  A request says its pieces; its history speaks them, group by  *)
(* group or item by item (Saying).  A result is followed with its call     *)
(* (Promise): the first passes keep both, gathering finds the result in    *)
(* the window of its call and a result that is not empty is chosen, and    *)
(* cleaning up keeps them, for the call has a name and ids are unique.     *)
(***************************************************************************)
EXTENDS ConvertProofs

-------------------------------------------------------------------------------
(* Runs of calls, and the results that are owed                              *)

(* The pieces a .. b are calls, and the one before is none; no call follows. *)
Run(w, a, b) == a \in 1 .. b /\ b \in 1 .. Len(w) /\ (\A i \in a .. b : IsCall(w[i])) /\ (a = 1 \/ ~IsCall(w[a - 1]))
Complete(w, b)  == b = Len(w) \/ ~IsCall(w[b + 1])

(* In a conversation whose calls are answered at once: every run of calls is *)
(* followed by the results of its calls, and there is no other result.       *)
Behaved(w) ==
  /\ \A i \in 1 .. Len(w) : w[i].k \notin {"nameless", "noid", "stray"}
  /\ \A a, b \in 1 .. Len(w) : (Run(w, a, b) /\ Complete(w, b)) =>
       \A k \in 1 .. b - a + 1 :
         b + k \in 1 .. Len(w) /\ IsResult(w[b + k]) /\ Results[w[b + k].k] = Calls[w[a + k - 1].k].id
  /\ \A i \in 1 .. Len(w) : IsResult(w[i]) =>
       \E a, b \in 1 .. Len(w) : Run(w, a, b) /\ Complete(w, b) /\ i \in b + 1 .. b + (b - a + 1)

(* A run begins somewhere, and at one place only.                            *)
LEMMA RunBegins ==
  ASSUME NEW w \in Wires, NEW b \in 1 .. Len(w), IsCall(w[b])
  PROVE  \E a \in 1 .. Len(w) : /\ Run(w, a, b)
                                /\ a = CHOOSE c \in 1 .. b : (\A i \in c .. b : IsCall(w[i])) /\ (c = 1 \/ ~IsCall(w[c - 1]))
<1>1. Len(w) \in Nat
    BY WireFacts, Zenon
<1> DEFINE Good(c) == (\A i \in c .. b : IsCall(w[i])) /\ (c = 1 \/ ~IsCall(w[c - 1]))
           T == {c \in 1 .. b : \A i \in c .. b : IsCall(w[i])}
           f == CHOOSE c \in 1 .. b : Good(c)
<1>2. b \in T /\ T \subseteq Nat
    BY <1>1
<1>3. PICK c \in T : \A d \in T : c <= d
    BY <1>2, LeastNumber
<1>4. Good(c)
  <2> SUFFICES ASSUME c # 1, IsCall(w[c - 1]) PROVE FALSE
      OBVIOUS
  <2>1. c - 1 \in 1 .. b /\ \A i \in c - 1 .. b : i = c - 1 \/ i \in c .. b
      BY <1>1
  <2>2. c - 1 \in T
      BY <2>1, Zenon
  <2> QED BY <1>1, <1>3, <2>2
<1>5. c \in 1 .. b
    OBVIOUS
<1> HIDE DEF T
<1>6. f \in 1 .. b /\ Good(f)
    BY <1>4, <1>5, Zenon
<1> HIDE DEF f
<1>7. f \in 1 .. Len(w)
    BY <1>1, <1>6
<1>8. Run(w, f, b)
    BY <1>6, Zenon DEF Run
<1> QED BY <1>7, <1>8 DEF f

(* A run has one first piece.                                                *)
LEMMA RunUnique ==
  ASSUME NEW w \in Wires, NEW a, NEW c, NEW b, Run(w, a, b), Run(w, c, b)
  PROVE  a = c
<1>1. a \in 1 .. b /\ c \in 1 .. b /\ b \in 1 .. Len(w) /\ Len(w) \in Nat
    BY WireFacts, Zenon DEF Run
<1>2. ASSUME a < c PROVE FALSE
  <2>1. c - 1 \in a .. b /\ c # 1
      BY <1>1, <1>2
  <2> QED BY <2>1, Zenon DEF Run
<1>3. ASSUME c < a PROVE FALSE
  <2>1. a - 1 \in c .. b /\ a # 1
      BY <1>1, <1>3
  <2> QED BY <2>1, Zenon DEF Run
<1> QED BY <1>1, <1>2, <1>3

(* Answered says just that.                                                  *)
LEMMA AnsweredFacts ==
  ASSUME NEW proto, NEW w \in Wires, Answered(proto, w)
  PROVE  /\ Behaved(w)
         /\ proto # "responses" => \A i \in 1 .. Len(w) : (IsCall(w[i]) /\ i > 1 /\ IsCall(w[i - 1])) => w[i].glue
<1> DEFINE First(b) == CHOOSE a \in 1 .. b : (\A i \in a .. b : IsCall(w[i])) /\ (a = 1 \/ ~IsCall(w[a - 1]))
           batches == {b \in DOMAIN w : IsCall(w[b]) /\ (b = Len(w) \/ ~IsCall(w[b + 1]))}
           Ids2(b) == [k \in 1 .. b - First(b) + 1 |-> Calls[w[First(b) + k - 1].k].id]
<1>1. Len(w) \in Nat /\ DOMAIN w = 1 .. Len(w)
    BY WireFacts, Zenon
<1>2. /\ \A i \in DOMAIN w : w[i].k \notin {"nameless", "noid", "stray"}
      /\ \A i \in DOMAIN w : (IsCall(w[i]) /\ i > 1 /\ IsCall(w[i - 1])) => w[i].glue \/ proto = "responses"
      /\ \A b \in batches : \A k \in DOMAIN Ids2(b) :
            b + k \in DOMAIN w /\ IsResult(w[b + k]) /\ Results[w[b + k].k] = Ids2(b)[k]
      /\ \A i \in DOMAIN w : IsResult(w[i]) => \E b \in batches : i \in b + 1 .. b + Len(Ids2(b))
    BY Zenon DEF Answered
<1>3. ASSUME NEW b \in 1 .. Len(w), IsCall(w[b]) PROVE First(b) \in 1 .. Len(w) /\ Run(w, First(b), b)
    BY <1>3, RunBegins, Zenon
<1> HIDE DEF First
<1>4. ASSUME NEW a \in 1 .. Len(w), NEW b \in 1 .. Len(w), Run(w, a, b), Complete(w, b), NEW k \in 1 .. b - a + 1
      PROVE  b + k \in 1 .. Len(w) /\ IsResult(w[b + k]) /\ Results[w[b + k].k] = Calls[w[a + k - 1].k].id
  <2>1. IsCall(w[b])
    <3>1. b \in a .. b
        BY <1>1, <1>4 DEF Run
    <3> QED BY <1>4, <3>1, Zenon DEF Run
  <2>2. b \in batches
      BY <1>1, <1>4, <2>1, Zenon DEF Complete
  <2>3. a = First(b)
      BY <1>3, <1>4, <2>1, RunUnique, Zenon
  <2>4. k \in DOMAIN Ids2(b) /\ Ids2(b)[k] = Calls[w[a + k - 1].k].id
      BY <2>3, Zenon
  <2> HIDE DEF batches, Ids2
  <2> QED BY <1>1, <1>2, <2>2, <2>4, Zenon
<1>5. ASSUME NEW i \in 1 .. Len(w), IsResult(w[i])
      PROVE  \E a, b \in 1 .. Len(w) : Run(w, a, b) /\ Complete(w, b) /\ i \in b + 1 .. b + (b - a + 1)
  <2>1. PICK b \in batches : i \in b + 1 .. b + Len(Ids2(b))
      BY <1>1, <1>2, <1>5, Zenon
  <2>2. b \in 1 .. Len(w) /\ IsCall(w[b]) /\ Complete(w, b)
      BY <1>1, Zenon DEF Complete
  <2>3. First(b) \in 1 .. Len(w) /\ Run(w, First(b), b)
      BY <1>3, <2>2, Zenon
  <2>4. Len(Ids2(b)) = b - First(b) + 1
    <3>1. b - First(b) + 1 \in Nat
        BY <1>1, <2>2, <2>3 DEF Run
    <3> QED BY <3>1
  <2>5. i \in b + 1 .. b + (b - First(b) + 1)
      BY <2>1, <2>4
  <2> QED BY <2>2, <2>3, <2>5, Zenon
<1>6. Behaved(w)
    BY <1>1, <1>2, <1>4, <1>5, Zenon DEF Behaved
<1> HIDE DEF batches
<1> QED BY <1>1, <1>2, <1>6, Zenon

(* The ids of the calls c .. b, and the ids whose results are still to come  *)
(* after n pieces.                                                           *)
IdsFrom(w, c, b) == [k \in 1 .. b - c + 1 |-> Calls[w[c + k - 1].k].id]
Owing(w, n, ids, a, b) ==
  /\ Run(w, a, b) /\ n \in b .. b + (b - a + 1) /\ (n > b => Complete(w, b))
  /\ ids = IdsFrom(w, a + (n - b), b)
Debt(w, n, ids) ==
  \/ ids = <<>> /\ (n = 0 \/ (~IsCall(w[n]) /\ ~IsResult(w[n])))
  \/ \E a, b \in 1 .. Len(w) : Owing(w, n, ids, a, b)

(* Where a run lies; it ends with a call.                                    *)
LEMMA RunFacts ==
  ASSUME NEW w \in Wires, NEW a, NEW b, Run(w, a, b)
  PROVE  Len(w) \in Nat /\ a \in 1 .. b /\ b \in 1 .. Len(w) /\ a \in Nat /\ b \in Nat /\ IsCall(w[b])
<1>1. Len(w) \in Nat /\ a \in 1 .. b /\ b \in 1 .. Len(w)
    BY WireFacts, Zenon DEF Run
<1>2. b \in a .. b
    BY <1>1
<1> QED BY <1>1, <1>2 DEF Run

(* No result is owed unless a result comes next, or a call of the same run.  *)
LEMMA DebtPaid ==
  ASSUME NEW w \in Wires, Behaved(w), NEW n \in 0 .. Len(w), NEW ids, Debt(w, n, ids),
         n # Len(w) => ~IsResult(w[n + 1]) /\ (n = 0 \/ ~IsCall(w[n]) \/ ~IsCall(w[n + 1]))
  PROVE  ids = <<>>
<1> SUFFICES ASSUME NEW a \in 1 .. Len(w), NEW b \in 1 .. Len(w), Owing(w, n, ids, a, b) PROVE ids = <<>>
    BY Zenon DEF Debt
<1>1. /\ Len(w) \in Nat /\ a \in 1 .. b /\ b \in 1 .. Len(w) /\ a \in Nat /\ b \in Nat /\ IsCall(w[b])
      /\ Run(w, a, b) /\ n \in b .. b + (b - a + 1) /\ n \in Nat
  <2>1. Run(w, a, b) /\ n \in b .. b + (b - a + 1)
      BY Zenon DEF Owing
  <2> QED BY <2>1, RunFacts
<1>2. Complete(w, b)
  <2>1. CASE n = b
    <3>1. n # 0
        BY <1>1, <2>1
    <3> QED BY <1>1, <2>1, <3>1, Zenon DEF Complete
  <2>2. CASE n # b
    <3>1. n > b
        BY <1>1, <2>2
    <3> QED BY <3>1, Zenon DEF Owing
  <2> QED BY <2>1, <2>2
<1>3. n = b + (b - a + 1)
  <2> SUFFICES ASSUME n # b + (b - a + 1) PROVE FALSE
      OBVIOUS
  <2> DEFINE k == n - b + 1
  <2>1. k \in 1 .. b - a + 1 /\ b + k = n + 1
      BY <1>1
  <2> HIDE DEF k
  <2>2. b + k \in 1 .. Len(w) /\ IsResult(w[b + k])
      BY <1>1, <1>2, <2>1, Zenon DEF Behaved
  <2>3. n # Len(w) /\ IsResult(w[n + 1])
      BY <1>1, <2>1, <2>2
  <2> QED BY <2>3
<1>4. ids = IdsFrom(w, a + (n - b), b)
    BY Zenon DEF Owing
<1>5. 1 .. b - (a + (n - b)) + 1 = {}
    BY <1>1, <1>3
<1>6. ids = [k \in {} |-> Calls[w[(a + (n - b)) + k - 1].k].id]
    BY <1>4, <1>5, Zenon DEF IdsFrom
<1> QED BY <1>6

(* The id of a call is a word.                                               *)
LEMMA CallIdIn ==
  ASSUME NEW w, NEW i, IsCall(w[i])
  PROVE  Calls[w[i].k].id \in Word
<1>1. w[i].k \in {"call1", "call2", "nameless", "noid"}
    BY DEF IsCall, Calls
<1>2. "" \in Word /\ "c1" \in Word /\ "c2" \in Word
    BY DEF Word
<1>3. Calls["call1"].id = "c1" /\ Calls["call2"].id = "c2" /\ Calls["nameless"].id = "c2" /\ Calls["noid"].id = ""
    BY DEF Calls
<1> DEFINE k == w[i].k
<1>4. k = "call1" \/ k = "call2" \/ k = "nameless" \/ k = "noid"
    BY <1>1
<1> HIDE DEF k
<1>5. Calls[k].id \in Word
    BY <1>2, <1>3, <1>4, Zenon
<1> QED BY <1>5 DEF k

(* So are the ids of a run, or of the end of one.                            *)
LEMMA IdsFromIn ==
  ASSUME NEW w, NEW a \in Nat, NEW b \in Nat, NEW c \in a .. b + 1, \A i \in a .. b : IsCall(w[i])
  PROVE  IdsFrom(w, c, b) \in Seq(Word) /\ Len(IdsFrom(w, c, b)) = b - c + 1
<1> DEFINE m == b - c + 1
           ids == IdsFrom(w, c, b)
<1>1. m \in Nat /\ \A k \in 1 .. m : c + k - 1 \in a .. b
    OBVIOUS
<1>2. \A k \in 1 .. m : Calls[w[c + k - 1].k].id \in Word
    BY <1>1, CallIdIn, Zenon
<1>3. ids \in [1 .. m -> Word]
    BY <1>2, Zenon DEF IdsFrom
<1> HIDE DEF m, ids
<1>4. ids \in Seq(Word) /\ Len(ids) = m
    BY <1>1, <1>3, FunSeq, Zenon
<1> QED BY <1>4 DEF m, ids

(* A result that comes is the first of those owed.                           *)
LEMMA DebtLess ==
  ASSUME NEW w \in Wires, Behaved(w), NEW n \in 0 .. Len(w), n # Len(w), NEW ids, Debt(w, n, ids), IsResult(w[n + 1])
  PROVE  /\ ids \in Seq(Word) /\ ids # <<>> /\ ids[1] = Results[w[n + 1].k]
         /\ Debt(w, n + 1, Tail(ids))
<1> DEFINE l == n + 1
<1>0. Len(w) \in Nat /\ l \in 1 .. Len(w) /\ l = n + 1 /\ n \in Nat
  <2>1. Len(w) \in Nat
      BY WireFacts, Zenon
  <2> QED BY <2>1
<1>00. ASSUME NEW i \in 1 .. Len(w), IsResult(w[i]) PROVE ~IsCall(w[i])
  <2>1. w[i].k \in Kinds /\ "chat" \in Protos
      BY WireFacts, Zenon DEF Protos
  <2> QED BY <1>00, <2>1, SideFacts, Zenon
<1> HIDE DEF l
<1>1. PICK a \in 1 .. Len(w), b \in 1 .. Len(w) : Run(w, a, b) /\ Complete(w, b) /\ l \in b + 1 .. b + (b - a + 1)
    BY <1>0, Zenon DEF Behaved, l
<1>2. Len(w) \in Nat /\ a \in 1 .. b /\ b \in 1 .. Len(w) /\ a \in Nat /\ b \in Nat /\ IsCall(w[b])
    BY <1>1, RunFacts
<1>3. \A k \in 1 .. b - a + 1 :
         b + k \in 1 .. Len(w) /\ IsResult(w[b + k]) /\ Results[w[b + k].k] = Calls[w[a + k - 1].k].id
    BY <1>1, Zenon DEF Behaved
<1>4. n \in b .. b + (b - a + 1)
    BY <1>0, <1>1, <1>2
<1>5. ~(n = 0) /\ (IsCall(w[n]) \/ IsResult(w[n]))
  <2>1. CASE n = b
      BY <1>2, <2>1
  <2>2. CASE n # b
    <3> DEFINE k == n - b
    <3>1. k \in 1 .. b - a + 1 /\ b + k = n /\ n # 0
        BY <1>0, <1>1, <1>2, <2>2
    <3> HIDE DEF k
    <3> QED BY <1>3, <3>1
  <2> QED BY <2>1, <2>2
<1>6. PICK c \in 1 .. Len(w), d \in 1 .. Len(w) : Owing(w, n, ids, c, d)
    BY <1>5, Zenon DEF Debt
<1>7. /\ c \in 1 .. d /\ d \in 1 .. Len(w) /\ c \in Nat /\ d \in Nat /\ IsCall(w[d])
      /\ Run(w, c, d) /\ n \in d .. d + (d - c + 1)
  <2>1. Run(w, c, d) /\ n \in d .. d + (d - c + 1)
      BY <1>6, Zenon DEF Owing
  <2> QED BY <2>1, RunFacts
<1>8. b = d
  <2>1. ASSUME b < d PROVE FALSE
    <3> DEFINE k == d - b
    <3>1. k \in 1 .. b - a + 1 /\ b + k = d
        BY <1>0, <1>1, <1>2, <1>7, <2>1
    <3> HIDE DEF k
    <3>2. IsResult(w[d])
        BY <1>3, <3>1
    <3> QED BY <1>00, <1>7, <3>2, Zenon
  <2>2. ASSUME d < b PROVE FALSE
    <3>1. n > d
        BY <1>0, <1>1, <1>2, <1>7, <2>2
    <3>2. Complete(w, d)
        BY <1>6, <3>1, Zenon DEF Owing
    <3> DEFINE k == b - d
    <3>3. k \in 1 .. d - c + 1 /\ d + k = b
        BY <1>0, <1>1, <1>2, <1>7, <2>2
    <3> HIDE DEF k
    <3>4. IsResult(w[b])
        BY <1>7, <3>2, <3>3, Zenon DEF Behaved
    <3> QED BY <1>00, <1>2, <3>4, Zenon
  <2> QED BY <1>2, <1>7, <2>1, <2>2
<1>9. a = c
    BY <1>1, <1>7, <1>8, RunUnique, Zenon
<1> DEFINE e == a + (n - b)
           m == b - e + 1
<1>10. e \in 1 .. b /\ e \in Nat /\ m \in Nat /\ m \in 1 .. b - a + 1 /\ e = a + (n - b) /\ m = b - e + 1 /\ e + 1 = a + (l - b)
    BY <1>0, <1>1, <1>2
<1>11. ids = IdsFrom(w, e, b)
    BY <1>6, <1>8, <1>9, Zenon DEF Owing
<1> HIDE DEF e, m
<1>12. ids = [k \in 1 .. m |-> Calls[w[e + k - 1].k].id]
    BY <1>10, <1>11, Zenon DEF IdsFrom
<1>13. \A i \in a .. b : IsCall(w[i])
    BY <1>1, Zenon DEF Run
<1>15. ids \in Seq(Word) /\ Len(ids) = m /\ m # 0
  <2>1. e \in a .. b + 1 /\ m = b - e + 1
      BY <1>0, <1>2, <1>4, <1>10
  <2>2. IdsFrom(w, e, b) \in Seq(Word) /\ Len(IdsFrom(w, e, b)) = b - e + 1
      BY <1>2, <1>13, <2>1, IdsFromIn, Zenon
  <2> QED BY <1>10, <1>11, <2>1, <2>2
<1>16. ids # <<>>
    BY <1>15
<1>17. ids[1] = Results[w[l].k]
  <2>1. 1 \in 1 .. m /\ e + 1 - 1 = e
      BY <1>10
  <2>2. ids[1] = Calls[w[e].k].id
      BY <1>12, <2>1, Zenon
  <2> DEFINE k == n - b + 1
  <2>3. k \in 1 .. b - a + 1 /\ b + k = l /\ a + k - 1 = e
      BY <1>0, <1>1, <1>2, <1>10
  <2> HIDE DEF k
  <2>4. Results[w[b + k].k] = Calls[w[a + k - 1].k].id
      BY <1>3, <2>3, Zenon
  <2> QED BY <2>2, <2>3, <2>4
<1>18. Tail(ids) = IdsFrom(w, e + 1, b)
  <2>1. Tail(ids) = [k \in 1 .. m - 1 |-> ids[k + 1]]
    <3>1. /\ Tail(ids) \in Seq(Word) /\ Len(Tail(ids)) = Len(ids) - 1
          /\ \A k \in 1 .. Len(Tail(ids)) : Tail(ids)[k] = ids[k + 1]
        BY <1>15, <1>16, HeadTailProperties
    <3>2. Len(Tail(ids)) = m - 1
        BY <1>15, <3>1
    <3> DEFINE t == Tail(ids)
    <3> HIDE DEF t
    <3>3. t = [k \in 1 .. Len(t) |-> t[k]]
        BY <3>1, SeqFacts, Zenon DEF t
    <3>4. t = [k \in 1 .. m - 1 |-> ids[k + 1]]
        BY <3>1, <3>2, <3>3, Zenon DEF t
    <3> QED BY <3>4 DEF t
  <2>2. \A k \in 1 .. m - 1 : k + 1 \in 1 .. m /\ e + (k + 1) - 1 = (e + 1) + k - 1
      BY <1>10
  <2>3. \A k \in 1 .. m - 1 : ids[k + 1] = Calls[w[(e + 1) + k - 1].k].id
    <3> TAKE k \in 1 .. m - 1
    <3>1. ids[k + 1] = Calls[w[e + (k + 1) - 1].k].id
        BY <1>12, <2>2, Zenon
    <3> QED BY <2>2, <3>1
  <2>4. m - 1 = b - (e + 1) + 1
      BY <1>2, <1>10
  <2> QED BY <2>1, <2>3, <2>4, Zenon DEF IdsFrom
<1>19. Owing(w, l, Tail(ids), a, b)
  <2>1. l \in b .. b + (b - a + 1)
      BY <1>0, <1>1, <1>2
  <2> QED BY <1>1, <1>10, <1>18, <2>1, Zenon DEF Owing
<1> QED BY <1>1, <1>15, <1>16, <1>17, <1>19, Zenon DEF Debt, l

(* What is owed is a sequence of ids.                                        *)
LEMMA DebtIn ==
  ASSUME NEW w \in Wires, NEW n \in Nat, NEW ids, Debt(w, n, ids)
  PROVE  ids \in Seq(Word)
<1>1. CASE ids = <<>>
    BY <1>1
<1>2. CASE \E a, b \in 1 .. Len(w) : Owing(w, n, ids, a, b)
  <2>1. PICK a \in 1 .. Len(w), b \in 1 .. Len(w) : Owing(w, n, ids, a, b)
      BY <1>2
  <2> DEFINE c == a + (n - b)
  <2>2. a \in Nat /\ b \in Nat /\ c \in a .. b + 1 /\ \A i \in a .. b : IsCall(w[i])
    <3>1. Run(w, a, b) /\ n \in b .. b + (b - a + 1)
        BY <2>1, Zenon DEF Owing
    <3>2. a \in 1 .. b /\ a \in Nat /\ b \in Nat
        BY <3>1, RunFacts
    <3> QED BY <3>1, <3>2 DEF Run
  <2>3. ids = IdsFrom(w, c, b)
      BY <2>1, Zenon DEF Owing
  <2> HIDE DEF c
  <2> QED BY <2>2, <2>3, IdsFromIn, Zenon
<1> QED BY <1>1, <1>2, Zenon DEF Debt

(* A call that comes is owed a result behind the others.                     *)
LEMMA DebtMore ==
  ASSUME NEW w \in Wires, Behaved(w), NEW n \in 0 .. Len(w), n # Len(w), NEW ids, Debt(w, n, ids), IsCall(w[n + 1])
  PROVE  /\ ids \in Seq(Word) /\ Calls[w[n + 1].k].id \in Word
         /\ Debt(w, n + 1, Append(ids, Calls[w[n + 1].k].id))
         /\ (n = 0 \/ ~IsCall(w[n])) => ids = <<>>
<1> DEFINE l == n + 1
           x == Calls[w[l].k].id
<1>0. Len(w) \in Nat /\ l \in 1 .. Len(w) /\ l = n + 1 /\ n \in Nat /\ l \in Nat /\ l - 1 = n
  <2>1. Len(w) \in Nat
      BY WireFacts, Zenon
  <2> QED BY <2>1
<1>00. ASSUME NEW i \in 1 .. Len(w), IsCall(w[i]) PROVE ~IsResult(w[i])
  <2>1. w[i].k \in Kinds /\ "chat" \in Protos
      BY WireFacts, Zenon DEF Protos
  <2> QED BY <1>00, <2>1, SideFacts, Zenon
<1>1. ids \in Seq(Word)
    BY <1>0, DebtIn, Zenon
<1>2. x \in Word /\ IsCall(w[l])
    BY CallIdIn, Zenon
<1>3. (n = 0 \/ ~IsCall(w[n])) => ids = <<>>
  <2>1. ~IsResult(w[n + 1])
      BY <1>0, <1>00, <1>2, Zenon
  <2> QED BY <2>1, DebtPaid, Zenon
<1> HIDE DEF l, x
<1>4. CASE n = 0 \/ ~IsCall(w[n])
  <2>1. ids = <<>>
      BY <1>3, <1>4
  <2>2. Append(ids, x) = IdsFrom(w, l, l)
    <3> HIDE DEF Word
    <3>1. Append(ids, x) = << x >>
        BY <2>1
    <3>2. l - l + 1 = 1 /\ \A k \in 1 .. 1 : l + k - 1 = l
        BY <1>0
    <3>3. IdsFrom(w, l, l) = [k \in 1 .. 1 |-> x]
        BY <3>2, Zenon DEF IdsFrom, x
    <3>4. \A y : << y >> = [k \in 1 .. 1 |-> y]
        OBVIOUS
    <3> QED BY <3>1, <3>3, <3>4, Zenon
  <2>3. Run(w, l, l)
    <3>1. l \in 1 .. l /\ (\A i \in l .. l : i = l) /\ (l = 1 <=> n = 0)
        BY <1>0
    <3> QED BY <1>0, <1>2, <1>4, <3>1, Zenon DEF Run
  <2>4. Owing(w, l, Append(ids, x), l, l)
    <3>1. l \in l .. l + (l - l + 1) /\ ~(l > l) /\ l + (l - l) = l
        BY <1>0
    <3> QED BY <2>2, <2>3, <3>1, Zenon DEF Owing
  <2>5. Debt(w, l, Append(ids, x))
      BY <1>0, <2>4, Zenon DEF Debt
  <2> QED BY <1>1, <1>2, <1>3, <2>5 DEF l, x
<1>5. CASE n # 0 /\ IsCall(w[n])
  <2>1. PICK a \in 1 .. Len(w), b \in 1 .. Len(w) : Owing(w, n, ids, a, b)
      BY <1>5, Zenon DEF Debt
  <2>2. /\ a \in 1 .. b /\ b \in 1 .. Len(w) /\ a \in Nat /\ b \in Nat
        /\ Run(w, a, b) /\ n \in b .. b + (b - a + 1)
    <3>1. Run(w, a, b) /\ n \in b .. b + (b - a + 1)
        BY <2>1, Zenon DEF Owing
    <3> QED BY <3>1, RunFacts
  <2>3. n = b
    <3> SUFFICES ASSUME n # b PROVE FALSE
        OBVIOUS
    <3>1. n > b
        BY <2>2
    <3>2. Complete(w, b)
        BY <2>1, <3>1, Zenon DEF Owing
    <3> DEFINE k == n - b
    <3>3. k \in 1 .. b - a + 1 /\ b + k = n
        BY <1>0, <2>2, <3>1
    <3> HIDE DEF k
    <3>4. IsResult(w[b + k])
        BY <2>2, <3>2, <3>3, Zenon DEF Behaved
    <3>5. n \in 1 .. Len(w)
        BY <1>0, <1>5
    <3> QED BY <1>00, <1>5, <3>3, <3>4, <3>5
  <2>4. Run(w, a, l)
    <3>1. a \in 1 .. l /\ \A i \in a .. l : i \in a .. b \/ i = l
        BY <1>0, <2>2, <2>3
    <3>2. (\A i \in a .. b : IsCall(w[i])) /\ (a = 1 \/ ~IsCall(w[a - 1]))
        BY <2>2, Zenon DEF Run
    <3> QED BY <1>0, <1>2, <3>1, <3>2, Zenon DEF Run
  <2>5. ids = IdsFrom(w, a, b)
    <3>1. a + (n - b) = a
        BY <2>2, <2>3
    <3> QED BY <2>1, <3>1, Zenon DEF Owing
  <2> DEFINE m == b - a + 1
  <2>6. m \in Nat /\ Len(ids) = m /\ m + 1 = l - a + 1 /\ a + (m + 1) - 1 = l
    <3>1. a \in a .. b + 1 /\ \A i \in a .. b : IsCall(w[i])
        BY <2>2 DEF Run
    <3>2. Len(IdsFrom(w, a, b)) = b - a + 1
        BY <2>2, <3>1, IdsFromIn, Zenon
    <3> QED BY <1>0, <2>2, <2>3, <2>5, <3>2
  <2> HIDE DEF m
  <2>7. Append(ids, x) = IdsFrom(w, a, l)
    <3> DEFINE q == Append(ids, x)
    <3>1. /\ q \in Seq(Word) /\ Len(q) = m + 1 /\ \A k \in 1 .. m : q[k] = ids[k]
          /\ q[m + 1] = x
      <4> HIDE DEF Word
      <4>1. /\ q \in Seq(Word) /\ Len(q) = Len(ids) + 1 /\ \A k \in 1 .. Len(ids) : q[k] = ids[k]
            /\ q[Len(ids) + 1] = x
          BY <1>1, <1>2, AppendProperties
      <4> QED BY <2>6, <4>1
    <3> HIDE DEF q
    <3>2. q = [k \in 1 .. m + 1 |-> q[k]]
        BY <3>1, SeqFacts, Zenon
    <3>3. ids = [k \in 1 .. m |-> Calls[w[a + k - 1].k].id]
        BY <2>5, Zenon DEF IdsFrom, m
    <3>4. \A k \in 1 .. m + 1 : k \in 1 .. m \/ k = m + 1
        BY <2>6
    <3>5. \A k \in 1 .. m + 1 : q[k] = Calls[w[a + k - 1].k].id
        BY <2>6, <3>1, <3>3, <3>4, Zenon DEF x
    <3>6. q = [k \in 1 .. m + 1 |-> Calls[w[a + k - 1].k].id]
        BY <3>2, <3>5, Zenon
    <3> QED BY <2>6, <3>6, Zenon DEF IdsFrom, q
  <2>8. Owing(w, l, Append(ids, x), a, l)
    <3>1. l \in l .. l + (l - a + 1) /\ ~(l > l) /\ a + (l - l) = a
        BY <1>0, <2>2, <2>3
    <3> QED BY <2>4, <2>7, <3>1, Zenon DEF Owing
  <2>9. Debt(w, l, Append(ids, x))
      BY <1>0, <2>8, Zenon DEF Debt
  <2> QED BY <1>1, <1>2, <1>3, <2>9 DEF l, x
<1> QED BY <1>4, <1>5

(* Nothing is owed before or after any other piece.                          *)
LEMMA DebtNone ==
  ASSUME NEW w \in Wires, Behaved(w), NEW n \in 0 .. Len(w), n # Len(w), NEW ids, Debt(w, n, ids),
         ~IsCall(w[n + 1]), ~IsResult(w[n + 1])
  PROVE  ids = <<>> /\ Debt(w, n + 1, <<>>)
<1>1. ids = <<>>
    BY DebtPaid, Zenon
<1> QED BY <1>1, Zenon DEF Debt

-------------------------------------------------------------------------------
(* Histories that owe results                                                *)

(* The results still to come, and a history that would be paired with them.  *)
Stubs(ids) == [k \in DOMAIN ids |-> Stub(ids[k])]
Owes(ms, ids) == ms \in Seq(Msg) /\ ids \in Seq(Word) /\ Paired(ms \o Stubs(ids))

(* One stub for each id.                                                     *)
LEMMA StubsFacts ==
  ASSUME NEW ids \in Seq(Word)
  PROVE  /\ Stubs(ids) \in Seq(Msg) /\ Len(Stubs(ids)) = Len(ids) /\ Len(ids) \in Nat
         /\ \A k \in 1 .. Len(ids) : /\ Stubs(ids)[k].role = "tool" /\ Stubs(ids)[k].for = ids[k]
                                     /\ Stubs(ids)[k].calls = <<>>
<1> DEFINE n == Len(ids)
           f == Stubs(ids)
<1>1. n \in Nat /\ DOMAIN ids = 1 .. n /\ \A k \in 1 .. n : ids[k] \in Word
    BY SeqFacts, Zenon
<1> HIDE DEF n
<1>2. \A k \in 1 .. n : Stub(ids[k]) \in Msg /\ Stub(ids[k]).role = "tool" /\ Stub(ids[k]).calls = <<>> /\ Stub(ids[k]).for = ids[k]
    BY <1>1, StubFacts, Zenon
<1>3. f = [k \in 1 .. n |-> Stub(ids[k])]
    BY <1>1, Zenon DEF Stubs
<1> HIDE DEF f
<1>4. f \in [1 .. n -> Msg] /\ \A k \in 1 .. n : f[k] = Stub(ids[k])
    BY <1>2, <1>3, Zenon
<1>5. f \in Seq(Msg) /\ Len(f) = n
    BY <1>1, <1>4, FunSeq, Zenon
<1> QED BY <1>1, <1>2, <1>4, <1>5, Zenon DEF n, f

(* Who owes nothing is paired.                                               *)
LEMMA OwesNothing ==
  ASSUME NEW ms
  PROVE  Owes(ms, <<>>) <=> ms \in Seq(Msg) /\ Paired(ms)
<1>1. Stubs(<<>>) = <<>>
  <2>1. DOMAIN <<>> = {}
      OBVIOUS
  <2>2. Stubs(<<>>) = [k \in {} |-> Stub(<<>>[k])]
      BY <2>1, Zenon DEF Stubs
  <2> QED BY <2>2
<1>2. <<>> \in Seq(Word)
    OBVIOUS
<1>3. ms \in Seq(Msg) => ms \o <<>> = ms
    BY ConcatEmptySeq
<1> QED BY <1>1, <1>2, <1>3, Zenon DEF Owes

(* The ids of the calls of a message.                                        *)
MsgIds(m) == [k \in DOMAIN m.calls |-> m.calls[k].id]

(* One id for each call.                                                     *)
LEMMA MsgIdsFacts ==
  ASSUME NEW m \in Msg
  PROVE  /\ MsgIds(m) \in Seq(Word) /\ Len(MsgIds(m)) = Len(m.calls)
         /\ \A k \in 1 .. Len(m.calls) : MsgIds(m)[k] = m.calls[k].id
<1> DEFINE n == Len(m.calls)
           f == MsgIds(m)
<1>1. n \in Nat /\ DOMAIN m.calls = 1 .. n /\ \A k \in 1 .. n : m.calls[k].id \in Word
    BY MsgFacts, Zenon
<1> HIDE DEF n
<1>2. f = [k \in 1 .. n |-> m.calls[k].id]
    BY <1>1, Zenon DEF MsgIds
<1> HIDE DEF f
<1>3. f \in [1 .. n -> Word] /\ \A k \in 1 .. n : f[k] = m.calls[k].id
    BY <1>1, <1>2, Zenon
<1>4. f \in Seq(Word) /\ Len(f) = n
    BY <1>1, <1>3, FunSeq, Zenon
<1> QED BY <1>3, <1>4 DEF f, n

(* Behind a paired history, a message owes the results of its calls.         *)
LEMMA OwesCalls ==
  ASSUME NEW ms, Owes(ms, <<>>), NEW m \in Msg, m.role # "tool"
  PROVE  Owes(Append(ms, m), MsgIds(m))
<1> DEFINE ids == MsgIds(m)
           s == Stubs(ids)
<1>1. ms \in Seq(Msg) /\ Paired(ms)
    BY OwesNothing, Zenon
<1>2. ids \in Seq(Word) /\ Len(ids) = Len(m.calls) /\ \A k \in 1 .. Len(m.calls) : ids[k] = m.calls[k].id
    BY MsgIdsFacts
<1> HIDE DEF ids
<1>3. /\ s \in Seq(Msg) /\ Len(s) = Len(ids)
      /\ \A k \in 1 .. Len(ids) : s[k].role = "tool" /\ s[k].for = ids[k]
    BY <1>2, StubsFacts, Zenon
<1> HIDE DEF s
<1>4. Match(s, m.calls)
    BY <1>2, <1>3, Zenon DEF Match
<1>5. << m >> \o s \in Seq(Msg) /\ Paired(<< m >> \o s)
    BY <1>3, <1>4, PairedHead, Zenon
<1>6. Paired(ms \o (<< m >> \o s))
    BY <1>1, <1>5, PairedConcat, MsgFacts, Zenon
<1> DEFINE S == Msg
<1>7. ms \in Seq(S) /\ s \in Seq(S) /\ m \in S
    BY <1>1, <1>3
<1> HIDE DEF S
<1>8. Append(ms, m) = ms \o << m >> /\ << m >> \in Seq(S) /\ Append(ms, m) \in Seq(S)
    BY <1>7
<1>9. (ms \o << m >>) \o s = ms \o (<< m >> \o s)
    BY <1>7, <1>8, ConcatAssociative
<1>10. Paired(Append(ms, m) \o s)
    BY <1>6, <1>8, <1>9
<1> QED BY <1>2, <1>8, <1>10, Zenon DEF Owes, S, s, ids

(* The first result that is owed pays it.                                    *)
LEMMA OwesLess ==
  ASSUME NEW ms, NEW ids, Owes(ms, ids), ids # <<>>, NEW m \in Msg, m.role = "tool", m.for = ids[1]
  PROVE  Owes(Append(ms, m), Tail(ids))
<1> DEFINE S == Msg
           n == Len(ms)
           s == Stubs(ids)
           t == Stubs(Tail(ids))
           a == ms \o s
           c == Append(ms, m)
           b == c \o t
<1>1. ms \in Seq(S) /\ ids \in Seq(Word) /\ Paired(a) /\ m \in S
    BY Zenon DEF Owes
<1> HIDE DEF Word
<1>2. /\ Tail(ids) \in Seq(Word) /\ Len(Tail(ids)) = Len(ids) - 1 /\ Len(ids) \in Nat /\ Len(ids) # 0
      /\ \A k \in 1 .. Len(Tail(ids)) : Tail(ids)[k] = ids[k + 1]
    BY <1>1, HeadTailProperties
<1>3. /\ s \in Seq(S) /\ Len(s) = Len(ids)
      /\ \A k \in 1 .. Len(ids) : s[k].role = "tool" /\ s[k].for = ids[k] /\ s[k].calls = <<>>
    BY <1>1, StubsFacts, Zenon
<1> DEFINE d == Tail(ids)
<1>4. /\ t \in Seq(S) /\ Len(t) = Len(d)
      /\ \A k \in 1 .. Len(d) : t[k].role = "tool" /\ t[k].for = d[k] /\ t[k].calls = <<>>
    BY <1>2, StubsFacts, Zenon
<1>5. m.calls = <<>>
  <2>1. "tool" # "assistant"
      OBVIOUS
  <2> QED BY <2>1, MsgFacts, Zenon
<1> DEFINE q == Len(ids)
<1> HIDE DEF S, s, t, d
<1>6. c \in Seq(S) /\ Len(c) = n + 1 /\ c[n + 1] = m /\ n \in Nat /\ \A k \in 1 .. n : c[k] = ms[k]
    BY <1>1
<1>7. /\ a \in Seq(S) /\ Len(a) = n + q /\ (\A k \in 1 .. n : a[k] = ms[k]) /\ \A k \in 1 .. q : a[n + k] = s[k]
  <2>1. /\ a \in Seq(S) /\ Len(a) = Len(ms) + Len(s)
        /\ (\A k \in 1 .. Len(ms) : a[k] = ms[k]) /\ \A k \in 1 .. Len(s) : a[Len(ms) + k] = s[k]
    <3>1. ms \in Seq(S) /\ s \in Seq(S)
        BY <1>1, <1>3
    <3> HIDE DEF n, a
    <3> QED BY <3>1, ConcatFacts DEF a
  <2> QED BY <1>3, <2>1
<1> HIDE DEF c
<1>8. /\ b \in Seq(S) /\ Len(b) = n + q /\ (\A k \in 1 .. n + 1 : b[k] = c[k])
      /\ \A k \in 1 .. q - 1 : b[(n + 1) + k] = t[k]
  <2>1. /\ b \in Seq(S) /\ Len(b) = Len(c) + Len(t)
        /\ (\A k \in 1 .. Len(c) : b[k] = c[k]) /\ \A k \in 1 .. Len(t) : b[Len(c) + k] = t[k]
    <3>1. c \in Seq(S) /\ t \in Seq(S)
        BY <1>4, <1>6
    <3> HIDE DEF n, b
    <3> QED BY <3>1, ConcatFacts DEF b
  <2>2. Len(t) = q - 1
      BY <1>2, <1>4 DEF d
  <2> HIDE DEF q, b, n
  <2> QED BY <1>2, <1>6, <2>1, <2>2 DEF q
<1> HIDE DEF q, b, a
<1>9. q \in Nat /\ q # 0 /\ n \in Nat /\ Len(d) = q - 1 /\ \A k \in 1 .. q - 1 : d[k] = ids[k + 1]
    BY <1>2, <1>6 DEF q, d
<1> HIDE DEF n
<1>10. ASSUME NEW i \in 1 .. n + q
       PROVE  a[i].role = b[i].role /\ a[i].calls = b[i].calls /\ a[i].for = b[i].for
  <2>1. CASE i \in 1 .. n
    <3>1. i \in 1 .. n + 1
        BY <1>9, <2>1
    <3> QED BY <1>6, <1>7, <1>8, <2>1, <3>1, Zenon
  <2>2. CASE i = n + 1
    <3>1. i \in 1 .. n + 1 /\ 1 \in 1 .. q
        BY <1>9, <2>2
    <3>2. b[i] = m
        BY <1>6, <1>8, <2>2, <3>1, Zenon
    <3>3. a[i] = s[1] /\ s[1].role = "tool" /\ s[1].for = ids[1] /\ s[1].calls = <<>>
        BY <1>3, <1>7, <2>2, <3>1, Zenon DEF q
    <3> QED BY <1>5, <3>2, <3>3
  <2>3. CASE i > n + 1
    <3> DEFINE k == i - n - 1
               l == k + 1
    <3>1. k \in 1 .. q - 1 /\ l \in 1 .. q /\ i = (n + 1) + k /\ i = n + l /\ l = k + 1
        BY <1>9, <2>3
    <3> HIDE DEF k, l
    <3>2. b[i] = t[k] /\ a[i] = s[l]
        BY <1>7, <1>8, <3>1, Zenon
    <3>3. t[k].role = "tool" /\ t[k].for = ids[l] /\ t[k].calls = <<>>
        BY <1>4, <1>9, <3>1
    <3>4. s[l].role = "tool" /\ s[l].for = ids[l] /\ s[l].calls = <<>>
        BY <1>3, <3>1, Zenon DEF q
    <3> QED BY <3>2, <3>3, <3>4
  <2> QED BY <1>9, <2>1, <2>2, <2>3
<1>11. DOMAIN a = 1 .. n + q /\ DOMAIN b = 1 .. n + q /\ n + q \in Nat
    BY <1>7, <1>8, <1>9
<1>12. SameTraffic(a, b)
    BY <1>10, <1>11, Zenon DEF SameTraffic
<1>13. Paired(b)
    BY <1>1, <1>11, <1>12, TrafficPaired
<1> QED BY <1>2, <1>6, <1>13, Zenon DEF Owes, b, c, S, t

(* What a result piece is read as.                                           *)
LEMMA ResultFields ==
  ASSUME NEW proto, NEW w \in Wires, Len(w) <= MaxPieces, NEW i \in 1 .. Len(w), IsResult(w[i])
  PROVE  /\ ResultOf(proto, w, i) \in Msg /\ ResultOf(proto, w, i).role = "tool"
         /\ ResultOf(proto, w, i).for = IdOf(proto, Results[w[i].k], i)
         /\ ResultOf(proto, w, i).text = (IF w[i].k = "void1" THEN <<>> ELSE << i >>)
<1> DEFINE r == Message("tool")
           id == IdOf(proto, Results[w[i].k], i)
           u == IF w[i].k = "void1" THEN <<>> ELSE << i >>
<1>1. r \in MsgType /\ r.role = "tool"
  <2>1. "tool" \in {"user", "assistant", "tool", "system"}
      OBVIOUS
  <2> QED BY <2>1, MessageFacts, Zenon DEF Msg
<1>2. ResultOf(proto, w, i) = [r EXCEPT !.for = id, !.text = u]
    BY Zenon DEF ResultOf
<1>3. ResultOf(proto, w, i) \in Msg
    BY ResultFacts, Zenon
<1> HIDE DEF r, id, u
<1>4. /\ [r EXCEPT !.for = id, !.text = u].role = r.role
      /\ [r EXCEPT !.for = id, !.text = u].for = id
      /\ [r EXCEPT !.for = id, !.text = u].text = u
    BY <1>1 DEF MsgType
<1> DEFINE z == ResultOf(proto, w, i)
<1>5. z.role = "tool" /\ z.for = id /\ z.text = u
  <2> DEFINE y == [r EXCEPT !.for = id, !.text = u]
  <2>1. y.role = r.role /\ y.for = id /\ y.text = u
      BY <1>4
  <2>2. z = y
      BY <1>2
  <2> HIDE DEF y, z
  <2> QED BY <1>1, <2>1, <2>2, Zenon
<1> QED BY <1>3, <1>5, Zenon DEF u, id

(* Calls and results of a conversation whose calls are answered at once have *)
(* the ids they were sent with.                                              *)
LEMMA GivenIds ==
  ASSUME NEW proto, NEW w \in Wires, Len(w) <= MaxPieces, Behaved(w), NEW i \in 1 .. Len(w)
  PROVE  /\ IsCall(w[i]) => CallOf(proto, w, i).id = Calls[w[i].k].id /\ Calls[w[i].k].name # ""
         /\ IsResult(w[i]) => ResultOf(proto, w, i).for = Results[w[i].k]
<1>1. w[i].k \notin {"nameless", "noid", "stray"}
    BY DEF Behaved
<1>2. ASSUME IsCall(w[i]) PROVE CallOf(proto, w, i).id = Calls[w[i].k].id /\ Calls[w[i].k].name # ""
  <2>1. w[i].k = "call1" \/ w[i].k = "call2"
      BY <1>1, <1>2 DEF IsCall, Calls
  <2> DEFINE k == w[i].k
             c == Calls[k]
             d == IdOf(proto, c.id, i)
  <2>2. c.id # "" /\ c.name # ""
    <3>1. Calls["call1"].id # "" /\ Calls["call2"].id # "" /\ Calls["call1"].name # "" /\ Calls["call2"].name # ""
        BY DEF Calls
    <3> HIDE DEF k
    <3> QED BY <2>1, <3>1, Zenon DEF k
  <2>3. d = c.id
      BY <2>2, Zenon DEF IdOf
  <2>4. CallOf(proto, w, i) = [c EXCEPT !.id = d]
      BY Zenon DEF CallOf
  <2>5. c \in CallType
    <3>1. "c1" \in Word /\ "c2" \in Word /\ "Grep" \in Word /\ "Edit" \in Word
        BY DEF Word
    <3>2. \A x, y \in Word : [id |-> x, name |-> y] \in CallType
        BY DEF CallType
    <3>3. Calls["call1"] = [id |-> "c1", name |-> "Grep"] /\ Calls["call2"] = [id |-> "c2", name |-> "Edit"]
        BY DEF Calls
    <3> HIDE DEF k
    <3> QED BY <2>1, <3>1, <3>2, <3>3, Zenon DEF k
  <2> HIDE DEF c, d
  <2>6. [c EXCEPT !.id = d].id = d
      BY <2>5 DEF CallType
  <2>7. CallOf(proto, w, i).id = c.id
      BY <2>3, <2>4, <2>6
  <2> QED BY <2>2, <2>7, Zenon DEF c, k
<1>3. ASSUME IsResult(w[i]) PROVE ResultOf(proto, w, i).for = Results[w[i].k]
  <2>1. w[i].k = "res1" \/ w[i].k = "res2" \/ w[i].k = "void1"
      BY <1>1, <1>3 DEF IsResult, Results
  <2> DEFINE k == w[i].k
  <2>2. Results[k] # ""
    <3>1. Results["res1"] # "" /\ Results["res2"] # "" /\ Results["void1"] # ""
        BY DEF Results
    <3> HIDE DEF k
    <3> QED BY <2>1, <3>1, Zenon DEF k
  <2>3. IdOf(proto, Results[k], i) = Results[k]
      BY <2>2, Zenon DEF IdOf
  <2> QED BY <1>3, <2>3, ResultFields, Zenon
<1> QED BY <1>2, <1>3, Zenon

-------------------------------------------------------------------------------
(* What a function gives for the members of a sequence                       *)

(* The function G gives a sequence for each member of S.                      *)
Gives(G, S, T) == G \in [S -> Seq(T)]

(* What the function G gives for each member of s, joined.                   *)
Draws(G, s) == [i \in DOMAIN s |-> G[s[i]]]
Drawn(G, s) == FlattenSeq(Draws(G, s))

(* One sequence of members of T for each member of s.                        *)
DrawsOf(G, s, T) ==
  /\ Draws(G, s) \in Seq(Seq(T)) /\ Len(Draws(G, s)) = Len(s) /\ Drawn(G, s) \in Seq(T)
  /\ \A i \in 1 .. Len(s) : Draws(G, s)[i] = G[s[i]]

(* They are given one by one.                                                *)
LEMMA DrawsIn ==
  ASSUME NEW S, NEW T, NEW G, Gives(G, S, T), NEW s \in Seq(S)
  PROVE  DrawsOf(G, s, T)
<1> DEFINE n == Len(s)
           f == Draws(G, s)
           Q == Seq(T)
<1>1. n \in Nat /\ DOMAIN s = 1 .. n /\ \A i \in 1 .. n : s[i] \in S
    BY SeqFacts, Zenon
<1> HIDE DEF n, Q
<1>2. \A i \in 1 .. n : G[s[i]] \in Q
    BY <1>1, Zenon DEF Q, Gives
<1>3. f = [i \in 1 .. n |-> G[s[i]]]
    BY <1>1, Zenon DEF Draws
<1> HIDE DEF f
<1>4. f \in [1 .. n -> Q] /\ \A i \in 1 .. n : f[i] = G[s[i]]
    BY <1>2, <1>3, Zenon
<1>5. f \in Seq(Q) /\ Len(f) = n
    BY <1>1, <1>4, FunSeq, Zenon
<1>6. FlattenSeq(f) \in Seq(T)
    BY <1>5, FlatIn, Zenon DEF Q
<1> QED BY <1>4, <1>5, <1>6, Zenon DEF f, n, Q, Drawn, DrawsOf

(* It goes member by member.                                                 *)
LEMMA DrawnConcat ==
  ASSUME NEW S, NEW T, NEW G, Gives(G, S, T), NEW s \in Seq(S), NEW t \in Seq(S)
  PROVE  Drawn(G, s \o t) = Drawn(G, s) \o Drawn(G, t)
<1> DEFINE Q == Seq(T)
           m == Len(s)
           n == Len(t)
           c == s \o t
           f == Draws(G, s)
           g == Draws(G, t)
           h == Draws(G, c)
           e == f \o g
<1>1. /\ c \in Seq(S) /\ m \in Nat /\ n \in Nat /\ Len(c) = m + n
      /\ \A i \in 1 .. m : c[i] = s[i]
      /\ \A i \in 1 .. n : c[m + i] = t[i]
    BY ConcatFacts
<1> HIDE DEF c
<1>2. f \in Seq(Q) /\ Len(f) = m /\ \A i \in 1 .. m : f[i] = G[s[i]]
  <2>1. DrawsOf(G, s, T)
      BY DrawsIn, Zenon
  <2> QED BY <2>1, Zenon DEF DrawsOf
<1>3. g \in Seq(Q) /\ Len(g) = n /\ \A i \in 1 .. n : g[i] = G[t[i]]
  <2>1. DrawsOf(G, t, T)
      BY DrawsIn, Zenon
  <2> QED BY <2>1, Zenon DEF DrawsOf
<1>4. h \in Seq(Q) /\ Len(h) = Len(c) /\ \A i \in 1 .. Len(c) : h[i] = G[c[i]]
  <2>1. DrawsOf(G, c, T)
      BY <1>1, DrawsIn, Zenon
  <2> QED BY <2>1, Zenon DEF DrawsOf
<1> HIDE DEF f, g, h, Q
<1>5. /\ e \in Seq(Q) /\ Len(e) = Len(f) + Len(g)
      /\ \A i \in 1 .. Len(f) : e[i] = f[i]
      /\ \A i \in 1 .. Len(g) : e[Len(f) + i] = g[i]
  <2>1. f \in Seq(Q) /\ g \in Seq(Q)
      BY <1>2, <1>3, Zenon
  <2> QED BY <2>1, ConcatFacts DEF e
<1> HIDE DEF e, m, n
<1>6. ASSUME NEW i \in 1 .. m + n PROVE h[i] = e[i]
  <2>0. i \in 1 .. Len(c)
      BY <1>1
  <2>1. CASE i \in 1 .. m
    <3>1. h[i] = G[c[i]] /\ c[i] = s[i] /\ f[i] = G[s[i]]
        BY <1>1, <1>2, <1>4, <2>0, <2>1, Zenon
    <3>2. e[i] = f[i]
        BY <1>2, <1>5, <2>1, Zenon
    <3> QED BY <3>1, <3>2, Zenon
  <2>2. CASE \E j \in 1 .. n : i = m + j
    <3>1. PICK j \in 1 .. n : i = m + j
        BY <2>2
    <3>2. h[i] = G[c[i]] /\ c[i] = t[j] /\ g[j] = G[t[j]]
        BY <1>1, <1>3, <1>4, <2>0, <3>1, Zenon
    <3>3. e[i] = g[j]
        BY <1>2, <1>3, <1>5, <3>1, Zenon
    <3> QED BY <3>2, <3>3, Zenon
  <2> QED BY <1>1, <2>1, <2>2, SplitIndex
<1>7. h = e
  <2>1. Len(h) = m + n /\ Len(e) = m + n
      BY <1>1, <1>2, <1>3, <1>4, <1>5
  <2> QED BY <1>4, <1>5, <1>6, <2>1, SeqEqual
<1>8. FlattenSeq(e) = FlattenSeq(f) \o FlattenSeq(g)
    BY <1>2, <1>3, FlatConcat, Zenon DEF e, Q
<1> QED BY <1>7, <1>8, Zenon DEF Drawn, c, f, g, h

(* What is joined for one member, for none, and for one more.                *)
LEMMA DrawnOne ==
  ASSUME NEW S, NEW T, NEW G, Gives(G, S, T), NEW x \in S
  PROVE  Drawn(G, << x >>) = G[x]
<1> DEFINE s == << x >>
           f == Draws(G, s)
<1>1. s \in Seq(S) /\ Len(s) = 1 /\ s[1] = x /\ 1 \in 1 .. 1
    OBVIOUS
<1> HIDE DEF s
<1>2. f \in Seq(Seq(T)) /\ Len(f) = 1 /\ f[1] = G[x]
  <2>1. DrawsOf(G, s, T)
      BY <1>1, DrawsIn, Zenon
  <2> QED BY <1>1, <2>1, Zenon DEF DrawsOf
<1> HIDE DEF f
<1>3. f = << G[x] >>
    BY <1>2
<1>4. G[x] \in Seq(T)
    BY DEF Gives
<1> QED BY <1>3, <1>4, FlatOne, Zenon DEF Drawn, f, s

LEMMA DrawnEmpty ==
  ASSUME NEW G
  PROVE  Drawn(G, <<>>) = <<>>
<1>1. DOMAIN <<>> = {}
    OBVIOUS
<1>2. Draws(G, <<>>) = [i \in {} |-> G[<<>>[i]]]
    BY <1>1, Zenon DEF Draws
<1>3. Draws(G, <<>>) = <<>>
    BY <1>2
<1> QED BY <1>3, FlatEmpty, Zenon DEF Drawn

LEMMA DrawnAppend ==
  ASSUME NEW S, NEW T, NEW G, Gives(G, S, T), NEW s \in Seq(S), NEW x \in S
  PROVE  Drawn(G, Append(s, x)) = Drawn(G, s) \o G[x]
<1> DEFINE y == << x >>
<1>1. Append(s, x) = s \o y /\ y \in Seq(S)
    OBVIOUS
<1>2. Drawn(G, y) = G[x]
    BY DrawnOne, Zenon
<1> HIDE DEF y
<1>3. Drawn(G, s \o y) = Drawn(G, s) \o Drawn(G, y)
    BY <1>1, DrawnConcat
<1> QED BY <1>1, <1>2, <1>3, Zenon

(* The function G of every member of s.                                      *)
Applies(G, S, T) == G \in [S -> T]
Mapped(G, s) == [k \in DOMAIN s |-> G[s[k]]]

(* One member for each, for none, and for one more.                          *)
LEMMA MappedFacts ==
  ASSUME NEW S, NEW T, NEW G, Applies(G, S, T), NEW s \in Seq(S)
  PROVE  /\ Mapped(G, s) \in Seq(T) /\ Len(Mapped(G, s)) = Len(s) /\ Len(s) \in Nat
         /\ \A k \in 1 .. Len(s) : Mapped(G, s)[k] = G[s[k]]
<1> DEFINE n == Len(s)
           f == Mapped(G, s)
<1>1. n \in Nat /\ DOMAIN s = 1 .. n /\ \A i \in 1 .. n : s[i] \in S
    BY SeqFacts, Zenon
<1> HIDE DEF n
<1>2. \A i \in 1 .. n : G[s[i]] \in T
    BY <1>1, Zenon DEF Applies
<1>3. f = [i \in 1 .. n |-> G[s[i]]]
    BY <1>1, Zenon DEF Mapped
<1> HIDE DEF f
<1>4. f \in [1 .. n -> T] /\ \A i \in 1 .. n : f[i] = G[s[i]]
    BY <1>2, <1>3, Zenon
<1>5. f \in Seq(T) /\ Len(f) = n
    BY <1>1, <1>4, FunSeq, Zenon
<1> QED BY <1>1, <1>4, <1>5, Zenon DEF f, n

LEMMA MappedEmpty == \A G : Mapped(G, <<>>) = <<>>
<1>1. TAKE G
<1>2. DOMAIN <<>> = {}
    OBVIOUS
<1>3. Mapped(G, <<>>) = [i \in {} |-> G[<<>>[i]]]
    BY <1>2, Zenon DEF Mapped
<1> QED BY <1>3

LEMMA MappedAppend ==
  ASSUME NEW S, NEW T, NEW G, Applies(G, S, T), NEW s \in Seq(S), NEW x \in S
  PROVE  Mapped(G, Append(s, x)) = Append(Mapped(G, s), G[x])
<1> DEFINE t == Append(s, x)
           f == Mapped(G, s)
           h == Mapped(G, t)
           n == Len(s)
           e == Append(f, G[x])
<1>1. t \in Seq(S) /\ Len(t) = n + 1 /\ n \in Nat /\ t[n + 1] = x /\ \A i \in 1 .. n : t[i] = s[i]
    BY AppendProperties
<1> HIDE DEF t, n
<1>2. f \in Seq(T) /\ Len(f) = n /\ \A k \in 1 .. n : f[k] = G[s[k]]
  <2>1. /\ Mapped(G, s) \in Seq(T) /\ Len(Mapped(G, s)) = Len(s)
        /\ \A k \in 1 .. Len(s) : Mapped(G, s)[k] = G[s[k]]
      BY MappedFacts
  <2> QED BY <2>1 DEF n
<1>3. h \in Seq(T) /\ Len(h) = n + 1 /\ \A k \in 1 .. n + 1 : h[k] = G[t[k]]
  <2>1. /\ Mapped(G, t) \in Seq(T) /\ Len(Mapped(G, t)) = Len(t)
        /\ \A k \in 1 .. Len(t) : Mapped(G, t)[k] = G[t[k]]
      BY <1>1, MappedFacts
  <2> QED BY <1>1, <2>1
<1> HIDE DEF f, h
<1>4. G[x] \in T
    BY Zenon DEF Applies
<1>5. e \in Seq(T) /\ Len(e) = n + 1 /\ e[n + 1] = G[x] /\ \A i \in 1 .. n : e[i] = f[i]
    BY <1>1, <1>2, <1>4, AppendProperties
<1> HIDE DEF e
<1>6. ASSUME NEW k \in 1 .. n + 1 PROVE h[k] = e[k]
  <2>1. k \in 1 .. n \/ k = n + 1
      BY <1>1
  <2>2. CASE k \in 1 .. n
    <3>1. h[k] = G[s[k]]
        BY <1>1, <1>3, <2>2, Zenon
    <3> QED BY <1>2, <1>5, <2>2, <3>1, Zenon
  <2>3. CASE k = n + 1
    <3>1. h[k] = G[x]
        BY <1>1, <1>3, <2>3, Zenon
    <3> QED BY <1>5, <2>3, <3>1, Zenon
  <2> QED BY <2>1, <2>2, <2>3
<1>7. h = e
    BY <1>3, <1>5, <1>6, SeqEqual
<1> QED BY <1>7, Zenon DEF h, e, f, t

(* The members of s that are in Q.                                           *)
Keep(s, Q) == Those(s, {k \in DOMAIN s : s[k] \in Q})
KeepOne(Q) == [x \in Int |-> IF x \in Q THEN << x >> ELSE <<>>]

(* Keeping members is joining one or none for each, so that a join is kept   *)
(* part by part.                                                             *)
LEMMA KeepIs ==
  ASSUME NEW Q, NEW s \in Seq(Int)
  PROVE  Gives(KeepOne(Q), Int, Q) /\ Keep(s, Q) = Drawn(KeepOne(Q), s) /\ Keep(s, Q) \in Seq(Q)
<1> DEFINE K == {k \in DOMAIN s : s[k] \in Q}
           G == KeepOne(Q)
<1>1. (\A x \in Q : << x >> \in Seq(Q)) /\ <<>> \in Seq(Q)
    OBVIOUS
<1>2. Gives(G, Int, Q)
    BY <1>1, Zenon DEF KeepOne, Gives
<1>3. DOMAIN s = 1 .. Len(s) /\ \A i \in 1 .. Len(s) : s[i] \in Int
    BY SeqFacts, Zenon
<1>4. \A i \in DOMAIN s : G[s[i]] = IF i \in K THEN << s[i] >> ELSE <<>>
    BY <1>3, Zenon DEF KeepOne
<1> HIDE DEF K, G
<1>5. Draws(G, s) = [i \in DOMAIN s |-> IF i \in K THEN << s[i] >> ELSE <<>>]
    BY <1>4, Zenon DEF Draws
<1>6. Those(s, K) = Drawn(G, s)
    BY <1>5, Zenon DEF Drawn, Those
<1>7. Drawn(G, s) \in Seq(Q)
    BY <1>2, DrawsIn, Zenon DEF DrawsOf
<1> QED BY <1>2, <1>6, <1>7, Zenon DEF Keep, K, G

LEMMA KeepConcat ==
  ASSUME NEW Q, NEW s \in Seq(Int), NEW t \in Seq(Int)
  PROVE  Keep(s \o t, Q) = Keep(s, Q) \o Keep(t, Q)
<1>1. s \o t \in Seq(Int)
    OBVIOUS
<1>2. /\ Gives(KeepOne(Q), Int, Q)
      /\ Keep(s, Q) = Drawn(KeepOne(Q), s) /\ Keep(t, Q) = Drawn(KeepOne(Q), t)
      /\ Keep(s \o t, Q) = Drawn(KeepOne(Q), s \o t)
    BY <1>1, KeepIs, Zenon
<1> DEFINE G == KeepOne(Q)
<1> HIDE DEF G
<1>3. Gives(G, Int, Q)
    BY <1>2 DEF G
<1>4. Drawn(G, s \o t) = Drawn(G, s) \o Drawn(G, t)
    BY <1>3, DrawnConcat
<1> QED BY <1>2, <1>4, Zenon DEF G

LEMMA KeepSingle ==
  ASSUME NEW Q, NEW x \in Int
  PROVE  Keep(<<>>, Q) = <<>> /\ Keep(<< x >>, Q) = IF x \in Q THEN << x >> ELSE <<>>
<1>1. <<>> \in Seq(Int) /\ << x >> \in Seq(Int)
    OBVIOUS
<1>2. /\ Gives(KeepOne(Q), Int, Q)
      /\ Keep(<<>>, Q) = Drawn(KeepOne(Q), <<>>) /\ Keep(<< x >>, Q) = Drawn(KeepOne(Q), << x >>)
    BY <1>1, KeepIs, Zenon
<1>3. Keep(<< x >>, Q) = KeepOne(Q)[x]
    BY <1>2, DrawnOne, Zenon
<1> QED BY <1>2, <1>3, DrawnEmpty, Zenon DEF KeepOne

LEMMA KeepNone == \A Q : Keep(<<>>, Q) = <<>>
<1>1. 0 \in Int
    OBVIOUS
<1> QED BY <1>1, KeepSingle, Zenon

(* The positions a .. b, one by one.                                         *)
LEMMA PositionsFacts ==
  ASSUME NEW a \in Nat, NEW b \in Nat, a <= b + 1
  PROVE  /\ Positions(a, b) \in Seq(Int)
         /\ b < a => Positions(a, b) = <<>>
         /\ Positions(a, b + 1) = Append(Positions(a, b), b + 1)
<1> DEFINE n == b - a + 1
           p == Positions(a, b)
           q == Positions(a, b + 1)
<1>1. n \in Nat /\ (b + 1) - a + 1 = n + 1 /\ a + (n + 1) - 1 = b + 1 /\ \A k \in 1 .. n + 1 : a + k - 1 \in Int
    OBVIOUS
<1>2. p = [k \in 1 .. n |-> a + k - 1]
    BY Zenon DEF Positions
<1>3. q = [k \in 1 .. n + 1 |-> a + k - 1]
    BY <1>1, Zenon DEF Positions
<1>4. b < a => p = <<>>
  <2> SUFFICES ASSUME b < a PROVE p = <<>>
      OBVIOUS
  <2>1. 1 .. n = {}
      BY <1>1
  <2>2. p = [k \in {} |-> a + k - 1]
      BY <1>2, <2>1, Zenon
  <2> QED BY <2>2
<1> HIDE DEF p, q, n
<1>5. p \in Seq(Int) /\ Len(p) = n
    BY <1>1, <1>2
<1>6. q = Append(p, b + 1)
  <2>1. q \in Seq(Int) /\ Len(q) = n + 1
      BY <1>1, <1>3
  <2>2. Append(p, b + 1) \in Seq(Int) /\ Len(Append(p, b + 1)) = n + 1
      BY <1>5
  <2>3. ASSUME NEW k \in 1 .. n + 1 PROVE q[k] = Append(p, b + 1)[k]
    <3>1. q[k] = a + k - 1
        BY <1>3
    <3>2. CASE k \in 1 .. n
      <4>1. Append(p, b + 1)[k] = p[k]
          BY <1>5, <3>2
      <4>2. p[k] = a + k - 1
          BY <1>2, <3>2
      <4> QED BY <3>1, <4>1, <4>2
    <3>3. CASE k = n + 1
      <4>1. Append(p, b + 1)[k] = b + 1
          BY <1>5, <3>3
      <4> QED BY <1>1, <3>1, <3>3, <4>1
    <3>4. k \in 1 .. n \/ k = n + 1
        BY <1>1
    <3> QED BY <3>2, <3>3, <3>4, Zenon
  <2> QED BY <2>1, <2>2, <2>3, SeqEqual
<1> QED BY <1>4, <1>5, <1>6 DEF p, q

(* So those in Q of one position more.                                       *)
LEMMA KeepNext ==
  ASSUME NEW Q, NEW a \in Nat, NEW b \in Nat, a <= b + 1
  PROVE  /\ Keep(Positions(a, b), Q) \in Seq(Q)
         /\ Keep(Positions(a, b + 1), Q) = Keep(Positions(a, b), Q) \o (IF b + 1 \in Q THEN << b + 1 >> ELSE <<>>)
<1> DEFINE p == Positions(a, b)
           x == b + 1
<1>1. p \in Seq(Int) /\ Positions(a, x) = Append(p, x) /\ x \in Int
  <2>1. Positions(a, b) \in Seq(Int) /\ Positions(a, b + 1) = Append(Positions(a, b), b + 1)
      BY PositionsFacts, Zenon
  <2> QED BY <2>1
<1> HIDE DEF p, x
<1>2. Append(p, x) = p \o << x >> /\ << x >> \in Seq(Int)
    BY <1>1
<1>3. Keep(p \o << x >>, Q) = Keep(p, Q) \o Keep(<< x >>, Q)
    BY <1>1, <1>2, KeepConcat, Zenon
<1>4. Keep(<< x >>, Q) = IF x \in Q THEN << x >> ELSE <<>>
    BY <1>1, KeepSingle, Zenon
<1>5. Keep(p, Q) \in Seq(Q)
    BY <1>1, KeepIs, Zenon
<1>6. Keep(Positions(a, x), Q) = Keep(p, Q) \o (IF x \in Q THEN << x >> ELSE <<>>)
    BY <1>1, <1>2, <1>3, <1>4, Zenon
<1> QED BY <1>5, <1>6 DEF p, x

(* What the operators of Convert pick by piece is those in a set.            *)
LEMMA PickIsKeep ==
  ASSUME NEW a \in Nat, NEW b \in Nat, NEW K, NEW Q, \A k \in 1 .. b - a + 1 : k \in K <=> a + k - 1 \in Q
  PROVE  Those(Positions(a, b), K) = Keep(Positions(a, b), Q)
<1> DEFINE s == Positions(a, b)
           n == b - a + 1
<1>1. DOMAIN s = 1 .. n /\ \A k \in 1 .. n : s[k] = a + k - 1
    BY Zenon DEF Positions
<1> HIDE DEF s, n
<1>2. \A k \in DOMAIN s : k \in K <=> k \in {j \in DOMAIN s : s[j] \in Q}
    BY <1>1, Zenon DEF n
<1>3. [k \in DOMAIN s |-> IF k \in K THEN << s[k] >> ELSE <<>>] =
      [k \in DOMAIN s |-> IF k \in {j \in DOMAIN s : s[j] \in Q} THEN << s[k] >> ELSE <<>>]
    BY <1>2, Zenon
<1> QED BY <1>3, Zenon DEF Those, Keep, s

-------------------------------------------------------------------------------
(* Messages group by group                                                   *)

(* What holds before the first message, and after a message if before it,    *)
(* holds at the end.                                                         *)
LEMMA GroupSteps ==
  ASSUME NEW proto, NEW w \in Wires, Glued(proto, w), NEW T, 0 \in T,
         \A a \in 1 .. Len(w) : (~w[a].glue /\ a - 1 \in T) => GroupEnd(w, a) \in T
  PROVE  Len(w) \in T
<1> DEFINE N == Len(w)
           Ends(m) == m <= N /\ (m = N \/ ~w[m + 1].glue)
           I == {n \in Nat : \A m \in 0 .. n : Ends(m) => m \in T}
<1>1. N \in Nat
    BY WireFacts, Zenon
<1>2. \A a \in 1 .. N : /\ GroupEnd(w, a) \in a .. N
                        /\ \A i \in a + 1 .. GroupEnd(w, a) : w[i].glue
    BY GroupEndFacts, Zenon
<1>3. \A i \in 1 .. N : \E a \in 1 .. i : ~w[a].glue /\ i \in a .. GroupEnd(w, a)
    BY FirstPiece, Zenon
<1>4. \A a \in 1 .. N : (~w[a].glue /\ a - 1 \in T) => GroupEnd(w, a) \in T
    OBVIOUS
<1> HIDE DEF N
<1>5. 0 \in I
    OBVIOUS
<1>6. ASSUME NEW n \in Nat, n \in I PROVE n + 1 \in I
  <2> SUFFICES ASSUME NEW m \in 0 .. n + 1, Ends(m) PROVE m \in T
      OBVIOUS
  <2>1. CASE m \in 0 .. n
      BY <1>6, <2>1
  <2>2. CASE m = n + 1
    <3>1. m \in 1 .. N
        BY <1>1, <2>2
    <3>2. PICK a \in 1 .. m : ~w[a].glue /\ m \in a .. GroupEnd(w, a)
        BY <1>3, <3>1, Zenon
    <3> DEFINE e == GroupEnd(w, a)
    <3>3. a \in 1 .. N /\ e \in a .. N /\ \A i \in a + 1 .. e : w[i].glue
      <4>1. a \in 1 .. N
          BY <1>1, <3>1
      <4> QED BY <1>2, <4>1, Zenon
    <3> HIDE DEF e
    <3>4. e = m
      <4> SUFFICES ASSUME e # m PROVE FALSE
          OBVIOUS
      <4>1. m + 1 \in a + 1 .. e /\ m # N
          BY <1>1, <3>1, <3>2, <3>3 DEF e
      <4> QED BY <3>3, <4>1, Zenon
    <3>5. a - 1 \in 0 .. n /\ Ends(a - 1)
      <4>1. a - 1 \in 0 .. n /\ a - 1 <= N /\ (a - 1) + 1 = a
          BY <1>1, <2>2, <3>1, <3>3
      <4> QED BY <3>2, <4>1
    <3>6. a - 1 \in T
        BY <1>6, <3>5
    <3> QED BY <1>4, <3>2, <3>3, <3>4, <3>6, Zenon DEF e
  <2> QED BY <2>1, <2>2
<1>7. Ends(N) /\ N \in 0 .. N
    BY <1>1
<1> HIDE DEF I
<1>8. \A n \in Nat : n \in I
    BY <1>5, <1>6, SetInduction, Zenon
<1> QED BY <1>1, <1>7, <1>8, Zenon DEF I, N

(* A message adds its part at its first piece.                               *)
LEMMA GroupPre ==
  ASSUME NEW S, NEW w \in Wires, NEW p \in Seq(Seq(S)), Len(p) = Len(w),
         \A i \in 1 .. Len(w) : w[i].glue => p[i] = <<>>, NEW a \in 1 .. Len(w)
  PROVE  Pre(p, GroupEnd(w, a)) = Pre(p, a - 1) \o p[a] /\ Pre(p, a - 1) \in Seq(S) /\ p[a] \in Seq(S)
<1> DEFINE N == Len(w)
           e == GroupEnd(w, a)
           D == {d \in Nat : a + d <= e => Pre(p, a + d) = Pre(p, a)}
<1>1. N \in Nat
    BY WireFacts, Zenon
<1>2. e \in a .. N /\ \A i \in a + 1 .. e : w[i].glue
    BY GroupEndFacts, Zenon
<1>3. \A n \in 1 .. N : Pre(p, n) = Pre(p, n - 1) \o p[n]
    BY FlatNext, Zenon
<1>4. \A n \in 0 .. N : Pre(p, n) \in Seq(S)
    BY FlatIn, Zenon
<1>5. \A i \in 1 .. N : w[i].glue => p[i] = <<>>
    OBVIOUS
<1> HIDE DEF N, e
<1>6. 0 \in D
    BY <1>1 DEF N
<1>7. ASSUME NEW d \in Nat, d \in D PROVE d + 1 \in D
  <2> SUFFICES ASSUME a + (d + 1) <= e PROVE Pre(p, a + (d + 1)) = Pre(p, a)
      OBVIOUS
  <2> DEFINE j == a + d
             l == a + (d + 1)
  <2>1. j <= e /\ l \in a + 1 .. e /\ l \in 1 .. N /\ l - 1 = j /\ j \in 0 .. N
      BY <1>1, <1>2 DEF N
  <2>2. Pre(p, j) = Pre(p, a)
      BY <1>7, <2>1
  <2> HIDE DEF j, l
  <2>3. p[l] = <<>>
      BY <1>2, <1>5, <2>1, Zenon
  <2>4. Pre(p, l) = Pre(p, j) \o <<>> /\ Pre(p, j) \in Seq(S)
      BY <1>3, <1>4, <2>1, <2>3, Zenon
  <2>5. Pre(p, l) = Pre(p, a)
      BY <2>2, <2>4, ConcatEmptySeq
  <2> QED BY <2>5 DEF l
<1> HIDE DEF D
<1>8. \A d \in Nat : d \in D
    BY <1>6, <1>7, SetInduction, Zenon
<1>9. e - a \in Nat /\ a + (e - a) = e /\ a + (e - a) <= e /\ a - 1 \in 0 .. N /\ a \in 1 .. Len(p)
    BY <1>1, <1>2 DEF N
<1>10. Pre(p, e) = Pre(p, a)
    BY <1>8, <1>9 DEF D
<1>11. Pre(p, a) = Pre(p, a - 1) \o p[a]
    BY <1>3, Zenon DEF N
<1>12. p[a] \in Seq(S)
    BY <1>9, SeqFacts, Zenon
<1>13. Pre(p, a - 1) \in Seq(S)
    BY <1>4, <1>9, Zenon
<1> QED BY <1>10, <1>11, <1>12, <1>13, Zenon DEF e

(* The calls of w, and the ids they were sent with.                          *)
CallPieces(w) == {i \in 1 .. Len(w) : IsCall(w[i])}
CallId(w)     == [i \in CallPieces(w) |-> Calls[w[i].k].id]

(* Every call has an id.                                                     *)
LEMMA CallIdApplies ==
  ASSUME NEW w
  PROVE  Applies(CallId(w), CallPieces(w), Word)
<1>1. \A i \in CallPieces(w) : Calls[w[i].k].id \in Word
    BY CallIdIn, Zenon DEF CallPieces
<1> QED BY <1>1, Zenon DEF Applies, CallId

(* After pieces of one message that are no results, the results of its calls *)
(* are owed.                                                                 *)
LEMMA GroupOwes ==
  ASSUME NEW w \in Wires, Behaved(w), NEW a \in 1 .. Len(w), NEW b \in a .. Len(w),
         \A i \in a .. b : ~IsResult(w[i]), NEW ids, Debt(w, a - 1, ids),
         a > 1 => ~(IsCall(w[a - 1]) /\ IsCall(w[a]))
  PROVE  ids = <<>> /\ Debt(w, b, Mapped(CallId(w), Keep(Positions(a, b), CallPieces(w))))
<1> DEFINE N == Len(w)
           C == CallPieces(w)
           G == CallId(w)
           q(j) == Keep(Positions(a, j), C)
           D == {d \in Nat : a + d <= b => Debt(w, a + d, Mapped(G, q(a + d)))}
           h == a - 1
<1>1. N \in Nat /\ a \in Nat /\ b \in Nat /\ h \in Nat /\ h \in 0 .. N /\ h # N /\ h + 1 = a /\ a <= h + 1 /\ h < a
      /\ (a > 1 <=> h # 0) /\ b <= N /\ a <= b
  <2>1. N \in Nat
      BY WireFacts, Zenon
  <2> QED BY <2>1
<1>2. Applies(G, C, Word)
    BY CallIdApplies, Zenon
<1>3. \A n \in 0 .. N : n # N => (IsCall(w[n + 1]) <=> n + 1 \in C) /\ (n + 1 \in C => G[n + 1] = Calls[w[n + 1].k].id)
  <2> TAKE n \in 0 .. N
  <2> DEFINE l == n + 1
  <2> SUFFICES ASSUME n # N PROVE (IsCall(w[l]) <=> l \in C) /\ (l \in C => G[l] = Calls[w[l].k].id)
      OBVIOUS
  <2>1. l \in 1 .. N
      BY <1>1
  <2> HIDE DEF l
  <2> QED BY <2>1, Zenon DEF CallPieces, CallId
<1> HIDE DEF C, G
<1>4. ASSUME NEW n \in h .. b, n # b, NEW s, Debt(w, n, s), s = Mapped(G, q(n)) \/ n = h
      PROVE  /\ n + 1 \in C => /\ s \in Seq(Word) /\ Debt(w, n + 1, Append(s, G[n + 1]))
                               /\ (n = 0 \/ ~IsCall(w[n])) => s = <<>>
             /\ n + 1 \notin C => s = <<>> /\ Debt(w, n + 1, <<>>)
  <2>1. n \in 0 .. N /\ n # N /\ n + 1 \in a .. b
      BY <1>1, <1>4
  <2>2. CASE n + 1 \in C
    <3>1. IsCall(w[n + 1]) /\ G[n + 1] = Calls[w[n + 1].k].id
        BY <1>3, <2>1, <2>2, Zenon
    <3>2. s \in Seq(Word) /\ Debt(w, n + 1, Append(s, Calls[w[n + 1].k].id)) /\ ((n = 0 \/ ~IsCall(w[n])) => s = <<>>)
        BY <1>4, <2>1, <3>1, DebtMore, Zenon DEF N
    <3> QED BY <2>2, <3>1, <3>2, Zenon
  <2>3. CASE n + 1 \notin C
    <3>1. ~IsCall(w[n + 1]) /\ ~IsResult(w[n + 1])
        BY <1>3, <2>1, <2>3, Zenon
    <3>2. s = <<>> /\ Debt(w, n + 1, <<>>)
        BY <1>4, <2>1, <3>1, DebtNone, Zenon DEF N
    <3> QED BY <2>3, <3>2, Zenon
  <2> QED BY <2>2, <2>3
<1>5. ASSUME NEW n \in Nat, a <= n + 1
      PROVE  q(n) \in Seq(C) /\ q(n + 1) = q(n) \o (IF n + 1 \in C THEN << n + 1 >> ELSE <<>>)
    BY <1>1, <1>5, KeepNext, Zenon
<1>6. q(h) = <<>>
  <2>1. Positions(a, h) = <<>>
      BY <1>1, PositionsFacts, Zenon
  <2> QED BY <2>1, KeepNone, Zenon
<1>7. ids = <<>>
  <2>1. h \in h .. b /\ h # b
      BY <1>1
  <2>2. h # 0 => ~(IsCall(w[h]) /\ h + 1 \in C)
      BY <1>1, <1>3, Zenon
  <2>3. /\ (h + 1 \in C /\ (h = 0 \/ ~IsCall(w[h]))) => ids = <<>>
        /\ h + 1 \notin C => ids = <<>>
    <3>1. Debt(w, h, ids)
        OBVIOUS
    <3> HIDE DEF h
    <3>2. /\ h + 1 \in C => /\ ids \in Seq(Word) /\ Debt(w, h + 1, Append(ids, G[h + 1]))
                            /\ (h = 0 \/ ~IsCall(w[h])) => ids = <<>>
          /\ h + 1 \notin C => ids = <<>> /\ Debt(w, h + 1, <<>>)
        BY <1>4, <2>1, <3>1, Zenon
    <3> QED BY <3>2, Zenon
  <2> QED BY <2>2, <2>3, Zenon
<1>8. ASSUME NEW n \in h .. b, n # b, Debt(w, n, Mapped(G, q(n)))
      PROVE  Debt(w, n + 1, Mapped(G, q(n + 1)))
  <2> DEFINE s == Mapped(G, q(n))
             l == n + 1
             t == q(n)
  <2>0. n \in Nat /\ a <= n + 1
      BY <1>1
  <2>1. t \in Seq(C) /\ q(l) = t \o (IF l \in C THEN << l >> ELSE <<>>)
      BY <1>5, <2>0, Zenon
  <2>2. /\ l \in C => Debt(w, l, Append(s, G[l]))
        /\ l \notin C => s = <<>> /\ Debt(w, l, <<>>)
      BY <1>4, <1>8, Zenon
  <2> DEFINE u == q(l)
  <2> HIDE DEF l, t, u
  <2>3. CASE l \in C
    <3>1. u = Append(t, l)
        BY <2>1, <2>3 DEF u
    <3>2. Mapped(G, Append(t, l)) = Append(Mapped(G, t), G[l])
        BY <1>2, <2>1, <2>3, MappedAppend
    <3> QED BY <2>2, <2>3, <3>1, <3>2, Zenon DEF t, l, u
  <2>4. CASE l \notin C
    <3>1. u = t
        BY <2>1, <2>4 DEF u
    <3> QED BY <2>2, <2>4, <3>1, Zenon DEF t, l, u
  <2> QED BY <2>3, <2>4
<1> HIDE DEF q
<1>9. Debt(w, a, Mapped(G, q(a)))
  <2>1. h \in h .. b /\ h # b
      BY <1>1
  <2>2. Mapped(G, q(h)) = <<>>
      BY <1>6, MappedEmpty, Zenon
  <2> QED BY <1>1, <1>7, <1>8, <2>1, <2>2, Zenon DEF h
<1>10. 0 \in D
    BY <1>1, <1>9
<1>11. ASSUME NEW d \in Nat, d \in D PROVE d + 1 \in D
  <2> SUFFICES ASSUME a + (d + 1) <= b PROVE Debt(w, a + (d + 1), Mapped(G, q(a + (d + 1))))
      OBVIOUS
  <2> DEFINE n == a + d
  <2>1. n \in h .. b /\ n # b /\ a + (d + 1) = n + 1 /\ a + d <= b
      BY <1>1
  <2>2. Debt(w, n, Mapped(G, q(n)))
      BY <1>11, <2>1
  <2> HIDE DEF n
  <2> QED BY <1>8, <2>1, <2>2, Zenon
<1> HIDE DEF D
<1>12. \A d \in Nat : d \in D
    BY <1>10, <1>11, SetInduction, Zenon
<1>13. b - a \in Nat /\ a + (b - a) = b /\ a + (b - a) <= b
    BY <1>1
<1>14. Debt(w, b, Mapped(G, q(b)))
    BY <1>12, <1>13 DEF D
<1> QED BY <1>7, <1>14, Zenon DEF G, C, q

(* The message of the pieces a .. b calls with the ids they were sent with.  *)
LEMMA GroupedIds ==
  ASSUME NEW proto, NEW role \in Roles, NEW w \in Wires, Len(w) <= MaxPieces, Behaved(w),
         NEW a \in 1 .. Len(w), NEW b \in a .. Len(w)
  PROVE  MsgIds(Grouped(proto, role, w, a, b)) = Mapped(CallId(w), Keep(Positions(a, b), CallPieces(w)))
<1> DEFINE t == Those(Positions(a, b), {k \in 1 .. b - a + 1 : w[a + k - 1].k \in {"user", "say", "system"}})
           h == Those(Positions(a, b), {k \in 1 .. b - a + 1 : w[a + k - 1].k = "think"})
           g == \E i \in a .. b : w[i].k = "image"
           q == GroupCalls(w, a, b)
           c == MadeCalls(proto, w, q)
           r == Message(role)
           C == CallPieces(w)
           K == {k \in 1 .. b - a + 1 : IsCall(w[a + k - 1])}
           m == Grouped(proto, role, w, a, b)
<1>1. a \in Nat /\ b \in Nat /\ a <= b + 1 /\ \A k \in 1 .. b - a + 1 : a + k - 1 \in 1 .. Len(w)
  <2>1. Len(w) \in Nat
      BY WireFacts
  <2> QED BY <2>1
<1>2. m = Filled(r, t, g, h, c)
    BY Zenon DEF Grouped, Pick, Positions, Filled, MadeCalls, GroupCalls
<1>3. r \in MsgType
    BY MessageFacts, Zenon DEF Msg, Roles
<1>4. q = Keep(Positions(a, b), C)
  <2>1. \A k \in 1 .. b - a + 1 : k \in K <=> a + k - 1 \in C
      BY <1>1, Zenon DEF CallPieces
  <2> HIDE DEF K, C
  <2>2. Those(Positions(a, b), K) = Keep(Positions(a, b), C)
      BY <1>1, <2>1, PickIsKeep
  <2> QED BY <2>2, Zenon DEF K, GroupCalls
<1>5. q \in Seq(C)
  <2>1. Positions(a, b) \in Seq(Int)
      BY <1>1, PositionsFacts, Zenon
  <2> QED BY <1>4, <2>1, KeepIs, Zenon
<1> HIDE DEF t, g, h, q, c, r, m, K
<1>6. m.calls = c
  <2>1. Filled(r, t, g, h, c).calls = c
      BY <1>3, FilledFields
  <2> QED BY <1>2, <2>1, Zenon
<1>7. DOMAIN c = DOMAIN q /\ \A k \in DOMAIN q : c[k] = CallOf(proto, w, q[k])
    BY Zenon DEF c, MadeCalls
<1>8. \A k \in DOMAIN q : q[k] \in C
    BY <1>5, SeqFacts, Zenon
<1>9. \A i \in C : CallOf(proto, w, i).id = CallId(w)[i]
    BY GivenIds, Zenon DEF CallPieces, CallId
<1>10. \A k \in DOMAIN q : c[k].id = CallId(w)[q[k]]
    BY <1>7, <1>8, <1>9, Zenon
<1>11. MsgIds(m) = [k \in DOMAIN q |-> c[k].id]
    BY <1>6, <1>7, Zenon DEF MsgIds
<1>12. MsgIds(m) = Mapped(CallId(w), q)
    BY <1>10, <1>11, Zenon DEF Mapped
<1> QED BY <1>4, <1>12, Zenon DEF m, C

(* Where the pieces of the wire and the messages of the history stand: what  *)
(* is owed for the first is owed by the second.                              *)
Level(w, n, ms) == \E ids : Debt(w, n, ids) /\ Owes(ms, ids)

(* A message made of pieces without results keeps them level.                *)
LEMMA LevelGroup ==
  ASSUME NEW proto, NEW role \in Roles, NEW w \in Wires, Len(w) <= MaxPieces, Behaved(w),
         NEW a \in 1 .. Len(w), NEW b \in a .. Len(w), \A i \in a .. b : ~IsResult(w[i]),
         a > 1 => ~(IsCall(w[a - 1]) /\ IsCall(w[a])), role # "tool",
         (\E i \in a .. b : IsCall(w[i])) => role = "assistant",
         NEW ms, Level(w, a - 1, ms)
  PROVE  Level(w, b, Append(ms, Grouped(proto, role, w, a, b)))
<1> DEFINE m == Grouped(proto, role, w, a, b)
           s == Mapped(CallId(w), Keep(Positions(a, b), CallPieces(w)))
<1>1. PICK ids : Debt(w, a - 1, ids) /\ Owes(ms, ids)
    BY Zenon DEF Level
<1>2. ids = <<>> /\ Debt(w, b, s)
    BY <1>1, GroupOwes, Zenon
<1>3. MsgIds(m) = s
    BY GroupedIds, Zenon
<1>4. m \in Msg /\ m.role = role
    BY GroupedIn, Zenon
<1> HIDE DEF m, s
<1>5. Owes(Append(ms, m), MsgIds(m))
    BY <1>1, <1>2, <1>4, OwesCalls, Zenon
<1> QED BY <1>2, <1>3, <1>5, Zenon DEF Level, m

(* So does a message made of a result.                                       *)
LEMMA LevelResult ==
  ASSUME NEW proto, NEW w \in Wires, Len(w) <= MaxPieces, Behaved(w),
         NEW a \in 1 .. Len(w), IsResult(w[a]), NEW ms, Level(w, a - 1, ms)
  PROVE  Level(w, a, Append(ms, ResultOf(proto, w, a)))
<1> DEFINE m == ResultOf(proto, w, a)
           n == a - 1
<1>1. n \in 0 .. Len(w) /\ n # Len(w) /\ n + 1 = a
  <2>1. Len(w) \in Nat
      BY WireFacts
  <2> QED BY <2>1
<1>2. PICK ids : Debt(w, n, ids) /\ Owes(ms, ids)
    BY Zenon DEF Level
<1>3. m \in Msg /\ m.role = "tool"
    BY ResultFields, Zenon
<1>4. m.for = Results[w[a].k]
    BY GivenIds, Zenon
<1> HIDE DEF m, n
<1>5. ids # <<>> /\ ids[1] = Results[w[a].k] /\ Debt(w, a, Tail(ids))
    BY <1>1, <1>2, DebtLess, Zenon
<1>6. Owes(Append(ms, m), Tail(ids))
    BY <1>2, <1>3, <1>4, <1>5, OwesLess, Zenon
<1> QED BY <1>5, <1>6, Zenon DEF Level, m

(* At the beginning they are level; at the end the history is paired.        *)
LEMMA LevelBegins ==
  ASSUME NEW w
  PROVE  Level(w, 0, <<>>)
<1>1. <<>> \in Seq(Msg) /\ DOMAIN <<>> = {}
    OBVIOUS
<1>2. Paired(<<>>)
    BY <1>1, Zenon DEF Paired
<1>3. Owes(<<>>, <<>>)
    BY <1>1, <1>2, OwesNothing, Zenon
<1>4. Debt(w, 0, <<>>)
    BY Zenon DEF Debt
<1> QED BY <1>3, <1>4, Zenon DEF Level

(* At the end nothing is owed: the history is paired.                        *)
LEMMA LevelEnds ==
  ASSUME NEW w \in Wires, Behaved(w), NEW ms, Level(w, Len(w), ms)
  PROVE  ms \in Seq(Msg) /\ Paired(ms)
<1> DEFINE n == Len(w)
<1>1. n \in 0 .. Len(w)
  <2>1. Len(w) \in Nat
      BY WireFacts
  <2> QED BY <2>1
<1>2. PICK ids : Debt(w, n, ids) /\ Owes(ms, ids)
    BY Zenon DEF Level
<1>3. ids = <<>>
  <2>1. n = Len(w)
      OBVIOUS
  <2> HIDE DEF n
  <2> QED BY <1>1, <1>2, <2>1, DebtPaid, Zenon
<1> QED BY <1>2, <1>3, OwesNothing, Zenon

(* The call of another message does not follow a call directly.              *)
LEMMA Apart ==
  ASSUME NEW proto, proto # "responses", NEW w \in Wires, Answered(proto, w), NEW a \in 1 .. Len(w), ~w[a].glue
  PROVE  Behaved(w) /\ (a > 1 => ~(IsCall(w[a - 1]) /\ IsCall(w[a])))
<1>1. /\ Behaved(w)
      /\ proto # "responses" => \A i \in 1 .. Len(w) : (IsCall(w[i]) /\ i > 1 /\ IsCall(w[i - 1])) => w[i].glue
    BY AnsweredFacts
<1>2. \A i \in 1 .. Len(w) : (IsCall(w[i]) /\ i > 1 /\ IsCall(w[i - 1])) => w[i].glue
    BY <1>1
<1> QED BY <1>1, <1>2, Zenon

(* Which pieces of a Chat request are results.                               *)
LEMMA ToolSide ==
  ASSUME NEW a, a.k \in Kinds
  PROVE  (Side("chat", a) = "tool" <=> IsResult(a)) /\ (Side("anthropic", a) # "tool")
<1>1. "chat" \in Protos /\ "anthropic" \in Protos
    BY DEF Protos
<1>2. IsResult(a) <=> a.k \in {"res1", "res2", "void1", "stray"}
    BY DEF IsResult, Results
<1>3. IsCall(a) <=> a.k \in {"call1", "call2", "nameless", "noid"}
    BY DEF IsCall, Calls
<1>4. CASE IsResult(a)
    BY <1>2, <1>3, <1>4 DEF Side
<1>5. CASE ~IsResult(a)
    BY <1>1, <1>5, SideFacts, Zenon
<1> QED BY <1>4, <1>5

(* The history read from a Chat request is paired.                           *)
LEMMA ChatStays ==
  ASSUME NEW w, Request("chat", w), Answered("chat", w)
  PROVE  Paired(ParseChat(w))
<1> DEFINE proto == "chat"
           p == ChatParts(w)
           T == {n \in 0 .. Len(w) : Level(w, n, Pre(p, n))}
<1>1. proto \in Protos /\ w \in Wires /\ Len(w) <= MaxPieces /\ Glued(proto, w) /\ proto # "responses"
    BY DEF Request
<1>2. Behaved(w)
    BY <1>1, AnsweredFacts, Zenon
<1>3. Len(w) \in Nat /\ DOMAIN w = 1 .. Len(w) /\ \A i \in 1 .. Len(w) : w[i].k \in Kinds
    BY <1>1, WireFacts, Zenon
<1>4. ParseChat(w) = FlattenSeq(p) /\ p \in Seq(Seq(Msg)) /\ Len(p) = Len(w)
    BY ChatIn, Zenon
<1>5. \A i \in 1 .. Len(w) :
        /\ w[i].glue => p[i] = <<>>
        /\ (~w[i].glue /\ IsResult(w[i])) => p[i] = << ResultOf(proto, w, i) >>
        /\ (~w[i].glue /\ ~IsResult(w[i])) =>
              p[i] = << Grouped(proto, Side(proto, w[i]), w, i, GroupEnd(w, i)) >>
    BY <1>3, Zenon DEF ChatParts
<1>6. FlattenSeq(p) = Pre(p, Len(p)) /\ Pre(p, 0) = <<>>
    BY <1>4, FlatNext, Zenon
<1> HIDE DEF p
<1>7. 0 \in T
    BY <1>3, <1>6, LevelBegins
<1>8. ASSUME NEW a \in 1 .. Len(w), ~w[a].glue, a - 1 \in T PROVE GroupEnd(w, a) \in T
  <2> DEFINE e == GroupEnd(w, a)
             side == Side(proto, w[a])
             ms == Pre(p, a - 1)
  <2>1. e \in a .. Len(w) /\ ((\E i \in a .. e : IsCall(w[i])) => side = "assistant")
      BY <1>1, GroupFacts, Zenon
  <2>2. Pre(p, e) = ms \o p[a] /\ ms \in Seq(Msg)
      BY <1>1, <1>4, <1>5, GroupPre, Zenon
  <2>3. \A i \in a + 1 .. e : w[i].glue
      BY <1>1, GroupEndFacts, Zenon
  <2>4. e \in 0 .. Len(w)
      BY <1>3, <2>1
  <2>5. Level(w, a - 1, ms)
      BY <1>8
  <2>6. \A i \in a .. e : i \in 1 .. Len(w) /\ (IsResult(w[i]) <=> side = "tool")
    <3> TAKE i \in a .. e
    <3>1. i \in 1 .. Len(w)
        BY <1>3, <2>1
    <3>2. Side(proto, w[i]) = side
        BY <1>1, <2>1, <2>3, SameSide, Zenon
    <3> QED BY <1>3, <3>1, <3>2, ToolSide, Zenon
  <2>7. side \in Roles
      BY <1>1, <1>3, SideFacts, Zenon
  <2>8. a > 1 => ~(IsCall(w[a - 1]) /\ IsCall(w[a]))
      BY <1>1, <1>8, Apart, Zenon
  <2>9. a \in a .. e
      BY <2>1
  <2> HIDE DEF e, side, ms, T
  <2>10. ASSUME NEW m, p[a] = << m >> PROVE Pre(p, e) = Append(ms, m)
    <3>1. ms \o << m >> = Append(ms, m)
        BY <2>2
    <3> QED BY <2>2, <2>10, <3>1, Zenon
  <2>11. CASE IsResult(w[a])
    <3>1. e = a
      <4> SUFFICES ASSUME e # a PROVE FALSE
          OBVIOUS
      <4> DEFINE i == a + 1
      <4>1. i \in a + 1 .. e /\ i \in a .. e /\ i - 1 = a
          BY <2>1, <1>3
      <4> HIDE DEF i
      <4>2. i \in DOMAIN w /\ w[i].glue /\ IsResult(w[i])
          BY <1>3, <2>3, <2>6, <2>9, <2>11, <4>1, Zenon
      <4>3. MayGlue(proto, w[i - 1], w[i])
          BY <1>1, <4>2, Zenon DEF Glued
      <4> QED BY <4>2, <4>3, Zenon DEF MayGlue
    <3>2. Pre(p, e) = Append(ms, ResultOf(proto, w, a))
        BY <1>5, <1>8, <2>10, <2>11, Zenon
    <3>3. Level(w, a, Append(ms, ResultOf(proto, w, a)))
        BY <1>1, <1>2, <2>5, <2>11, LevelResult, Zenon
    <3> QED BY <2>4, <3>1, <3>2, <3>3 DEF e, T
  <2>12. CASE ~IsResult(w[a])
    <3>1. side # "tool" /\ \A i \in a .. e : ~IsResult(w[i])
        BY <2>6, <2>9, <2>12, Zenon
    <3>2. Pre(p, e) = Append(ms, Grouped(proto, side, w, a, e))
        BY <1>5, <1>8, <2>10, <2>12, Zenon DEF e, side
    <3>3. Level(w, e, Append(ms, Grouped(proto, side, w, a, e)))
        BY <1>1, <1>2, <2>1, <2>5, <2>7, <2>8, <3>1, LevelGroup, Zenon
    <3> QED BY <2>4, <3>2, <3>3 DEF e, T
  <2> QED BY <2>11, <2>12
<1> HIDE DEF T
<1>9. Len(w) \in T
    BY <1>1, <1>7, <1>8, GroupSteps, Zenon
<1>10. Level(w, Len(w), Pre(p, Len(w)))
    BY <1>9, Zenon DEF T
<1> QED BY <1>1, <1>2, <1>4, <1>6, <1>10, LevelEnds, Zenon

-------------------------------------------------------------------------------
(* Results of one group, in Anthropic                                        *)

(* The results of w, and what they are read as.                              *)
ResultPieces(w)      == {i \in 1 .. Len(w) : IsResult(w[i])}
ResultMsg(proto, w)  == [i \in ResultPieces(w) |-> ResultOf(proto, w, i)]
ResultMsgs(proto, w, a, b) == Mapped(ResultMsg(proto, w), Keep(Positions(a, b), ResultPieces(w)))

(* They are messages, and those the parser makes of the results of a group.  *)
LEMMA ResultMsgApplies ==
  ASSUME NEW proto, NEW w \in Wires, Len(w) <= MaxPieces
  PROVE  Applies(ResultMsg(proto, w), ResultPieces(w), Msg)
<1>1. \A i \in ResultPieces(w) : ResultOf(proto, w, i) \in Msg
    BY ResultFields, Zenon DEF ResultPieces
<1> QED BY <1>1, Zenon DEF Applies, ResultMsg

LEMMA ResultMsgsAre ==
  ASSUME NEW proto, NEW w \in Wires, NEW a \in 1 .. Len(w), NEW b \in a .. Len(w)
  PROVE  MadeResults(proto, w, GroupResults(w, a, b)) = ResultMsgs(proto, w, a, b)
<1> DEFINE q == GroupResults(w, a, b)
           C == ResultPieces(w)
           K == {k \in 1 .. b - a + 1 : IsResult(w[a + k - 1])}
<1>1. a \in Nat /\ b \in Nat /\ a <= b + 1 /\ \A k \in 1 .. b - a + 1 : a + k - 1 \in 1 .. Len(w)
  <2>1. Len(w) \in Nat
      BY WireFacts
  <2> QED BY <2>1
<1>4. q = Keep(Positions(a, b), C)
  <2>1. \A k \in 1 .. b - a + 1 : k \in K <=> a + k - 1 \in C
      BY <1>1, Zenon DEF ResultPieces
  <2> HIDE DEF K, C
  <2>2. Those(Positions(a, b), K) = Keep(Positions(a, b), C)
      BY <1>1, <2>1, PickIsKeep
  <2> QED BY <2>2, Zenon DEF K, GroupResults
<1>5. q \in Seq(C)
  <2>1. Positions(a, b) \in Seq(Int)
      BY <1>1, PositionsFacts, Zenon
  <2> QED BY <1>4, <2>1, KeepIs, Zenon
<1> HIDE DEF q, K
<1>8. \A k \in DOMAIN q : q[k] \in C
    BY <1>5, SeqFacts, Zenon
<1>9. \A i \in C : ResultOf(proto, w, i) = ResultMsg(proto, w)[i]
    BY Zenon DEF ResultPieces, ResultMsg
<1>10. \A k \in DOMAIN q : ResultOf(proto, w, q[k]) = ResultMsg(proto, w)[q[k]]
    BY <1>8, <1>9, Zenon
<1>11. MadeResults(proto, w, q) = Mapped(ResultMsg(proto, w), q)
    BY <1>10, Zenon DEF Mapped, MadeResults
<1> QED BY <1>4, <1>11, Zenon DEF q, C, ResultMsgs

(* Level as far as the pieces a .. n of one message are read; nothing is     *)
(* owed after a piece that is no result.                                     *)
Leveling(proto, w, ms, a, n) ==
  \E ids : /\ Debt(w, n, ids) /\ Owes(ms \o ResultMsgs(proto, w, a, n), ids)
           /\ (\E i \in a .. n : ~IsResult(w[i])) => ids = <<>>

(* One more piece of the group, a result or not.                             *)
LEMMA LevelingNext ==
  ASSUME NEW proto, NEW w \in Wires, Len(w) <= MaxPieces, Behaved(w), NEW ms \in Seq(Msg),
         NEW a \in 1 .. Len(w), NEW n \in Nat, NEW l \in a .. Len(w), l = n + 1, ~IsCall(w[l]),
         Leveling(proto, w, ms, a, n)
  PROVE  Leveling(proto, w, ms, a, l)
<1> DEFINE C == ResultPieces(w)
           G == ResultMsg(proto, w)
           q == Keep(Positions(a, n), C)
           f == ResultMsgs(proto, w, a, n)
           g == ResultMsgs(proto, w, a, l)
<1>1. /\ n \in 0 .. Len(w) /\ n # Len(w) /\ l \in 1 .. Len(w) /\ a \in Nat /\ a <= n + 1
      /\ \A i \in a .. l : i \in a .. n \/ i = l
  <2>1. Len(w) \in Nat
      BY WireFacts
  <2> QED BY <2>1
<1>2. PICK ids : /\ Debt(w, n, ids) /\ Owes(ms \o f, ids)
                 /\ (\E i \in a .. n : ~IsResult(w[i])) => ids = <<>>
    BY Zenon DEF Leveling
<1>3. Applies(G, C, Msg)
    BY ResultMsgApplies, Zenon
<1>4. l \in C <=> IsResult(w[l])
    BY <1>1, Zenon DEF ResultPieces
<1>5. q \in Seq(C) /\ Keep(Positions(a, n + 1), C) = q \o (IF n + 1 \in C THEN << n + 1 >> ELSE <<>>)
    BY <1>1, KeepNext, Zenon
<1>6. f = Mapped(G, q) /\ g = Mapped(G, Keep(Positions(a, l), C))
    BY Zenon DEF ResultMsgs
<1>7. f \in Seq(Msg)
    BY <1>3, <1>5, <1>6, MappedFacts, Zenon
<1>8. CASE IsResult(w[l])
  <2>1. Keep(Positions(a, l), C) = Append(q, l)
    <3> HIDE DEF C, q
    <3> QED BY <1>4, <1>5, <1>8
  <2>2. g = Append(f, G[l])
    <3> HIDE DEF C, q, G, f, g
    <3>1. l \in C
        BY <1>4, <1>8, Zenon
    <3>2. Mapped(G, Append(q, l)) = Append(Mapped(G, q), G[l])
        BY <1>3, <1>5, <3>1, MappedAppend
    <3> QED BY <1>6, <2>1, <3>2, Zenon
  <2>3. G[l] = ResultOf(proto, w, l)
      BY <1>4, <1>8, Zenon DEF ResultMsg
  <2> DEFINE m == ResultOf(proto, w, l)
  <2>4. m \in Msg /\ m.role = "tool"
      BY <1>1, <1>8, ResultFields, Zenon
  <2>5. m.for = Results[w[l].k]
      BY <1>1, <1>8, GivenIds, Zenon
  <2> HIDE DEF C, q, G, f, g, m
  <2>6. ids # <<>> /\ ids[1] = Results[w[l].k] /\ Debt(w, l, Tail(ids))
      BY <1>1, <1>2, <1>8, DebtLess, Zenon
  <2>7. Owes(Append(ms \o f, m), Tail(ids))
      BY <1>2, <2>4, <2>5, <2>6, OwesLess, Zenon
  <2>8. ms \o Append(f, m) = Append(ms \o f, m)
      BY <1>7, <2>4
  <2>9. Owes(ms \o g, Tail(ids))
      BY <2>2, <2>3, <2>7, <2>8, Zenon DEF m
  <2>10. ~\E i \in a .. l : ~IsResult(w[i])
      BY <1>1, <1>2, <1>8, <2>6, Zenon
  <2> QED BY <2>6, <2>9, <2>10, Zenon DEF Leveling, g
<1>9. CASE ~IsResult(w[l])
  <2>1. Keep(Positions(a, l), C) = q
    <3> HIDE DEF C, q
    <3> QED BY <1>4, <1>5, <1>9
  <2>2. g = f
      BY <1>6, <2>1, Zenon
  <2> HIDE DEF C, q, G, f, g
  <2>3. ids = <<>> /\ Debt(w, l, <<>>)
    <3>1. ~IsCall(w[n + 1]) /\ ~IsResult(w[n + 1])
        BY <1>9
    <3>2. ids = <<>> /\ Debt(w, n + 1, <<>>)
        BY <1>1, <1>2, <3>1, DebtNone, Zenon
    <3> QED BY <3>2
  <2> QED BY <1>2, <2>2, <2>3, Zenon DEF Leveling, g
<1> QED BY <1>8, <1>9

(* The results of a group without calls, one by one.                         *)
LEMMA LevelingEnds ==
  ASSUME NEW proto, NEW w \in Wires, Len(w) <= MaxPieces, Behaved(w), NEW ms \in Seq(Msg),
         NEW a \in 1 .. Len(w), NEW b \in a .. Len(w), \A i \in a .. b : ~IsCall(w[i]), Level(w, a - 1, ms)
  PROVE  Leveling(proto, w, ms, a, b)
<1> DEFINE h == a - 1
           D == {d \in Nat : h + d <= b => Leveling(proto, w, ms, a, h + d)}
<1>1. /\ h \in Nat /\ b \in Nat /\ a \in Nat /\ h < a /\ a <= h + 1 /\ b <= Len(w) /\ Len(w) \in Nat /\ h + 0 = h
      /\ ~\E i \in a .. h : TRUE
  <2>1. Len(w) \in Nat
      BY WireFacts
  <2> QED BY <2>1
<1>2. Leveling(proto, w, ms, a, h)
  <2>1. PICK ids : Debt(w, h, ids) /\ Owes(ms, ids)
      BY Zenon DEF Level
  <2>2. ResultMsgs(proto, w, a, h) = <<>>
    <3>1. Positions(a, h) = <<>>
        BY <1>1, PositionsFacts, Zenon
    <3> QED BY <3>1, KeepNone, MappedEmpty, Zenon DEF ResultMsgs
  <2>3. ms \o <<>> = ms
      BY ConcatEmptySeq
  <2> HIDE DEF h
  <2> QED BY <1>1, <2>1, <2>2, <2>3, Zenon DEF Leveling
<1> HIDE DEF h
<1>3. 0 \in D
    BY <1>1, <1>2
<1>4. ASSUME NEW d \in Nat, d \in D PROVE d + 1 \in D
  <2> DEFINE n == h + d
             l == h + (d + 1)
  <2> SUFFICES ASSUME l <= b PROVE Leveling(proto, w, ms, a, l)
      OBVIOUS
  <2>1. n \in Nat /\ l = n + 1 /\ n <= b /\ l \in a .. Len(w) /\ l \in a .. b
      BY <1>1 DEF h
  <2>2. Leveling(proto, w, ms, a, n)
      BY <1>4, <2>1
  <2> HIDE DEF n, l, D
  <2>3. ~IsCall(w[l])
      BY <2>1, Zenon
  <2> QED BY <2>1, <2>2, <2>3, LevelingNext, Zenon
<1> HIDE DEF D
<1>5. \A d \in Nat : d \in D
    BY <1>3, <1>4, SetInduction, Zenon
<1>6. b - h \in Nat /\ h + (b - h) = b /\ h + (b - h) <= b
    BY <1>1 DEF h
<1> QED BY <1>5, <1>6 DEF D

(* A message that says something is made of more than results.               *)
LEMMA SaysMore ==
  ASSUME NEW proto, NEW role \in Roles, NEW w \in Wires, Len(w) <= MaxPieces,
         NEW a \in 1 .. Len(w), NEW b \in a .. Len(w), \A i \in a .. b : ~IsCall(w[i])
  PROVE  /\ MsgIds(Grouped(proto, role, w, a, b)) = <<>>
         /\ ~NoText(Grouped(proto, role, w, a, b)) => \E i \in a .. b : ~IsResult(w[i])
<1> DEFINE K == {k \in 1 .. b - a + 1 : w[a + k - 1].k \in {"user", "say", "system"}}
           t == Those(Positions(a, b), K)
           h == Those(Positions(a, b), {k \in 1 .. b - a + 1 : w[a + k - 1].k = "think"})
           g == \E i \in a .. b : w[i].k = "image"
           c == MadeCalls(proto, w, GroupCalls(w, a, b))
           r == Message(role)
           m == Grouped(proto, role, w, a, b)
<1>1. a \in Nat /\ b \in Nat /\ a <= b
  <2>1. Len(w) \in Nat
      BY WireFacts
  <2> QED BY <2>1
<1>2. m = Filled(r, t, g, h, c)
    BY Zenon DEF Grouped, Pick, Positions, Filled, MadeCalls, GroupCalls
<1>3. r \in MsgType
    BY MessageFacts, Zenon DEF Msg, Roles
<1>4. c = <<>>
    BY CallsOfGroup, Zenon
<1>5. \A i \in a .. b : IsResult(w[i]) => w[i].k # "image" /\ w[i].k \notin {"user", "say", "system"}
    BY DEF IsResult, Results
<1>6. (\A i \in a .. b : IsResult(w[i])) => ~g /\ t = <<>>
  <2> SUFFICES ASSUME \A i \in a .. b : IsResult(w[i]) PROVE ~g /\ t = <<>>
      OBVIOUS
  <2>1. ~g
      BY <1>5, Zenon
  <2>2. K = {}
    <3>1. \A k \in 1 .. b - a + 1 : a + k - 1 \in a .. b
        BY <1>1
    <3> QED BY <1>5, <3>1, Zenon
  <2> HIDE DEF K
  <2>3. t \in Seq(Int) /\ PickedFrom(a, b, K, t)
      BY <1>1, PickedFacts, Zenon
  <2> HIDE DEF t
  <2>4. Len(t) \in Nat /\ (Len(t) = 0 => t = <<>>)
      BY <2>3, EmptySeq
  <2>5. ~\E x \in 1 .. Len(t) : TRUE
      BY <2>2, <2>3, Zenon DEF PickedFrom
  <2>6. Len(t) = 0
    <3> SUFFICES ASSUME Len(t) # 0 PROVE FALSE
        OBVIOUS
    <3>1. 1 \in 1 .. Len(t)
        BY <2>4
    <3> QED BY <2>5, <3>1, Zenon
  <2> QED BY <2>1, <2>4, <2>6, Zenon
<1> HIDE DEF t, g, h, c, r, m, K
<1>7. m.calls = c /\ m.text = t /\ m.img = g
  <2>1. Filled(r, t, g, h, c).calls = c /\ Filled(r, t, g, h, c).text = t
      BY <1>3, FilledFields
  <2>2. Filled(r, t, g, h, c).img = g
      BY <1>3 DEF MsgType, Filled
  <2> QED BY <1>2, <2>1, <2>2, Zenon
<1>8. MsgIds(m) = <<>>
  <2>1. DOMAIN m.calls = {}
      BY <1>4, <1>7
  <2>2. MsgIds(m) = [k \in {} |-> m.calls[k].id]
      BY <2>1, Zenon DEF MsgIds
  <2> QED BY <2>2
<1>9. NoText(m) <=> m.text = <<>> /\ ~m.img
    BY Zenon DEF NoText
<1> QED BY <1>6, <1>7, <1>8, <1>9, Zenon DEF m

(* The history read from an Anthropic request is paired.                     *)
LEMMA AnthropicStays ==
  ASSUME NEW w, Request("anthropic", w), Answered("anthropic", w)
  PROVE  Paired(ParseAnthropic(w))
<1> DEFINE proto == "anthropic"
           p == AnthropicParts(w)
           T == {n \in 0 .. Len(w) : Level(w, n, Pre(p, n))}
<1>1. proto \in Protos /\ w \in Wires /\ Len(w) <= MaxPieces /\ Glued(proto, w) /\ proto # "responses"
    BY DEF Request
<1>2. Behaved(w)
    BY <1>1, AnsweredFacts, Zenon
<1>3. Len(w) \in Nat /\ DOMAIN w = 1 .. Len(w) /\ \A i \in 1 .. Len(w) : w[i].k \in Kinds
    BY <1>1, WireFacts, Zenon
<1>4. ParseAnthropic(w) = FlattenSeq(p) /\ p \in Seq(Seq(Msg)) /\ Len(p) = Len(w)
    BY AnthropicIn, Zenon
<1>5. \A i \in 1 .. Len(w) : p[i] = IF w[i].glue THEN <<>> ELSE AnthropicPart(w, i, GroupEnd(w, i))
    BY <1>3, Zenon DEF AnthropicParts
<1>6. FlattenSeq(p) = Pre(p, Len(p)) /\ Pre(p, 0) = <<>>
    BY <1>4, FlatNext, Zenon
<1> HIDE DEF p
<1>7. 0 \in T
    BY <1>3, <1>6, LevelBegins
<1>8. ASSUME NEW a \in 1 .. Len(w), ~w[a].glue, a - 1 \in T PROVE GroupEnd(w, a) \in T
  <2> DEFINE e == GroupEnd(w, a)
             side == Side(proto, w[a])
             ms == Pre(p, a - 1)
             role == IF w[a].k = "system" /\ a = 1 THEN "system" ELSE "user"
             rest == Grouped(proto, role, w, a, e)
             results == ResultMsgs(proto, w, a, e)
  <2>1. e \in a .. Len(w) /\ ((\E i \in a .. e : IsCall(w[i])) => side = "assistant")
      BY <1>1, GroupFacts, Zenon
  <2>2. Pre(p, e) = ms \o p[a] /\ ms \in Seq(Msg)
    <3>1. \A i \in 1 .. Len(w) : w[i].glue => p[i] = <<>>
        BY <1>5, Zenon
    <3> QED BY <1>1, <1>4, <3>1, GroupPre, Zenon
  <2>3. \A i \in a + 1 .. e : w[i].glue
      BY <1>1, GroupEndFacts, Zenon
  <2>4. e \in 0 .. Len(w)
      BY <1>3, <2>1
  <2>5. Level(w, a - 1, ms)
      BY <1>8
  <2>6. p[a] = IF side = "assistant" THEN << Grouped(proto, "assistant", w, a, e) >>
               ELSE results \o (IF NoText(rest) THEN <<>> ELSE << rest >>)
    <3>1. p[a] = AnthropicPart(w, a, e)
        BY <1>5, <1>8, Zenon
    <3>2. MadeResults(proto, w, GroupResults(w, a, e)) = results
        BY <1>1, <2>1, ResultMsgsAre, Zenon
    <3> HIDE DEF results, e
    <3> QED BY <3>1, <3>2, Zenon DEF AnthropicPart, RestOf
  <2>7. role \in Roles /\ role # "tool" /\ role # "assistant" /\ "assistant" \in Roles /\ "assistant" # "tool"
      BY DEF Roles
  <2>8. a > 1 => ~(IsCall(w[a - 1]) /\ IsCall(w[a]))
      BY <1>1, <1>8, Apart, Zenon
  <2> HIDE DEF e, side, ms, T, role, rest, results, proto
  <2>9. CASE side = "assistant"
    <3>1. \A i \in a .. e : ~IsResult(w[i])
      <4> TAKE i \in a .. e
      <4>1. i \in 1 .. Len(w)
          BY <1>3, <2>1
      <4>2. Side(proto, w[i]) = side
          BY <1>1, <2>1, <2>3, SameSide, Zenon DEF side
      <4> QED BY <1>1, <1>3, <2>9, <4>1, <4>2, SideFacts, Zenon
    <3> DEFINE m == Grouped(proto, "assistant", w, a, e)
    <3>2. p[a] = << m >>
        BY <2>6, <2>9, Zenon
    <3>3. Level(w, e, Append(ms, m))
        BY <1>1, <1>2, <2>1, <2>5, <2>7, <2>8, <3>1, LevelGroup, Zenon
    <3> HIDE DEF m
    <3>4. Pre(p, e) = Append(ms, m)
      <4>1. ms \o << m >> = Append(ms, m)
          BY <2>2
      <4> QED BY <2>2, <3>2, <4>1, Zenon
    <3> QED BY <2>4, <3>3, <3>4 DEF e, T
  <2>10. CASE side # "assistant"
    <3>1. \A i \in a .. e : ~IsCall(w[i])
        BY <2>1, <2>10, Zenon
    <3>2. Leveling(proto, w, ms, a, e)
        BY <1>1, <1>2, <2>1, <2>2, <2>5, <3>1, LevelingEnds, Zenon
    <3>3. PICK ids : /\ Debt(w, e, ids) /\ Owes(ms \o results, ids)
                     /\ (\E i \in a .. e : ~IsResult(w[i])) => ids = <<>>
        BY <3>2, Zenon DEF Leveling, results
    <3>4. MsgIds(rest) = <<>> /\ (~NoText(rest) => \E i \in a .. e : ~IsResult(w[i]))
        BY <1>1, <2>1, <2>7, <3>1, SaysMore, Zenon DEF rest
    <3>5. CASE NoText(rest)
      <4>1. results \in Seq(Msg)
        <5>1. MadeResults(proto, w, GroupResults(w, a, e)) \in Seq(Msg)
            BY <1>1, <2>1, ResultsOfGroup, Zenon
        <5>2. MadeResults(proto, w, GroupResults(w, a, e)) = results
            BY <1>1, <2>1, ResultMsgsAre, Zenon DEF results
        <5> QED BY <5>1, <5>2, Zenon
      <4>2. p[a] = results
          BY <2>6, <2>10, <3>5, <4>1, ConcatEmptySeq
      <4>3. Level(w, e, Pre(p, e))
          BY <2>2, <3>3, <4>2, Zenon DEF Level
      <4> QED BY <2>4, <4>3 DEF e, T
    <3>6. CASE ~NoText(rest)
      <4>1. results \in Seq(Msg)
        <5>1. MadeResults(proto, w, GroupResults(w, a, e)) \in Seq(Msg)
            BY <1>1, <2>1, ResultsOfGroup, Zenon
        <5>2. MadeResults(proto, w, GroupResults(w, a, e)) = results
            BY <1>1, <2>1, ResultMsgsAre, Zenon DEF results
        <5> QED BY <5>1, <5>2, Zenon
      <4>2. rest \in Msg /\ rest.role = role
        <5>1. (\E i \in a .. e : IsCall(w[i])) => role = "assistant"
            BY <3>1, Zenon
        <5> QED BY <1>1, <2>1, <2>7, <5>1, GroupedIn, Zenon DEF rest
      <4>3. ids = <<>>
          BY <3>3, <3>4, <3>6, Zenon
      <4> DEFINE b == ms \o results
      <4>4. Owes(Append(b, rest), <<>>)
          BY <2>7, <3>3, <3>4, <4>2, <4>3, OwesCalls, Zenon
      <4>5. ms \o (results \o << rest >>) = Append(b, rest)
          BY <2>2, <4>1, <4>2
      <4> HIDE DEF b
      <4>6. Level(w, e, Pre(p, e))
          BY <2>2, <2>6, <2>10, <3>3, <3>6, <4>3, <4>4, <4>5, Zenon DEF Level
      <4> QED BY <2>4, <4>6 DEF e, T
    <3> QED BY <3>5, <3>6
  <2> QED BY <2>9, <2>10
<1> HIDE DEF T
<1>9. Len(w) \in T
    BY <1>1, <1>7, <1>8, GroupSteps, Zenon
<1>10. Level(w, Len(w), Pre(p, Len(w)))
    BY <1>9, Zenon DEF T
<1> QED BY <1>1, <1>2, <1>4, <1>6, <1>10, LevelEnds, Zenon

-------------------------------------------------------------------------------
(* Responses, item by item                                                   *)

(* The results that wait, after each item.                                   *)
LEMMA FlushPending ==
  ASSUME NEW s \in Flow
  PROVE  FlushAssistant(s).pending = s.pending /\ FlushResults(s).pending = <<>>
<1>1. FlushResults(s).pending = <<>>
  <2> DEFINE o == s.out \o s.pending
             e == <<>>
  <2>1. FlushResults(s) = [s EXCEPT !.out = o, !.pending = e]
      BY Zenon DEF FlushResults
  <2> HIDE DEF o, e
  <2>2. FlushResults(s).pending = e
      BY <2>1 DEF Flow
  <2> QED BY <2>2 DEF e
<1>2. ASSUME s.cur # <<>> PROVE FlushAssistant(s).pending = s.pending
  <2> DEFINE o == IF s.cur[1].calls = <<>> THEN s.out ELSE Append(s.out, [s.cur[1] EXCEPT !.think = s.think])
             e == <<>>
  <2>1. FlushAssistant(s) = [s EXCEPT !.cur = e, !.think = e, !.out = o]
      BY <1>2, Zenon DEF FlushAssistant
  <2> HIDE DEF o, e
  <2> QED BY <2>1 DEF Flow
<1> QED BY <1>1, <1>2, Zenon DEF FlushAssistant

(* The results that wait after an item are those it read.                    *)
LEMMA ItemPending ==
  ASSUME NEW w, Request("responses", w), NEW i \in 1 .. Len(w), NEW s \in Flow
  PROVE  LET next == ResponsesStep(s, w, i)
         IN  /\ w[i].k = "think" => next.pending = s.pending
             /\ IsCall(w[i]) => next.pending = <<>>
             /\ IsResult(w[i]) => next.pending = << ResultOf("responses", w, i) >>
             /\ (w[i].k # "think" /\ ~IsCall(w[i]) /\ ~IsResult(w[i])) => next.pending = <<>>
<1>1. /\ IsCall(w[i]) => ~IsResult(w[i])
      /\ w[i].k = "think" => ~IsCall(w[i]) /\ ~IsResult(w[i])
  <2>1. w \in Wires /\ "responses" \in Protos
      BY DEF Request
  <2>2. w[i].k \in Kinds
      BY <2>1, WireFacts, Zenon
  <2> QED BY <2>1, <2>2, SideFacts, Zenon
<1> DEFINE next == ResponsesStep(s, w, i)
           u == FlushResults(s)
           f == FlushAssistant(s)
           t == FlushResults(f)
<1>2. u \in Flow /\ t \in Flow /\ f \in Flow
    BY FlushIn, Zenon
<1>3. u.pending = <<>> /\ t.pending = <<>>
    BY <1>2, FlushPending, Zenon
<1>4. ASSUME w[i].k = "think" PROVE next.pending = s.pending
  <2> DEFINE k == Append(s.think, i)
  <2>1. next = [s EXCEPT !.think = k]
      BY <1>1, <1>4, Zenon DEF ResponsesStep
  <2> HIDE DEF k, next
  <2> QED BY <2>1 DEF Flow
<1>5. ASSUME IsCall(w[i]) PROVE next.pending = <<>>
  <2> DEFINE c == << Called(u, w, i) >>
  <2>1. next = ResponsesCall(s, w, i)
      BY <1>1, <1>5, Zenon DEF ResponsesStep
  <2>2. ResponsesCall(s, w, i) = [u EXCEPT !.cur = c]
      BY Zenon DEF ResponsesCall, Called, Current
  <2> HIDE DEF next, u, c
  <2>3. next.pending = u.pending
      BY <1>2, <2>1, <2>2 DEF Flow
  <2> QED BY <1>3, <2>3
<1>6. ASSUME IsResult(w[i]) PROVE next.pending = << ResultOf("responses", w, i) >>
  <2> DEFINE p == << ResultOf("responses", w, i) >>
  <2>1. next = [t EXCEPT !.pending = p]
      BY <1>1, <1>6, Zenon DEF ResponsesStep, ResponsesOutput
  <2> HIDE DEF p, t, next
  <2>2. next.pending = p
      BY <1>2, <2>1 DEF Flow
  <2> QED BY <2>2 DEF p
<1>7. ASSUME w[i].k # "think", ~IsCall(w[i]), ~IsResult(w[i]) PROVE next.pending = <<>>
  <2> DEFINE o == Append(t.out, Worded(t, w, i))
             e == <<>>
  <2>1. next = [t EXCEPT !.out = o, !.think = e]
      BY <1>7, Zenon DEF ResponsesStep, ResponsesMessage, Worded
  <2> HIDE DEF o, e, t, next
  <2>2. next.pending = t.pending
      BY <1>2, <2>1 DEF Flow
  <2> QED BY <1>3, <2>2
<1> QED BY <1>4, <1>5, <1>6, <1>7, Zenon

(* One more call, one more id.                                               *)
LEMMA OneMoreId ==
  ASSUME NEW m \in Msg, NEW n \in Msg, NEW c \in CallType, n.calls = Append(m.calls, c)
  PROVE  MsgIds(n) = Append(MsgIds(m), c.id) /\ n.calls # <<>>
<1> DEFINE G == [x \in CallType |-> x.id]
<1>1. m.calls \in Seq(CallType) /\ n.calls \in Seq(CallType)
    BY MsgFacts, Zenon
<1>2. Applies(G, CallType, Word)
  <2>1. \A x \in CallType : x.id \in Word
      BY DEF CallType
  <2> QED BY <2>1, Zenon DEF Applies
<1>3. G[c] = c.id
    BY Zenon
<1>4. ASSUME NEW x \in Msg, x.calls \in Seq(CallType) PROVE MsgIds(x) = Mapped(G, x.calls)
  <2>1. \A k \in DOMAIN x.calls : x.calls[k] \in CallType
      BY <1>4, SeqFacts, Zenon
  <2>2. \A k \in DOMAIN x.calls : x.calls[k].id = G[x.calls[k]]
      BY <2>1, Zenon
  <2> HIDE DEF G
  <2> QED BY <2>2, Zenon DEF MsgIds, Mapped
<1> HIDE DEF G
<1>5. Mapped(G, Append(m.calls, c)) = Append(Mapped(G, m.calls), G[c])
    BY <1>1, <1>2, MappedAppend
<1>6. MsgIds(n) = Append(MsgIds(m), c.id)
    BY <1>1, <1>3, <1>4, <1>5, Zenon
<1>7. n.calls # <<>>
    BY <1>1
<1> QED BY <1>6, <1>7

(* After n items: what waits is level with the items, or the calls being     *)
(* collected are what is owed.                                               *)
Reading(w, n, s) ==
  /\ s.cur = <<>> => Level(w, n, s.out \o s.pending) /\ (n = 0 \/ ~IsCall(w[n]))
  /\ s.cur # <<>> => /\ s.pending = <<>> /\ s.cur[1].calls # <<>>
                     /\ Owes(s.out, <<>>) /\ Debt(w, n, MsgIds(s.cur[1]))

(* With no calls being collected, and with some.                             *)
LEMMA ReadingShut ==
  ASSUME NEW w, NEW n, NEW s, s.cur = <<>>, Level(w, n, s.out \o s.pending), ~IsCall(w[n])
  PROVE  Reading(w, n, s)
  BY Zenon DEF Reading

LEMMA ReadingOpen ==
  ASSUME NEW w, NEW n, NEW s, NEW m, s.cur # <<>>, s.cur[1] = m, s.pending = <<>>, m.calls # <<>>,
         Owes(s.out, <<>>), Debt(w, n, MsgIds(m))
  PROVE  Reading(w, n, s)
  BY DEF Reading

(* Closing the message that collects them, and sending what waits.           *)
LEMMA FlushLevel ==
  ASSUME NEW w, NEW n, NEW s \in Flow, Reading(w, n, s)
  PROVE  LET t == FlushResults(FlushAssistant(s))
         IN  t \in Flow /\ Level(w, n, t.out) /\ t.cur = <<>> /\ t.pending = <<>>
<1> DEFINE f == FlushAssistant(s)
           t == FlushResults(f)
<1>1. f \in Flow /\ t \in Flow
    BY FlushIn, Zenon
<1>2. t.out = f.out \o f.pending /\ t.cur = f.cur /\ t.pending = <<>>
    BY <1>1, FlushFields, FlushPending, Zenon
<1>3. f.pending = s.pending
    BY FlushPending, Zenon
<1>4. CASE s.cur = <<>>
  <2>1. f = s
      BY <1>4, Zenon DEF FlushAssistant
  <2> QED BY <1>1, <1>2, <1>4, <2>1, Zenon DEF Reading
<1>5. CASE s.cur # <<>>
  <2> DEFINE m == s.cur[1]
             x == [m EXCEPT !.think = s.think]
  <2>1. /\ s.pending = <<>> /\ m.calls # <<>> /\ Owes(s.out, <<>>) /\ Debt(w, n, MsgIds(m))
      BY <1>5, Zenon DEF Reading
  <2>2. m \in Spokesman /\ s.think \in Seq(Int)
      BY <1>5, FlowFacts, Zenon
  <2>3. f.cur = <<>> /\ f.out = Append(s.out, x)
      BY <1>5, <2>1, FlushFields, Zenon
  <2>4. x \in Spokesman /\ x.calls = m.calls
    <3> HIDE DEF m
    <3> QED BY <2>2, SpokesmanFacts, ThoughtFields, Zenon
  <2>5. x \in Msg /\ x.role # "tool"
    <3> HIDE DEF x
    <3>1. x \in Msg /\ x.role = "assistant"
        BY <2>4, Zenon DEF Spokesman
    <3> QED BY <3>1
  <2> HIDE DEF m, x
  <2>6. MsgIds(x) = MsgIds(m)
    <3>1. \A k \in DOMAIN m.calls : x.calls[k].id = m.calls[k].id
        BY <2>4, Zenon
    <3> QED BY <2>4, <3>1, Zenon DEF MsgIds
  <2>7. Owes(Append(s.out, x), MsgIds(x))
      BY <2>1, <2>5, OwesCalls, Zenon
  <2>8. t.out = f.out
    <3>1. f.out \in Seq(Msg)
        BY <1>1, FlowFacts, Zenon
    <3> QED BY <1>2, <1>3, <2>1, <3>1, ConcatEmptySeq
  <2>9. Level(w, n, t.out)
      BY <2>1, <2>3, <2>6, <2>7, <2>8, Zenon DEF Level
  <2> QED BY <1>1, <1>2, <2>3, <2>9, Zenon
<1> QED BY <1>4, <1>5, Zenon

(* The message of any other piece calls nothing.                             *)
LEMMA WordedFields ==
  ASSUME NEW w, Request("responses", w), NEW i \in 1 .. Len(w), ~IsCall(w[i]), ~IsResult(w[i]), NEW t \in Flow
  PROVE  /\ Worded(t, w, i) \in Msg /\ Worded(t, w, i).role # "tool" /\ MsgIds(Worded(t, w, i)) = <<>>
<1> DEFINE proto == "responses"
           side == Side(proto, w[i])
           m == Grouped(proto, side, w, i, i)
           x == [m EXCEPT !.think = t.think]
<1>0. w \in Wires /\ Len(w) <= MaxPieces /\ Glued(proto, w) /\ proto \in Protos
    BY DEF Request, Protos
<1>1. w[i].k \in Kinds
    BY <1>0, WireFacts, Zenon
<1>2. side \in Roles /\ side # "tool"
    BY <1>0, <1>1, SideFacts, Zenon
<1>3. i \in i .. Len(w) /\ (\A j \in i .. i : ~IsCall(w[j])) /\ ~\E j \in i .. i : IsCall(w[j])
  <2>1. Len(w) \in Nat
      BY <1>0, WireFacts, Zenon
  <2>2. i \in i .. Len(w) /\ \A j \in i .. i : j = i
      BY <2>1
  <2> QED BY <2>2, Zenon
<1> HIDE DEF side
<1>4. m \in Msg /\ m.role = side
    BY <1>0, <1>2, <1>3, GroupedIn, Zenon
<1>5. MsgIds(m) = <<>>
    BY <1>0, <1>2, <1>3, SaysMore, Zenon
<1>6. Worded(t, w, i) = IF m.role = "assistant" THEN x ELSE m
    BY Zenon DEF Worded, side
<1> HIDE DEF m
<1>7. Worded(t, w, i) \in Msg
    BY WordedIn, Zenon
<1>8. CASE m.role = "assistant"
  <2>1. m \in Spokesman
      BY <1>4, <1>8, Zenon DEF Spokesman
  <2>2. x.calls = m.calls
      BY <2>1, ThoughtFields, Zenon
  <2>3. x \in Spokesman
    <3>1. t.think \in Seq(Int)
        BY FlowFacts, Zenon
    <3> QED BY <2>1, <3>1, SpokesmanFacts, Zenon
  <2> HIDE DEF x
  <2>4. MsgIds(x) = MsgIds(m)
    <3>1. \A k \in DOMAIN m.calls : x.calls[k].id = m.calls[k].id
        BY <2>2, Zenon
    <3> QED BY <2>2, <3>1, Zenon DEF MsgIds
  <2>5. x.role # "tool"
    <3>1. x.role = "assistant"
        BY <2>3, Zenon DEF Spokesman
    <3> QED BY <3>1
  <2>6. Worded(t, w, i) = x
      BY <1>6, <1>8
  <2> QED BY <1>5, <1>7, <2>4, <2>5, <2>6
<1>9. CASE m.role # "assistant"
    BY <1>2, <1>4, <1>5, <1>6, <1>7, <1>9, Zenon
<1> QED BY <1>8, <1>9

(* What reading one item does to what is handed on.                          *)
ItemIs(w, l, s, t, next) ==
  /\ w[l].k = "think" => next.out = s.out /\ next.cur = s.cur
  /\ IsCall(w[l]) => next.out = s.out \o s.pending /\ next.cur = << Called(s, w, l) >>
  /\ IsResult(w[l]) => next.out = t.out /\ next.cur = t.cur
  /\ (w[l].k # "think" /\ ~IsCall(w[l]) /\ ~IsResult(w[l])) =>
       next.out = Append(t.out, Worded(t, w, l)) /\ next.cur = t.cur

(* Each item is one of the four kinds.                                       *)
LEMMA ItemParts ==
  ASSUME NEW w, Request("responses", w), NEW l \in 1 .. Len(w), NEW s \in Flow
  PROVE  ItemIs(w, l, s, FlushResults(FlushAssistant(s)), ResponsesStep(s, w, l))
<1> DEFINE next == ResponsesStep(s, w, l)
           t == FlushResults(FlushAssistant(s))
<1> HIDE DEF next, t
<1>1. w[l].k = "think" => next.out = s.out /\ next.cur = s.cur
    BY ItemFields, ZenonT(60) DEF next
<1>2. ASSUME IsCall(w[l]) PROVE next.out = s.out \o s.pending /\ next.think = s.think /\ next.cur = << Called(s, w, l) >>
    BY <1>2, ItemFields, ZenonT(60) DEF next
<1>3. ASSUME IsResult(w[l]) PROVE next.out = t.out /\ next.cur = t.cur
    BY <1>3, ItemFields, ZenonT(60) DEF next, t
<1>4. ASSUME w[l].k # "think", ~IsCall(w[l]), ~IsResult(w[l])
      PROVE  next.out = Append(t.out, Worded(t, w, l)) /\ next.cur = t.cur
    BY <1>4, ItemFields, ZenonT(60) DEF next, t
<1> QED BY <1>1, <1>2, <1>3, <1>4 DEF ItemIs, next, t

(* Every item keeps it so.                                                   *)
LEMMA ItemReading ==
  ASSUME NEW w, Request("responses", w), Behaved(w), NEW n \in Nat, NEW l \in 1 .. Len(w), l = n + 1,
         NEW s \in Flow, Reading(w, n, s)
  PROVE  Reading(w, l, ResponsesStep(s, w, l))
<1> DEFINE proto == "responses"
           next == ResponsesStep(s, w, l)
           t == FlushResults(FlushAssistant(s))
<1>0. w \in Wires /\ Len(w) <= MaxPieces /\ proto \in Protos
    BY DEF Request, Protos
<1>1. n \in 0 .. Len(w) /\ n # Len(w) /\ l # 0 /\ l - 1 = n
  <2>1. Len(w) \in Nat
      BY <1>0, WireFacts, Zenon
  <2> QED BY <2>1
<1>2. w[l].k \in Kinds
    BY <1>0, WireFacts, Zenon
<1>3. /\ IsCall(w[l]) => ~IsResult(w[l])
      /\ w[l].k = "think" => ~IsCall(w[l]) /\ ~IsResult(w[l])
    BY <1>0, <1>2, SideFacts, Zenon
<1>4. t \in Flow /\ Level(w, n, t.out) /\ t.cur = <<>> /\ t.pending = <<>>
    BY FlushLevel, Zenon
<1>5. /\ w[l].k = "think" => next.out = s.out /\ next.cur = s.cur
      /\ IsCall(w[l]) => next.out = s.out \o s.pending /\ next.cur = << Called(s, w, l) >>
      /\ IsResult(w[l]) => next.out = t.out /\ next.cur = t.cur
      /\ (w[l].k # "think" /\ ~IsCall(w[l]) /\ ~IsResult(w[l])) =>
           next.out = Append(t.out, Worded(t, w, l)) /\ next.cur = t.cur
  <2>1. ItemIs(w, l, s, t, next)
      BY ItemParts, Zenon
  <2> HIDE DEF next, t
  <2> QED BY <2>1, Zenon DEF ItemIs
<1>6. /\ w[l].k = "think" => next.pending = s.pending
      /\ IsCall(w[l]) => next.pending = <<>>
      /\ IsResult(w[l]) => next.pending = << ResultOf(proto, w, l) >>
      /\ (w[l].k # "think" /\ ~IsCall(w[l]) /\ ~IsResult(w[l])) => next.pending = <<>>
    BY ItemPending, ZenonT(60)
<1> SUFFICES Reading(w, l, next)
    OBVIOUS
<1> HIDE DEF t, next, proto
<1>7. ASSUME ~IsCall(w[l]), ~IsResult(w[l]), NEW ids, Debt(w, n, ids) PROVE ids = <<>> /\ Debt(w, l, <<>>)
  <2>1. ~IsCall(w[n + 1]) /\ ~IsResult(w[n + 1])
      BY <1>7
  <2>2. ids = <<>> /\ Debt(w, n + 1, <<>>)
      BY <1>0, <1>1, <1>7, <2>1, DebtNone, Zenon
  <2> QED BY <2>2
<1>8. ASSUME IsCall(w[l]), NEW ids, Debt(w, n, ids)
      PROVE  /\ Debt(w, l, Append(ids, Calls[w[l].k].id))
             /\ (n = 0 \/ ~IsCall(w[n])) => ids = <<>>
  <2>1. IsCall(w[n + 1])
      BY <1>8
  <2>2. /\ Debt(w, n + 1, Append(ids, Calls[w[n + 1].k].id))
        /\ (n = 0 \/ ~IsCall(w[n])) => ids = <<>>
      BY <1>0, <1>1, <1>8, <2>1, DebtMore
  <2> QED BY <2>2
<1>9. CASE w[l].k = "think"
  <2>1. next.out = s.out /\ next.cur = s.cur /\ next.pending = s.pending
      BY <1>5, <1>6, <1>9, Zenon
  <2>2. CASE s.cur = <<>>
    <3>1. PICK ids : Debt(w, n, ids) /\ Owes(s.out \o s.pending, ids)
        BY <2>2, Zenon DEF Reading, Level
    <3>2. ids = <<>> /\ Debt(w, l, <<>>)
        BY <1>3, <1>7, <1>9, <3>1, Zenon
    <3>3. Level(w, l, next.out \o next.pending)
        BY <2>1, <3>1, <3>2, Zenon DEF Level
    <3> QED BY <1>3, <1>9, <2>1, <2>2, <3>3, ReadingShut, Zenon
  <2>3. CASE s.cur # <<>>
    <3> DEFINE m == s.cur[1]
    <3>1. m.calls # <<>> /\ Debt(w, n, MsgIds(m))
        BY <2>3, Zenon DEF Reading
    <3>2. m \in Msg
        BY <2>3, FlowFacts, Zenon DEF Spokesman
    <3> HIDE DEF m
    <3>3. MsgIds(m) = <<>>
        BY <1>3, <1>7, <1>9, <3>1, Zenon
    <3>4. Len(m.calls) = 0
        BY <3>2, <3>3, MsgIdsFacts
    <3>5. m.calls \in Seq(CallType)
        BY <3>2, MsgFacts, Zenon
    <3> QED BY <3>1, <3>4, <3>5, EmptySeq
  <2> QED BY <2>2, <2>3
<1>10. CASE IsCall(w[l])
  <2> DEFINE m == Current(s)
             x == Called(s, w, l)
             c == CallOf(proto, w, l)
  <2>1. next.out = s.out \o s.pending /\ next.cur = << x >> /\ next.pending = <<>>
      BY <1>5, <1>6, <1>10, Zenon
  <2>2. Calls[w[l].k].name # "" /\ c.id = Calls[w[l].k].id
      BY <1>0, <1>10, GivenIds, Zenon
  <2>3. m \in Spokesman /\ c \in CallType /\ x.calls = Append(m.calls, c)
      BY <1>10, <2>2, CalledFields, Zenon DEF proto
  <2>4. x \in Msg
    <3>1. x = [m EXCEPT !.calls = Append(@, c)]
        BY <2>2, Zenon DEF Called, proto
    <3> HIDE DEF m, c
    <3>2. [m EXCEPT !.calls = Append(@, c)] \in Spokesman
        BY <2>3, SpokesmanFacts, Zenon
    <3> QED BY <3>1, <3>2, Zenon DEF Spokesman
  <2>5. s.out \in Seq(Msg) /\ s.pending \in Seq(Msg)
      BY FlowFacts, Zenon
  <2>6. m \in Msg
      BY <2>3, Zenon DEF Spokesman
  <2>7. Owes(s.out \o s.pending, <<>>) /\ Debt(w, n, MsgIds(m))
    <3>1. CASE s.cur = <<>>
      <4>1. PICK ids : Debt(w, n, ids) /\ Owes(s.out \o s.pending, ids)
          BY <3>1, Zenon DEF Reading, Level
      <4>2. ids = <<>>
          BY <1>8, <1>10, <3>1, <4>1, Zenon DEF Reading
      <4>3. MsgIds(m) = <<>>
        <5>1. m = Message("assistant")
            BY <3>1, Zenon DEF Current
        <5>2. m.calls = <<>>
            BY <5>1, MessageFacts
        <5>3. MsgIds(m) = [k \in DOMAIN <<>> |-> m.calls[k].id]
            BY <5>2, Zenon DEF MsgIds
        <5> QED BY <5>3
      <4> QED BY <4>1, <4>2, <4>3, Zenon
    <3>2. CASE s.cur # <<>>
      <4>1. s.pending = <<>> /\ Owes(s.out, <<>>) /\ Debt(w, n, MsgIds(m))
          BY <3>2, Zenon DEF Reading, Current
      <4>2. s.out \o s.pending = s.out
          BY <2>5, <4>1, ConcatEmptySeq
      <4> QED BY <4>1, <4>2, Zenon
    <3> QED BY <3>1, <3>2
  <2> HIDE DEF m, x, c
  <2>8. MsgIds(x) = Append(MsgIds(m), c.id) /\ x.calls # <<>>
      BY <2>3, <2>4, <2>6, OneMoreId, Zenon
  <2>9. Debt(w, l, MsgIds(x))
      BY <1>8, <1>10, <2>2, <2>7, <2>8, Zenon
  <2>10. next.cur # <<>> /\ next.cur[1] = x
      BY <2>1
  <2> QED BY <2>1, <2>7, <2>8, <2>9, <2>10, ReadingOpen, Zenon
<1>11. CASE IsResult(w[l])
  <2> DEFINE m == ResultOf(proto, w, l)
  <2>1. next.out = t.out /\ next.cur = <<>> /\ next.pending = << m >>
      BY <1>4, <1>5, <1>6, <1>11, Zenon
  <2>2. Level(w, l, Append(t.out, m))
      BY <1>0, <1>1, <1>4, <1>11, LevelResult, Zenon
  <2>3. t.out \in Seq(Msg)
      BY <1>4, FlowFacts, Zenon
  <2> HIDE DEF m
  <2>4. Append(t.out, m) = t.out \o << m >>
      BY <2>3
  <2>5. Level(w, l, next.out \o next.pending)
      BY <2>1, <2>2, <2>4, Zenon
  <2> QED BY <1>3, <1>11, <2>1, <2>5, ReadingShut, Zenon
<1>12. CASE w[l].k # "think" /\ ~IsCall(w[l]) /\ ~IsResult(w[l])
  <2> DEFINE m == Worded(t, w, l)
  <2>1. next.out = Append(t.out, m) /\ next.cur = <<>> /\ next.pending = <<>>
      BY <1>4, <1>5, <1>6, <1>12, Zenon
  <2>2. m \in Msg /\ m.role # "tool" /\ MsgIds(m) = <<>>
      BY <1>4, <1>12, WordedFields, Zenon
  <2>3. t.out \in Seq(Msg)
      BY <1>4, FlowFacts, Zenon
  <2>4. PICK ids : Debt(w, n, ids) /\ Owes(t.out, ids)
      BY <1>4, Zenon DEF Level
  <2>5. ids = <<>> /\ Debt(w, l, <<>>)
      BY <1>7, <1>12, <2>4, Zenon
  <2> HIDE DEF m
  <2>6. Owes(Append(t.out, m), <<>>)
      BY <2>2, <2>4, <2>5, OwesCalls, Zenon
  <2>7. Append(t.out, m) \o <<>> = Append(t.out, m)
      BY <2>2, <2>3, ConcatEmptySeq
  <2>8. Level(w, l, next.out \o next.pending)
      BY <2>1, <2>5, <2>6, <2>7, Zenon DEF Level
  <2> QED BY <1>12, <2>1, <2>8, ReadingShut, Zenon
<1> QED BY <1>9, <1>10, <1>11, <1>12

(* The history read from a Responses request is paired.                      *)
LEMMA ResponsesStays ==
  ASSUME NEW w, Request("responses", w), Answered("responses", w)
  PROVE  Paired(ParseResponses(w))
<1> DEFINE N == Len(w)
           c == Flowing(w)
           I == {n \in Nat : n <= N => Reading(w, n, c[n])}
<1>1. w \in Wires /\ Len(w) <= MaxPieces
    BY DEF Request
<1>2. Behaved(w) /\ N \in Nat
    BY <1>1, AnsweredFacts, WireFacts, Zenon
<1>3. /\ ParseResponses(w) = FlushResults(FlushAssistant(c[N])).out
      /\ \A n \in 0 .. N : c[n] \in Flow
      /\ c[0] = NothingYet
      /\ \A n \in 1 .. N : c[n] = ResponsesStep(c[n - 1], w, n)
    BY FlowingFacts, Zenon
<1> HIDE DEF c
<1>4. Reading(w, 0, c[0])
  <2>1. c[0].cur = <<>> /\ c[0].out \o c[0].pending = <<>>
      BY <1>3 DEF NothingYet
  <2> QED BY <2>1, LevelBegins, Zenon DEF Reading
<1>5. 0 \in I
    BY <1>4
<1>6. ASSUME NEW n \in Nat, n \in I PROVE n + 1 \in I
  <2> DEFINE l == n + 1
  <2> SUFFICES ASSUME l <= N PROVE Reading(w, l, c[l])
      OBVIOUS
  <2>1. l \in 1 .. Len(w) /\ n \in 0 .. N /\ n <= N /\ l - 1 = n /\ l = n + 1
      BY <1>2
  <2>2. Reading(w, n, c[n])
      BY <1>6, <2>1
  <2> HIDE DEF l, N, I
  <2>3. c[l] = ResponsesStep(c[n], w, l) /\ c[n] \in Flow
      BY <1>3, <2>1, Zenon DEF N
  <2>4. Reading(w, l, ResponsesStep(c[n], w, l))
      BY <1>2, <2>1, <2>2, <2>3, ItemReading, Zenon
  <2> QED BY <2>3, <2>4, Zenon
<1> HIDE DEF I
<1>7. \A n \in Nat : n \in I
    BY <1>5, <1>6, SetInduction, Zenon
<1>8. N \in 0 .. N /\ N <= N
    BY <1>2
<1>9. Reading(w, N, c[N]) /\ c[N] \in Flow
    BY <1>2, <1>3, <1>7, <1>8, Zenon DEF I
<1> DEFINE t == FlushResults(FlushAssistant(c[N]))
<1>10. Level(w, N, t.out)
    BY <1>9, FlushLevel, Zenon
<1>11. Paired(t.out)
    BY <1>1, <1>2, <1>10, LevelEnds, Zenon
<1> QED BY <1>3, <1>11

(* In every protocol.                                                        *)
LEMMA ParseStays ==
  ASSUME NEW proto, NEW w, Request(proto, w), Answered(proto, w)
  PROVE  Paired(ParseMessages(proto, w))
<1>1. proto \in {"chat", "anthropic", "responses"}
    BY DEF Request, Protos
<1>2. CASE proto = "chat"
  <2>1. Paired(ParseChat(w))
      BY <1>2, ChatStays
  <2> QED BY <1>2, <2>1 DEF ParseMessages
<1>3. CASE proto = "anthropic"
  <2>1. Paired(ParseAnthropic(w))
      BY <1>3, AnthropicStays
  <2> QED BY <1>3, <2>1 DEF ParseMessages
<1>4. CASE proto = "responses"
  <2>1. Paired(ParseResponses(w))
      BY <1>4, ResponsesStays
  <2> QED BY <1>4, <2>1 DEF ParseMessages
<1> QED BY <1>1, <1>2, <1>3, <1>4

(* So it is of every request of the invariant.                               *)
LEMMA BatchesStayHolds == ConvertInv => BatchesStay
<1> SUFFICES ASSUME ConvertInv, pc = "chat", Answered(in.proto, in.wire) PROVE Paired(chat)
    BY Zenon DEF BatchesStay
<1>1. Request(in.proto, in.wire) /\ chat = ParseMessages(in.proto, in.wire)
    BY Zenon DEF ConvertInv, Parsed
<1> QED BY <1>1, ParseStays, Zenon

(* Whatever the agent wrote: the calls of one turn and their results, given  *)
(* together and at once, are handed on together and at once.                 *)
THEOREM BatchesStayAlways == Spec => []BatchesStay
<1> QED BY ConvertTyping, BatchesStayHolds, PTL

-------------------------------------------------------------------------------
(* Parts of a history                                                        *)

(* What is drawn from a join is what is drawn from each part.                *)
LEMMA DrawnFlat ==
  ASSUME NEW S, NEW T, NEW G, Gives(G, S, T), NEW p \in Seq(Seq(S)), NEW q \in Seq(Seq(T)), Len(q) = Len(p),
         \A i \in 1 .. Len(p) : q[i] = Drawn(G, p[i])
  PROVE  /\ Drawn(G, FlattenSeq(p)) = FlattenSeq(q)
         /\ \A n \in 0 .. Len(p) : Drawn(G, Pre(p, n)) = Pre(q, n)
<1> DEFINE A == {n \in Nat : n <= Len(p) => Drawn(G, Pre(p, n)) = Pre(q, n)}
<1>0. \A u, v \in Seq(S) : Drawn(G, u \o v) = Drawn(G, u) \o Drawn(G, v)
    BY DrawnConcat
<1>1. Len(p) \in Nat
    BY SeqFacts, Zenon
<1>2. 0 \in A
  <2>1. Pre(p, 0) = <<>> /\ Pre(q, 0) = <<>>
      BY FlatNext, Zenon
  <2>2. Drawn(G, Pre(p, 0)) = Pre(q, 0)
      BY <2>1, DrawnEmpty, Zenon
  <2> QED BY <2>2
<1>3. ASSUME NEW n \in Nat, n \in A PROVE n + 1 \in A
  <2> SUFFICES ASSUME n + 1 <= Len(p) PROVE Drawn(G, Pre(p, n + 1)) = Pre(q, n + 1)
      OBVIOUS
  <2>1. n + 1 \in 1 .. Len(p) /\ n \in 0 .. Len(p) /\ n <= Len(p) /\ (n + 1) - 1 = n
      BY <1>1
  <2>2. Drawn(G, Pre(p, n)) = Pre(q, n)
      BY <1>3, <2>1
  <2>3. Pre(p, n + 1) = Pre(p, n) \o p[n + 1]
      BY <2>1, FlatNext
  <2>4. Pre(q, n + 1) = Pre(q, n) \o q[n + 1]
      BY <2>1, FlatNext
  <2>5. Pre(p, n) \in Seq(S) /\ p[n + 1] \in Seq(S)
    <3>1. Pre(p, n) \in Seq(S)
        BY <2>1, FlatIn, Zenon
    <3>2. p[n + 1] \in Seq(S)
        BY <2>1, SeqFacts, Zenon
    <3> QED BY <3>1, <3>2
  <2>6. q[n + 1] = Drawn(G, p[n + 1])
      BY <2>1
  <2>7. Drawn(G, Pre(p, n) \o p[n + 1]) = Drawn(G, Pre(p, n)) \o Drawn(G, p[n + 1])
    <3> DEFINE u == Pre(p, n)
               v == p[n + 1]
    <3> HIDE DEF u, v
    <3>1. u \in Seq(S) /\ v \in Seq(S)
        BY <2>5 DEF u, v
    <3>2. Drawn(G, u \o v) = Drawn(G, u) \o Drawn(G, v)
        BY <1>0, <3>1, Zenon
    <3> QED BY <3>2 DEF u, v
  <2> QED BY <2>2, <2>3, <2>4, <2>6, <2>7, Zenon
<1>4. \A n \in Nat : n \in A
  <2> HIDE DEF A
  <2> QED BY <1>2, <1>3, SetInduction
<1>5. \A n \in 0 .. Len(p) : Drawn(G, Pre(p, n)) = Pre(q, n)
    BY <1>1, <1>4
<1>6. FlattenSeq(p) = Pre(p, Len(p)) /\ FlattenSeq(q) = Pre(q, Len(q))
    BY FlatNext, Zenon
<1>7. Len(p) \in 0 .. Len(p)
    BY <1>1
<1> QED BY <1>5, <1>6, <1>7

(* A join of nothing is nothing.                                             *)
LEMMA FlatNothing ==
  ASSUME NEW S, NEW p \in Seq(Seq(S)), \A i \in 1 .. Len(p) : p[i] = <<>>
  PROVE  FlattenSeq(p) = <<>>
<1> DEFINE T == {<<>>}
<1>1. <<>> \in Seq(S) /\ <<>> \o <<>> = <<>>
    OBVIOUS
<1>2. T \subseteq Seq(S) /\ <<>> \in T /\ \A a, b \in T : a \o b \in T
    BY <1>1
<1>3. p \in Seq(T)
  <2>1. p = [i \in 1 .. Len(p) |-> p[i]] /\ Len(p) \in Nat
      BY SeqFacts, Zenon
  <2>2. \A i \in 1 .. Len(p) : p[i] \in T
      OBVIOUS
  <2> HIDE DEF T
  <2>3. p \in [1 .. Len(p) -> T]
      BY <2>1, <2>2
  <2> QED BY <2>1, <2>3, FunSeq
<1> HIDE DEF T
<1>4. FlattenSeq(p) \in T
    BY <1>2, <1>3, FlatClosed, Zenon
<1> QED BY <1>4 DEF T

(* Members that give nothing give nothing together.                          *)
LEMMA DrawnNothing ==
  ASSUME NEW S, NEW T, NEW G, Gives(G, S, T), NEW s \in Seq(S), \A i \in 1 .. Len(s) : G[s[i]] = <<>>
  PROVE  Drawn(G, s) = <<>>
<1>1. DrawsOf(G, s, T)
    BY DrawsIn, Zenon
<1>2. Draws(G, s) \in Seq(Seq(T)) /\ \A i \in 1 .. Len(Draws(G, s)) : Draws(G, s)[i] = <<>>
    BY <1>1 DEF DrawsOf
<1> QED BY <1>2, FlatNothing, Zenon DEF Drawn

(* Members that give nothing may be left out.                                *)
LEMMA DrawnThose ==
  ASSUME NEW S, NEW T, NEW G, Gives(G, S, T), NEW s \in Seq(S), NEW K,
         \A k \in 1 .. Len(s) : k \notin K => G[s[k]] = <<>>
  PROVE  Drawn(G, Those(s, K)) = Drawn(G, s)
<1> DEFINE p == ThoseParts(s, K)
           q == Draws(G, s)
<1>1. p \in Seq(Seq(S)) /\ Len(p) = Len(s) /\ \A k \in 1 .. Len(s) : p[k] = IF k \in K THEN << s[k] >> ELSE <<>>
    BY ThosePartsIn, Zenon
<1>2. DrawsOf(G, s, T)
    BY DrawsIn, Zenon
<1>3. q \in Seq(Seq(T)) /\ Len(q) = Len(s) /\ \A i \in 1 .. Len(s) : q[i] = G[s[i]]
    BY <1>2, Zenon DEF DrawsOf
<1>4. Those(s, K) = FlattenSeq(p) /\ Drawn(G, s) = FlattenSeq(q)
    BY Zenon DEF Those, ThoseParts, Drawn
<1> HIDE DEF p, q
<1>5. ASSUME NEW i \in 1 .. Len(p) PROVE q[i] = Drawn(G, p[i])
  <2>1. i \in 1 .. Len(s) /\ s[i] \in S
      BY <1>1, SeqFacts
  <2>2. CASE i \in K
    <3> DEFINE x == s[i]
    <3>1. p[i] = << x >> /\ x \in S /\ q[i] = G[x]
        BY <1>1, <1>3, <2>1, <2>2
    <3> HIDE DEF x
    <3>2. Drawn(G, << x >>) = G[x]
        BY <3>1, DrawnOne, Zenon
    <3> QED BY <3>1, <3>2, Zenon
  <2>3. CASE i \notin K
    <3>1. p[i] = <<>> /\ G[s[i]] = <<>>
        BY <1>1, <2>1, <2>3
    <3> QED BY <1>3, <2>1, <3>1, DrawnEmpty, Zenon
  <2> QED BY <2>2, <2>3
<1>6. Drawn(G, FlattenSeq(p)) = FlattenSeq(q)
    BY <1>1, <1>3, <1>5, DrawnFlat
<1> QED BY <1>4, <1>6

(* Nor do some of them.                                                      *)
LEMMA NothingOfThose ==
  ASSUME NEW S, NEW T, NEW G, Gives(G, S, T), NEW s \in Seq(S), NEW K,
         \A k \in 1 .. Len(s) : k \in K => G[s[k]] = <<>>
  PROVE  Drawn(G, Those(s, K)) = <<>>
<1> DEFINE t == Those(s, K)
<1>1. /\ t \in Seq(S)
      /\ \E f \in [1 .. Len(t) -> 1 .. Len(s)] : \A x \in 1 .. Len(t) : f[x] \in K /\ t[x] = s[f[x]]
    BY ThosePlaces
<1> HIDE DEF t
<1>2. \A x \in 1 .. Len(t) : G[t[x]] = <<>>
    BY <1>1
<1>3. t \in Seq(S)
    BY <1>1
<1>4. Drawn(G, t) = <<>>
    BY <1>2, <1>3, DrawnNothing, Zenon
<1> QED BY <1>4 DEF t

(* Sequences over a smaller set.                                             *)
LEMMA SeqWithin ==
  ASSUME NEW S, NEW T, S \subseteq T
  PROVE  Seq(S) \subseteq Seq(T)
<1> SUFFICES ASSUME NEW s \in Seq(S) PROVE s \in Seq(T)
    OBVIOUS
<1> DEFINE n == Len(s)
<1>1. n \in Nat /\ s = [i \in 1 .. n |-> s[i]] /\ \A i \in 1 .. n : s[i] \in S
    BY SeqFacts, Zenon
<1> HIDE DEF n
<1>2. s \in [1 .. n -> T]
    BY <1>1
<1> QED BY <1>1, <1>2, FunSeq

(* Keeping twice, and keeping none.                                          *)
LEMMA KeepTwice ==
  ASSUME NEW P, P \subseteq Int, NEW Q, NEW s \in Seq(Int)
  PROVE  Keep(Keep(s, P), Q) = Keep(s, P \cap Q)
<1> DEFINE F == KeepOne(P)
           G == KeepOne(Q)
           H == KeepOne(P \cap Q)
           p == Draws(F, s)
           q == Draws(H, s)
<1>1. Gives(F, Int, P) /\ Keep(s, P) = FlattenSeq(p) /\ Keep(s, P) \in Seq(Int)
  <2>1. Gives(F, Int, P) /\ Keep(s, P) = FlattenSeq(p) /\ Keep(s, P) \in Seq(P)
      BY KeepIs, Zenon DEF Drawn
  <2>2. Seq(P) \subseteq Seq(Int)
      BY SeqWithin, Zenon
  <2> QED BY <2>1, <2>2
<1>2. Gives(H, Int, P \cap Q) /\ Keep(s, P \cap Q) = FlattenSeq(q)
    BY KeepIs, Zenon DEF Drawn
<1>3. Gives(G, Int, Q) /\ \A t \in Seq(Int) : Keep(t, Q) = Drawn(G, t)
    BY KeepIs, Zenon
<1>4. DrawsOf(F, s, P) /\ DrawsOf(H, s, P \cap Q)
    BY <1>1, <1>2, DrawsIn, Zenon
<1>5. p \in Seq(Seq(P)) /\ Len(p) = Len(s) /\ \A i \in 1 .. Len(s) : p[i] = F[s[i]]
    BY <1>4, Zenon DEF DrawsOf
<1>6. q \in Seq(Seq(P \cap Q)) /\ Len(q) = Len(s) /\ \A i \in 1 .. Len(s) : q[i] = H[s[i]]
    BY <1>4, Zenon DEF DrawsOf
<1>7. p \in Seq(Seq(Int)) /\ q \in Seq(Seq(Q))
  <2>1. Seq(P) \subseteq Seq(Int)
      BY SeqWithin, Zenon
  <2>2. Seq(Seq(P)) \subseteq Seq(Seq(Int))
      BY <2>1, SeqWithin, Zenon
  <2>3. P \cap Q \subseteq Q
      OBVIOUS
  <2>4. Seq(P \cap Q) \subseteq Seq(Q)
      BY <2>3, SeqWithin, Zenon
  <2>5. Seq(Seq(P \cap Q)) \subseteq Seq(Seq(Q))
      BY <2>4, SeqWithin, Zenon
  <2> QED BY <1>5, <1>6, <2>2, <2>5
<1> HIDE DEF p, q
<1>8. ASSUME NEW i \in 1 .. Len(p) PROVE q[i] = Drawn(G, p[i])
  <2>1. i \in 1 .. Len(s) /\ s[i] \in Int
      BY <1>5, SeqFacts
  <2> DEFINE x == s[i]
  <2>2. F[x] = (IF x \in P THEN << x >> ELSE <<>>) /\ H[x] = (IF x \in P \cap Q THEN << x >> ELSE <<>>)
        /\ G[x] = (IF x \in Q THEN << x >> ELSE <<>>)
      BY <2>1 DEF KeepOne
  <2>3. p[i] = F[x] /\ q[i] = H[x]
      BY <1>5, <1>6, <2>1
  <2> HIDE DEF x, F, G, H
  <2>4. Drawn(G, << x >>) = G[x]
      BY <1>3, <2>1, DrawnOne, Zenon DEF x
  <2>5. Drawn(G, <<>>) = <<>>
      BY DrawnEmpty
  <2>6. CASE x \in P
      BY <2>2, <2>3, <2>4, <2>6, Zenon
  <2>7. CASE x \notin P
      BY <2>2, <2>3, <2>5, <2>7, Zenon
  <2> QED BY <2>6, <2>7
<1> HIDE DEF F, G, H
<1>9. Drawn(G, FlattenSeq(p)) = FlattenSeq(q)
    BY <1>3, <1>5, <1>6, <1>7, <1>8, DrawnFlat
<1> QED BY <1>1, <1>2, <1>3, <1>9, Zenon

(* Nothing is kept of what lies outside.                                     *)
LEMMA KeepNothing ==
  ASSUME NEW Q, NEW s \in Seq(Int), \A i \in 1 .. Len(s) : s[i] \notin Q
  PROVE  Keep(s, Q) = <<>>
<1> DEFINE K == {k \in DOMAIN s : s[k] \in Q}
<1>1. \A k \in 1 .. Len(s) : k \notin K
    OBVIOUS
<1> HIDE DEF K
<1>2. Those(s, K) = <<>>
    BY <1>1, ThoseNone, Zenon
<1> QED BY <1>2 DEF Keep, K

-------------------------------------------------------------------------------
(* What is spoken in a history                                               *)

(* What is heard of a message: its texts, less what the relay put into it    *)
(* and what a system message said.                                           *)
Heard(w)     == {x \in Int : x # Unavailable /\ w[x].k # "system"}
Voice(m, w)  == IF m.role \in {"user", "assistant"} THEN Keep(m.text, Heard(w)) ELSE <<>>
Voices(S, w) == [m \in S |-> Voice(m, w)]

(* What is spoken is what is heard of the messages, one by one.              *)
LEMMA SpokenParts ==
  ASSUME NEW w, NEW ms, \A i \in DOMAIN ms : ms[i].text \in Seq(Int)
  PROVE  Spoken(ms, w) = FlattenSeq([i \in DOMAIN ms |-> Voice(ms[i], w)])
<1>1. ASSUME NEW t \in Seq(Int)
      PROVE  Those(t, {k \in DOMAIN t : t[k] # Unavailable /\ w[t[k]].k # "system"}) = Keep(t, Heard(w))
  <2>1. DOMAIN t = 1 .. Len(t) /\ \A k \in 1 .. Len(t) : t[k] \in Int
      BY SeqFacts, Zenon
  <2>2. {k \in DOMAIN t : t[k] # Unavailable /\ w[t[k]].k # "system"} = {k \in DOMAIN t : t[k] \in Heard(w)}
      BY <2>1, Zenon DEF Heard
  <2> QED BY <2>2, Zenon DEF Keep
<1>2. \A i \in DOMAIN ms :
        (IF ms[i].role \in {"user", "assistant"}
         THEN Those(ms[i].text, {k \in DOMAIN ms[i].text : ms[i].text[k] # Unavailable /\ w[ms[i].text[k]].k # "system"})
         ELSE <<>>) = Voice(ms[i], w)
    BY <1>1, Zenon DEF Voice
<1>3. [i \in DOMAIN ms |->
        IF ms[i].role \in {"user", "assistant"}
        THEN Those(ms[i].text, {k \in DOMAIN ms[i].text : ms[i].text[k] # Unavailable /\ w[ms[i].text[k]].k # "system"})
        ELSE <<>>] = [i \in DOMAIN ms |-> Voice(ms[i], w)]
    BY <1>2, Zenon
<1> QED BY <1>3, Zenon DEF Spoken

(* What is heard of a message is a sequence of texts.                        *)
LEMMA VoiceIn ==
  ASSUME NEW w, NEW m, m.text \in Seq(Int)
  PROVE  Voice(m, w) \in Seq(Int)
<1>1. Heard(w) \subseteq Int
    BY DEF Heard
<1>2. Keep(m.text, Heard(w)) \in Seq(Heard(w))
    BY KeepIs, Zenon
<1>3. Keep(m.text, Heard(w)) \in Seq(Int)
    BY <1>1, <1>2, SeqWithin, Zenon
<1>4. <<>> \in Seq(Int)
    OBVIOUS
<1> QED BY <1>3, <1>4, Zenon DEF Voice

(* What is spoken is what the messages give when they are heard.             *)
LEMMA SpokenDrawn ==
  ASSUME NEW w, NEW S, \A m \in S : m.text \in Seq(Int)
  PROVE  /\ Gives(Voices(S, w), S, Int)
         /\ \A ms \in Seq(S) : Spoken(ms, w) = Drawn(Voices(S, w), ms)
<1>1. Gives(Voices(S, w), S, Int)
  <2>1. \A m \in S : Voice(m, w) \in Seq(Int)
      BY VoiceIn, Zenon
  <2> QED BY <2>1, Zenon DEF Gives, Voices
<1>2. ASSUME NEW ms \in Seq(S) PROVE Spoken(ms, w) = Drawn(Voices(S, w), ms)
  <2>1. DOMAIN ms = 1 .. Len(ms) /\ \A i \in 1 .. Len(ms) : ms[i] \in S
      BY SeqFacts, Zenon
  <2>2. Spoken(ms, w) = FlattenSeq([i \in DOMAIN ms |-> Voice(ms[i], w)])
      BY <2>1, SpokenParts, Zenon
  <2>3. \A i \in DOMAIN ms : Voices(S, w)[ms[i]] = Voice(ms[i], w)
      BY <2>1, Zenon DEF Voices
  <2>4. [i \in DOMAIN ms |-> Voice(ms[i], w)] = Draws(Voices(S, w), ms)
      BY <2>3, Zenon DEF Draws
  <2> QED BY <2>2, <2>4, Zenon DEF Drawn
<1> QED BY <1>1, <1>2

(* So it is for the messages of the relay.                                   *)
LEMMA SpokenOfMsgs ==
  ASSUME NEW w
  PROVE  /\ Gives(Voices(Msg, w), Msg, Int)
         /\ \A ms \in Seq(Msg) : Spoken(ms, w) = Drawn(Voices(Msg, w), ms)
<1>1. \A m \in Msg : m.text \in Seq(Int)
    BY MsgFacts, Zenon
<1> QED BY <1>1, SpokenDrawn, Zenon

(* Messages of which the same is heard, one by one.                          *)
LEMMA SameSpoken ==
  ASSUME NEW w, NEW a, NEW b, DOMAIN a = DOMAIN b,
         \A i \in DOMAIN a : a[i].text \in Seq(Int) /\ b[i].text \in Seq(Int) /\ Voice(a[i], w) = Voice(b[i], w)
  PROVE  Spoken(a, w) = Spoken(b, w)
<1>1. [i \in DOMAIN a |-> Voice(a[i], w)] = [i \in DOMAIN b |-> Voice(b[i], w)]
    BY Zenon
<1>2. /\ Spoken(a, w) = FlattenSeq([i \in DOMAIN a |-> Voice(a[i], w)])
      /\ Spoken(b, w) = FlattenSeq([i \in DOMAIN b |-> Voice(b[i], w)])
    BY SpokenParts, Zenon
<1> QED BY <1>1, <1>2

(* Words of the relay are not heard.                                         *)
LEMMA Unheard ==
  ASSUME NEW w, NEW t \in Seq(Int), NEW u \in Seq(Int), \A i \in 1 .. Len(u) : u[i] = Unavailable
  PROVE  t \o u \in Seq(Int) /\ Keep(t \o u, Heard(w)) = Keep(t, Heard(w))
<1>1. t \o u \in Seq(Int)
    OBVIOUS
<1>2. Keep(t \o u, Heard(w)) = Keep(t, Heard(w)) \o Keep(u, Heard(w))
    BY KeepConcat, Zenon
<1>3. \A i \in 1 .. Len(u) : u[i] \notin Heard(w)
    BY DEF Heard
<1>4. Keep(u, Heard(w)) = <<>>
    BY <1>3, KeepNothing, Zenon
<1>5. Keep(t, Heard(w)) \in Seq(Heard(w))
    BY KeepIs, Zenon
<1>6. Keep(t, Heard(w)) \o <<>> = Keep(t, Heard(w))
    BY <1>5
<1> QED BY <1>1, <1>2, <1>4, <1>6

-------------------------------------------------------------------------------
(* TA+3 gets what was spoken                                                 *)

(* A message of the history as TA+3 gets it: what is heard stays.            *)
LEMMA OpenAIVoice ==
  ASSUME NEW w, NEW m \in Msg, NEW ctx, NEW mode
  PROVE  /\ Ta3OpenAI(m, ctx, mode).text \in Seq(Int)
         /\ Voice(Ta3OpenAI(m, ctx, mode), w) = Voice(m, w)
<1>1. m \in MsgType /\ m.text \in Seq(Int)
    BY MsgFacts, Zenon DEF Msg
<1> DEFINE y == << Unavailable >>
           r == Ta3OpenAI(m, ctx, mode)
<1>2. r.role = m.role /\ (r.text = m.text \/ r.text = Append(m.text, Unavailable))
  <2>1. CASE m.role # "assistant"
      BY <2>1, Zenon DEF Ta3OpenAI
  <2>2. CASE m.role = "assistant" /\ m.calls = <<>>
    <3>1. r = [m EXCEPT !.think = <<>>, !.img = FALSE]
        BY <2>2, Zenon DEF Ta3OpenAI
    <3>2. \A f : [m EXCEPT !.think = <<>>, !.img = f].role = m.role /\ [m EXCEPT !.think = <<>>, !.img = f].text = m.text
        BY <1>1 DEF MsgType
    <3> QED BY <3>1, <3>2, Zenon
  <2>3. CASE m.role = "assistant" /\ m.calls # <<>>
    <3> DEFINE q == Numbered(Renamed(m.calls, mode))
               v == Append(m.text, Unavailable)
               f == FALSE
               e == <<>>
    <3>1. r = [m EXCEPT !.calls = q, !.img = f] \/ r = [m EXCEPT !.calls = e, !.text = v, !.img = f]
        BY <2>3, Zenon DEF Ta3OpenAI
    <3> SUFFICES r.role = m.role /\ (r.text = m.text \/ r.text = v)
        OBVIOUS
    <3> HIDE DEF q, v, f, e
    <3>2. [m EXCEPT !.calls = q, !.img = f].role = m.role /\ [m EXCEPT !.calls = q, !.img = f].text = m.text
        BY <1>1 DEF MsgType
    <3>3. [m EXCEPT !.calls = e, !.text = v, !.img = f].role = m.role /\ [m EXCEPT !.calls = e, !.text = v, !.img = f].text = v
        BY <1>1 DEF MsgType
    <3> HIDE DEF r
    <3> QED BY <3>1, <3>2, <3>3
  <2> QED BY <2>1, <2>2, <2>3
<1>3. Append(m.text, Unavailable) = m.text \o y /\ y \in Seq(Int) /\ Len(y) = 1 /\ y[1] = Unavailable
    BY <1>1 DEF Unavailable
<1> HIDE DEF y, r
<1>4. m.text \o y \in Seq(Int) /\ Keep(m.text \o y, Heard(w)) = Keep(m.text, Heard(w))
  <2>1. \A i \in 1 .. Len(y) : y[i] = Unavailable
      BY <1>3
  <2> QED BY <1>1, <1>3, <2>1, Unheard, Zenon
<1>5. r.text \in Seq(Int) /\ Keep(r.text, Heard(w)) = Keep(m.text, Heard(w))
    BY <1>1, <1>2, <1>3, <1>4, Zenon
<1>6. Voice(r, w) = Voice(m, w)
    BY <1>2, <1>5, Zenon DEF Voice
<1> QED BY <1>5, <1>6 DEF r

(* The same in the Anthropic format, where calls that are gone become texts  *)
(* of the relay.                                                             *)
LEMMA AnthropicVoice ==
  ASSUME NEW w, NEW u, NEW m \in Msg, NEW ctx, NEW mode
  PROVE  /\ Ta3Anthropic(u, m, ctx, mode).text \in Seq(Int)
         /\ Ta3Anthropic(u, m, ctx, mode).role = m.role
         /\ Voice(Ta3Anthropic(u, m, ctx, mode), w) = Voice(m, w)
<1>1. m \in MsgType /\ m.text \in Seq(Int) /\ m.calls \in Seq(CallType)
    BY MsgFacts, Zenon DEF Msg
<1> DEFINE known == {k \in DOMAIN m.calls : Known(m.calls[k].name, ctx, mode)}
           gone  == Those(m.calls, DOMAIN m.calls \ known)
           y     == [k \in DOMAIN gone |-> Unavailable]
           r     == Ta3Anthropic(u, m, ctx, mode)
<1>2. r.role = m.role /\ (r.text = m.text \/ r.text = m.text \o y)
  <2>1. CASE m.role # "assistant"
      BY <2>1, Zenon DEF Ta3Anthropic
  <2>2. CASE m.role = "assistant"
    <3> DEFINE q == Renamed(Those(m.calls, known), mode)
               v == m.text \o y
               h == IF m.calls # <<>> \/ u.family = "kimi" THEN m.think ELSE <<>>
               f == FALSE
    <3>1. r = [m EXCEPT !.calls = q, !.img = f, !.text  = v, !.think = h]
        BY <2>2, Zenon DEF Ta3Anthropic
    <3> SUFFICES r.role = m.role /\ r.text = v
        OBVIOUS
    <3> HIDE DEF q, v, h, f
    <3>2. /\ [m EXCEPT !.calls = q, !.img = f, !.text = v, !.think = h].role = m.role
          /\ [m EXCEPT !.calls = q, !.img = f, !.text = v, !.think = h].text = v
        BY <1>1 DEF MsgType
    <3> HIDE DEF r
    <3> QED BY <3>1, <3>2
  <2> QED BY <2>1, <2>2
<1>3. y \in Seq(Int) /\ \A i \in 1 .. Len(y) : y[i] = Unavailable
  <2>1. gone \in Seq(CallType)
    <3> DEFINE K == DOMAIN m.calls \ known
               c == m.calls
    <3> HIDE DEF K, c
    <3>1. c \in Seq(CallType)
        BY <1>1 DEF c
    <3>2. Those(c, K) \in Seq(CallType)
        BY <3>1, ThosePlaces
    <3> QED BY <3>2 DEF K, c
  <2>2. DOMAIN gone = 1 .. Len(gone) /\ Len(gone) \in Nat
      BY <2>1, SeqFacts, Zenon
  <2> HIDE DEF gone
  <2>3. y \in [1 .. Len(gone) -> Int] /\ \A i \in 1 .. Len(gone) : y[i] = Unavailable
      BY <2>2 DEF Unavailable
  <2> HIDE DEF y
  <2>4. y \in Seq(Int) /\ Len(y) = Len(gone)
      BY <2>2, <2>3, FunSeq
  <2> QED BY <2>3, <2>4
<1> HIDE DEF y, r
<1>4. m.text \o y \in Seq(Int) /\ Keep(m.text \o y, Heard(w)) = Keep(m.text, Heard(w))
    BY <1>1, <1>3, Unheard, Zenon
<1>5. r.text \in Seq(Int) /\ Keep(r.text, Heard(w)) = Keep(m.text, Heard(w))
    BY <1>1, <1>2, <1>4, Zenon
<1>6. Voice(r, w) = Voice(m, w)
    BY <1>2, <1>5, Zenon DEF Voice
<1> QED BY <1>2, <1>5, <1>6 DEF r

(* What TA+3 gets of a history: the system prompts apart in the Anthropic    *)
(* format, and assistants that say nothing left out.                         *)
Turns(u, ms, ctx, mode) == [i \in DOMAIN ms |-> Ta3Anthropic(u, ms[i], ctx, mode)]

(* TA+3 gets what was spoken, in both formats.                               *)
LEMMA Ta3Speaks ==
  ASSUME NEW w, NEW u, NEW ms \in Seq(Msg), NEW ctx, NEW mode
  PROVE  Spoken(Ta3Body(u, ms, ctx, mode), w) = Spoken(ms, w)
<1>1. DOMAIN ms = 1 .. Len(ms) /\ Len(ms) \in Nat /\ (\A i \in 1 .. Len(ms) : ms[i] \in Msg)
    BY SeqFacts, Zenon
<1>2. \A i \in DOMAIN ms : ms[i].text \in Seq(Int)
    BY <1>1, MsgFacts, Zenon
<1>3. CASE ~u.anthropic
  <2> DEFINE b == [i \in DOMAIN ms |-> Ta3OpenAI(ms[i], ctx, mode)]
  <2>1. \A i \in DOMAIN ms : b[i].text \in Seq(Int) /\ Voice(b[i], w) = Voice(ms[i], w)
      BY <1>1, OpenAIVoice, Zenon
  <2>2. DOMAIN b = DOMAIN ms /\ Ta3Body(u, ms, ctx, mode) = b
      BY <1>3, Zenon DEF Ta3Body
  <2> HIDE DEF b
  <2>3. Spoken(b, w) = Spoken(ms, w)
      BY <1>2, <2>1, <2>2, SameSpoken, Zenon
  <2> QED BY <2>2, <2>3
<1>4. CASE u.anthropic
  <2> DEFINE t == Turns(u, ms, ctx, mode)
             S == {t[i] : i \in DOMAIN ms}
             Blank(m) == m.role = "assistant" /\ m.text = <<>> /\ m.think = <<>> /\ m.calls = <<>>
             A == {i \in DOMAIN ms : t[i].role = "system"}
             B == {i \in DOMAIN ms : t[i].role # "system" /\ ~Blank(t[i])}
             G == Voices(S, w)
  <2>1. DOMAIN t = DOMAIN ms /\ \A i \in DOMAIN ms : t[i] = Ta3Anthropic(u, ms[i], ctx, mode)
      BY Zenon DEF Turns
  <2>2. Ta3Body(u, ms, ctx, mode) = Those(t, A) \o Those(t, B)
      BY <1>4, Zenon DEF Ta3Body, Turns
  <2> HIDE DEF t
  <2>3. \A i \in DOMAIN ms : t[i].text \in Seq(Int) /\ Voice(t[i], w) = Voice(ms[i], w)
    <3> SUFFICES ASSUME NEW i \in DOMAIN ms PROVE t[i].text \in Seq(Int) /\ Voice(t[i], w) = Voice(ms[i], w)
        OBVIOUS
    <3> DEFINE m == ms[i]
    <3>1. m \in Msg /\ t[i] = Ta3Anthropic(u, m, ctx, mode)
        BY <1>1, <2>1
    <3> HIDE DEF m
    <3>2. Ta3Anthropic(u, m, ctx, mode).text \in Seq(Int) /\ Voice(Ta3Anthropic(u, m, ctx, mode), w) = Voice(m, w)
        BY <3>1, AnthropicVoice
    <3> QED BY <3>1, <3>2 DEF m
  <2>4. \A m \in S : m.text \in Seq(Int)
      BY <2>3, Zenon
  <2>5. t \in Seq(S) /\ Len(t) = Len(ms)
    <3>1. \A i \in 1 .. Len(ms) : t[i] \in S
        BY <1>1, Zenon
    <3> HIDE DEF S
    <3>2. t \in [1 .. Len(ms) -> S]
      <4>1. t = [i \in 1 .. Len(ms) |-> t[i]]
          BY <1>1, <2>1, Zenon DEF Turns, t
      <4> QED BY <3>1, <4>1
    <3> QED BY <1>1, <3>2, FunSeq
  <2>6. Spoken(t, w) = Spoken(ms, w)
      BY <1>2, <2>1, <2>3, SameSpoken, Zenon
  <2>7. \A i \in DOMAIN ms : G[t[i]] = Voice(t[i], w)
      BY Zenon DEF Voices
  <2>8. \A i \in 1 .. Len(t) : i \in A => G[t[i]] = <<>>
      BY <1>1, <2>5, <2>7, Zenon DEF Voice
  <2>9. \A i \in 1 .. Len(t) : (i \notin A /\ i \notin B) => G[t[i]] = <<>>
    <3> SUFFICES ASSUME NEW i \in 1 .. Len(t), i \notin A, i \notin B PROVE G[t[i]] = <<>>
        OBVIOUS
    <3>1. i \in DOMAIN ms /\ t[i].role = "assistant" /\ t[i].text = <<>>
        BY <1>1, <2>5
    <3>2. Keep(t[i].text, Heard(w)) = <<>>
        BY <3>1, KeepNone, Zenon
    <3> QED BY <2>7, <3>1, <3>2, Zenon DEF Voice
  <2> HIDE DEF S, A, B
  <2>10. Gives(G, S, Int) /\ \A s \in Seq(S) : Spoken(s, w) = Drawn(G, s)
      BY <2>4, SpokenDrawn, Zenon
  <2> HIDE DEF G
  <2>11. Those(t, A) \in Seq(S) /\ Those(t, B) \in Seq(S)
      BY <2>5, ThosePlaces, Zenon
  <2>12. Drawn(G, Those(t, A)) = <<>>
    <3>1. \A k \in 1 .. Len(t) : k \in A => G[t[k]] = <<>>
        BY <2>8
    <3> QED BY <2>5, <2>10, <3>1, NothingOfThose
  <2>13. Drawn(G, Those(t, B)) = Drawn(G, t)
    <3>1. \A k \in 1 .. Len(t) : k \notin B => G[t[k]] = <<>>
        BY <2>8, <2>9, Zenon
    <3> QED BY <2>5, <2>10, <3>1, DrawnThose, Zenon
  <2>14. Drawn(G, Those(t, A) \o Those(t, B)) = Drawn(G, Those(t, A)) \o Drawn(G, Those(t, B))
    <3> DEFINE a == Those(t, A)
               b == Those(t, B)
    <3> HIDE DEF a, b
    <3>1. a \in Seq(S) /\ b \in Seq(S)
        BY <2>11 DEF a, b
    <3>2. Drawn(G, a \o b) = Drawn(G, a) \o Drawn(G, b)
        BY <2>10, <3>1, DrawnConcat
    <3> QED BY <3>2 DEF a, b
  <2>15. Those(t, A) \o Those(t, B) \in Seq(S)
      BY <2>11, ConcatFacts, Zenon
  <2>16. Drawn(G, t) \in Seq(Int)
    <3>1. DrawsOf(G, t, Int)
        BY <2>5, <2>10, DrawsIn, Zenon
    <3> QED BY <3>1, Zenon DEF DrawsOf
  <2>17. <<>> \o Drawn(G, t) = Drawn(G, t)
      BY <2>16
  <2> QED BY <2>2, <2>5, <2>6, <2>10, <2>12, <2>13, <2>14, <2>15, <2>17, Zenon
<1> QED BY <1>3, <1>4

-------------------------------------------------------------------------------
(* WorkBuddy gets what its repaired history says                             *)

(* The history N has the roles, the texts and the results of f but for the   *)
(* texts of system messages.                                                 *)
Echoes(f, N) ==
  /\ DOMAIN N = 1 .. Len(f) /\ N = [i \in DOMAIN N |-> N[i]]
  /\ \A i \in 1 .. Len(f) : /\ N[i].role = f[i].role /\ N[i].for = f[i].for /\ N[i].text \in Seq(Int)
                            /\ f[i].role # "system" => N[i].text = f[i].text

(* Reasoning that is filled in and prompts that are made neutral leave an    *)
(* echo.                                                                     *)
LEMMA NeutralEchoes ==
  ASSUME NEW f \in Seq(Msg), NEW b, Thoughtful(f, b)
  PROVE  Echoes(f, Neutralized(b))
<1>0. PICK rc : b = [i \in DOMAIN f |-> Reasoned(f[i], rc[i])]
    BY Zenon DEF Thoughtful
<1> DEFINE N == Neutralized(b)
<1>1. N = [i \in DOMAIN b |-> IF b[i].role = "system" /\ b[i].text # <<>>
                               THEN [b[i] EXCEPT !.text = << Neutral >>] ELSE b[i]]
    BY Zenon DEF Neutralized
<1> HIDE DEF N
<1>2. DOMAIN f = 1 .. Len(f) /\ \A i \in 1 .. Len(f) : f[i] \in Msg
    BY SeqFacts, Zenon
<1>3. DOMAIN N = 1 .. Len(f) /\ DOMAIN b = 1 .. Len(f) /\ N = [i \in DOMAIN N |-> N[i]]
    BY <1>0, <1>1, <1>2, Zenon
<1>4. ASSUME NEW i \in 1 .. Len(f)
      PROVE  /\ N[i].role = f[i].role /\ N[i].for = f[i].for /\ N[i].text \in Seq(Int)
             /\ f[i].role # "system" => N[i].text = f[i].text
  <2> DEFINE x == b[i]
             y == << Neutral >>
  <2>1. x = [role |-> f[i].role, text |-> f[i].text, img |-> f[i].img, think |-> f[i].think,
             calls |-> f[i].calls, for |-> f[i].for, rc |-> rc[i]]
      BY <1>0, <1>2, Zenon DEF Reasoned
  <2>2. f[i].text \in Seq(Int)
      BY <1>2, MsgFacts, Zenon
  <2>3. (x.role = "system" /\ N[i] = [x EXCEPT !.text = y]) \/ N[i] = x
      BY <1>1, <1>3, Zenon
  <2>4. y \in Seq(Int)
      BY DEF Neutral
  <2> HIDE DEF x, y
  <2>5. x.role = f[i].role /\ x.for = f[i].for /\ x.text = f[i].text
      BY <2>1
  <2>6. [x EXCEPT !.text = y].role = x.role /\ [x EXCEPT !.text = y].for = x.for /\ [x EXCEPT !.text = y].text = y
      BY <2>1
  <2> QED BY <2>2, <2>3, <2>4, <2>5, <2>6, Zenon
<1>5. Echoes(f, N)
    BY <1>3, <1>4, Zenon DEF Echoes
<1> QED BY <1>5 DEF N

(* An echo says the same, with or without the greeting.                      *)
LEMMA EchoSpeaks ==
  ASSUME NEW w, NEW f \in Seq(Msg), NEW N, Echoes(f, N)
  PROVE  /\ Spoken(N, w) = Spoken(f, w)
         /\ Spoken(<< Greeting >> \o N, w) = Spoken(f, w)
<1>1. /\ DOMAIN N = 1 .. Len(f) /\ N = [i \in 1 .. Len(f) |-> N[i]]
      /\ \A i \in 1 .. Len(f) : /\ N[i].role = f[i].role /\ N[i].text \in Seq(Int)
                                /\ f[i].role # "system" => N[i].text = f[i].text
    BY Zenon DEF Echoes
<1>2. DOMAIN f = 1 .. Len(f) /\ Len(f) \in Nat /\ \A i \in 1 .. Len(f) : f[i] \in Msg /\ f[i].text \in Seq(Int)
    BY SeqFacts, MsgFacts, Zenon
<1>3. "system" \notin {"user", "assistant"}
    OBVIOUS
<1>4. \A i \in 1 .. Len(f) : Voice(N[i], w) = Voice(f[i], w)
    BY <1>1, <1>3, Zenon DEF Voice
<1>5. Spoken(N, w) = Spoken(f, w)
    BY <1>1, <1>2, <1>4, SameSpoken, Zenon
<1> DEFINE S == {Greeting} \cup {N[i] : i \in 1 .. Len(f)}
           g == << Greeting >>
           G == Voices(S, w)
<1>6. Greeting.text \in Seq(Int)
  <2> DEFINE m == Message("system")
             y == << Console >>
             x == [m EXCEPT !.text = y]
  <2>1. m \in MsgType
      BY MessageFacts DEF Msg
  <2>2. y \in Seq(Int)
      BY DEF Console
  <2>3. Greeting.text = x.text
      BY Zenon DEF Greeting, Reasoned
  <2> HIDE DEF m, y
  <2>4. x.text = y
      BY <2>1 DEF MsgType
  <2> HIDE DEF x
  <2> QED BY <2>2, <2>3, <2>4
<1>7. \A m \in S : m.text \in Seq(Int)
    BY <1>1, <1>6, Zenon
<1>8. Greeting \in S /\ \A i \in 1 .. Len(f) : N[i] \in S
    BY Zenon
<1>9. g \in Seq(S)
    BY <1>8, One, Zenon
<1> HIDE DEF S
<1>10. N \in Seq(S)
  <2>1. N \in [1 .. Len(f) -> S]
      BY <1>1, <1>8, Zenon
  <2> QED BY <1>2, <2>1, FunSeq
<1>11. Gives(G, S, Int) /\ \A s \in Seq(S) : Spoken(s, w) = Drawn(G, s)
    BY <1>7, SpokenDrawn, Zenon
<1>12. Drawn(G, g) = <<>>
  <2>1. Drawn(G, << Greeting >>) = G[Greeting]
      BY <1>8, <1>11, DrawnOne, Zenon
  <2>2. G[Greeting] = Voice(Greeting, w)
      BY <1>8, Zenon DEF Voices
  <2>3. Greeting.role = "system"
      BY GreetingFacts
  <2>4. Voice(Greeting, w) = <<>>
      BY <1>3, <2>3, Zenon DEF Voice
  <2> QED BY <2>1, <2>2, <2>4
<1> HIDE DEF g, G
<1>13. Drawn(G, g \o N) = Drawn(G, g) \o Drawn(G, N)
    BY <1>9, <1>10, <1>11, DrawnConcat
<1>14. Drawn(G, N) \in Seq(Int)
  <2>1. DrawsOf(G, N, Int)
      BY <1>10, <1>11, DrawsIn, Zenon
  <2> QED BY <2>1, Zenon DEF DrawsOf
<1>15. g \o N \in Seq(S)
    BY <1>9, <1>10, ConcatFacts, Zenon
<1>16. <<>> \o Drawn(G, N) = Drawn(G, N)
    BY <1>14
<1>17. Spoken(g \o N, w) = Spoken(N, w)
    BY <1>10, <1>11, <1>12, <1>13, <1>15, <1>16, Zenon
<1> QED BY <1>5, <1>17 DEF g

(* What WorkBuddy gets: the repaired history, or the greeting before it.     *)
LEMMA WbBodyIs ==
  ASSUME NEW u, NEW e, NEW f, Repair(f) \in Seq(Msg)
  PROVE  \E N : Echoes(Repair(f), N) /\ (WbBody(u, f, e) = N \/ WbBody(u, f, e) = << Greeting >> \o N)
<1> DEFINE b == Backfill(u, Repair(f), e)
           N == Neutralized(b)
<1>1. Thoughtful(Repair(f), b)
    BY BackfillTraffic, Zenon
<1>2. Echoes(Repair(f), N)
    BY <1>1, NeutralEchoes, Zenon
<1>3. WbBody(u, f, e) = SystemFirst(u, N)
    BY Zenon DEF WbBody
<1> HIDE DEF N
<1>4. SystemFirst(u, N) = N \/ SystemFirst(u, N) = << Greeting >> \o N
    BY Zenon DEF SystemFirst, Greeting
<1> QED BY <1>2, <1>3, <1>4, Zenon

(* WorkBuddy gets what the repaired history says.                            *)
LEMMA WbSpeaks ==
  ASSUME NEW w, NEW u, NEW e, NEW f, Repair(f) \in Seq(Msg)
  PROVE  Spoken(WbBody(u, f, e), w) = Spoken(Repair(f), w)
<1>1. PICK N : Echoes(Repair(f), N) /\ (WbBody(u, f, e) = N \/ WbBody(u, f, e) = << Greeting >> \o N)
    BY WbBodyIs, Zenon
<1> QED BY <1>1, EchoSpeaks, Zenon

-------------------------------------------------------------------------------
(* The repair says what it was given                                         *)

(* What a message gives, the messages joined into it give.                   *)
Folds(G) == \A p, m \in Msg : Joins(p, m) => G[Join(p, m)] = G[p] \o G[m]

(* The fields of a join.                                                     *)
LEMMA JoinFields ==
  ASSUME NEW p \in Msg, NEW m \in Msg, Joins(p, m)
  PROVE  /\ p.role = "assistant" /\ m.role = "assistant"
         /\ Join(p, m) \in Msg /\ Join(p, m).role = "assistant" /\ Join(p, m).calls = p.calls \o m.calls
         /\ Join(p, m).text = IF m.calls = <<>> THEN m.text ELSE p.text
<1>1. IsHead(p) /\ p.role = "assistant" /\ m.role = "assistant"
    BY Zenon DEF Joins, IsHead
<1>2. Join(p, m) \in Msg
    BY <1>1, JoinFacts, Zenon
<1> DEFINE c == p.calls \o m.calls
           h == p.think \o m.think
           t == IF m.calls = <<>> THEN m.text ELSE p.text
           j == Join(p, m)
<1>3. j = [p EXCEPT !.calls = c, !.think = h, !.text = t]
    BY DEF Join
<1>4. p \in MsgType
    BY DEF Msg
<1> HIDE DEF c, h, t, j
<1>5. j.role = p.role /\ j.text = t /\ j.calls = c
    BY <1>3, <1>4 DEF MsgType
<1> QED BY <1>1, <1>2, <1>5, Zenon DEF t, j, c

(* The voice of a join.                                                      *)
LEMMA JoinVoice ==
  ASSUME NEW w
  PROVE  Folds(Voices(Msg, w))
<1> SUFFICES ASSUME NEW p \in Msg, NEW m \in Msg, Joins(p, m)
             PROVE  Voices(Msg, w)[Join(p, m)] = Voices(Msg, w)[p] \o Voices(Msg, w)[m]
    BY Zenon DEF Folds
<1>1. p.role = "assistant" /\ m.role = "assistant"
    BY JoinFields, Zenon
<1>2. Join(p, m) \in Msg
    BY JoinFields, Zenon
<1>3. Join(p, m).role = "assistant" /\ Join(p, m).text = IF m.calls = <<>> THEN m.text ELSE p.text
    BY JoinFields, Zenon
<1>4. p.text \in Seq(Int) /\ m.text \in Seq(Int)
    BY MsgFacts, Zenon
<1> DEFINE V == Heard(w)
<1>5. /\ Voice(Join(p, m), w) = Keep(Join(p, m).text, V)
      /\ Voice(p, w) = Keep(p.text, V) /\ Voice(m, w) = Keep(m.text, V)
    BY <1>1, <1>3, Zenon DEF Voice
<1>6. Keep(<<>>, V) = <<>>
    BY KeepNone, Zenon
<1>7. Keep(p.text, V) \in Seq(V) /\ Keep(m.text, V) \in Seq(V)
    BY <1>4, KeepIs, Zenon
<1> HIDE DEF V
<1>8. ASSUME m.calls = <<>> PROVE Voice(Join(p, m), w) = Voice(p, w) \o Voice(m, w)
  <2>1. p.text = <<>>
      BY <1>8 DEF Joins, NoText
  <2>2. Keep(p.text, V) \o Keep(m.text, V) = Keep(m.text, V)
      BY <1>6, <1>7, <2>1
  <2> QED BY <1>2, <1>3, <1>5, <1>8, <2>2
<1>9. ASSUME m.calls # <<>> PROVE Voice(Join(p, m), w) = Voice(p, w) \o Voice(m, w)
  <2>1. m.text = <<>>
      BY <1>9 DEF Joins, NoText
  <2>2. Keep(p.text, V) \o Keep(m.text, V) = Keep(p.text, V)
      BY <1>6, <1>7, <2>1
  <2> QED BY <1>2, <1>3, <1>5, <1>9, <2>2
<1>10. Voice(Join(p, m), w) = Voice(p, w) \o Voice(m, w)
    BY <1>8, <1>9
<1>11. Voices(Msg, w)[Join(p, m)] = Voice(Join(p, m), w)
    BY <1>2, Zenon DEF Voices
<1>12. Voices(Msg, w)[p] = Voice(p, w) /\ Voices(Msg, w)[m] = Voice(m, w)
    BY Zenon DEF Voices
<1> QED BY <1>10, <1>11, <1>12

(* Merging keeps what is drawn.                                              *)
LEMMA MergeStepDraws ==
  ASSUME NEW T, NEW G, Gives(G, Msg, T), Folds(G), NEW s \in Seq(Msg), NEW m \in Msg
  PROVE  Drawn(G, MergeStep(s, m)) = Drawn(G, s) \o G[m]
<1>1. Gives(G, Msg, T) /\ Folds(G)
    OBVIOUS
<1>2. \A x \in Msg : G[x] \in Seq(T)
    BY <1>1 DEF Gives
<1>3. CASE s # <<>> /\ Joins(Last(s), m)
  <2> DEFINE p == Last(s)
             f == Front(s)
             j == Join(Last(s), m)
  <2>1. p \in Msg /\ f \in Seq(Msg) /\ s = Append(f, p)
    <3>1. p \in Msg /\ f \in Seq(Msg)
        BY <1>3, LastFront, Zenon
    <3>2. s = Append(f, p)
      <4>1. s # <<>>
          BY <1>3
      <4> QED BY <4>1 DEF Last, Front
    <3> QED BY <3>1, <3>2
  <2>2. j \in Msg /\ G[j] = G[p] \o G[m]
    <3>1. j \in Msg
        BY <1>3, <2>1, JoinFields, Zenon
    <3> QED BY <1>1, <1>3, <2>1, <3>1, Zenon DEF Folds
  <2>3. MergeStep(s, m) = Append(f, j)
      BY <1>3, Zenon DEF MergeStep
  <2> HIDE DEF p, f, j
  <2>4. Drawn(G, Append(f, j)) = Drawn(G, f) \o G[j] /\ Drawn(G, Append(f, p)) = Drawn(G, f) \o G[p]
    <3>1. \A u \in Seq(Msg), x \in Msg : Drawn(G, Append(u, x)) = Drawn(G, u) \o G[x]
        BY <1>1, DrawnAppend
    <3>2. f \in Seq(Msg) /\ p \in Msg /\ j \in Msg
        BY <2>1, <2>2
    <3> QED BY <3>1, <3>2, Zenon
  <2>5. DrawsOf(G, f, T)
      BY <1>1, <2>1, DrawsIn, Zenon
  <2>6. Drawn(G, f) \in Seq(T)
      BY <2>5, Zenon DEF DrawsOf
  <2> DEFINE a == Drawn(G, f)
             b == G[p]
             c == G[m]
  <2>8. a \in Seq(T) /\ b \in Seq(T) /\ c \in Seq(T)
      BY <1>2, <2>1, <2>6
  <2>10. Drawn(G, MergeStep(s, m)) = a \o (b \o c)
      BY <2>2, <2>3, <2>4, Zenon
  <2>11. Drawn(G, s) = a \o b
      BY <2>1, <2>4, Zenon
  <2> HIDE DEF a, b, c
  <2>9. a \o (b \o c) = (a \o b) \o c
      BY <2>8
  <2> QED BY <2>9, <2>10, <2>11, Zenon DEF c
<1>4. CASE ~(s # <<>> /\ Joins(Last(s), m))
  <2>1. MergeStep(s, m) = Append(s, m)
      BY <1>4, Zenon DEF MergeStep
  <2>2. Drawn(G, Append(s, m)) = Drawn(G, s) \o G[m]
      BY <1>1, DrawnAppend, Zenon
  <2> QED BY <2>1, <2>2, Zenon
<1> QED BY <1>3, <1>4

(* So does the whole merge, for whatever joining folds.                      *)
LEMMA MergeDraws ==
  ASSUME NEW T, NEW G, Gives(G, Msg, T), Folds(G), NEW f \in Seq(Msg)
  PROVE  Merge(f) \in Seq(Msg) /\ Drawn(G, Merge(f)) = Drawn(G, f)
<1> DEFINE p == Draws(G, f)
           g == Merging(f)
           A == {n \in Nat : n <= Len(f) => g[n] \in Seq(Msg) /\ Drawn(G, g[n]) = Pre(p, n)}
<1>1. Gives(G, Msg, T) /\ Folds(G)
    OBVIOUS
<1>3. DrawsOf(G, f, T)
    BY <1>1, DrawsIn, Zenon
<1>4. p \in Seq(Seq(T)) /\ Len(p) = Len(f) /\ \A i \in 1 .. Len(f) : p[i] = G[f[i]]
    BY <1>3, Zenon DEF DrawsOf
<1>5. /\ Merge(f) = g[Len(f)] /\ g[0] = <<>>
      /\ \A n \in 1 .. Len(f) : g[n] = MergeStep(g[n - 1], f[n])
    BY MergingFacts
<1>6. Len(f) \in Nat /\ \A i \in 1 .. Len(f) : f[i] \in Msg
    BY SeqFacts, Zenon
<1>7. /\ FlattenSeq(p) = Pre(p, Len(p)) /\ Pre(p, 0) = <<>>
      /\ \A n \in 1 .. Len(p) : Pre(p, n) = Pre(p, n - 1) \o p[n]
    BY <1>4, FlatNext
<1>8. Drawn(G, f) = FlattenSeq(p)
    BY Zenon DEF Drawn
<1>9. \A s \in Seq(Msg), m \in Msg :
        MergeStep(s, m) \in Seq(Msg) /\ Drawn(G, MergeStep(s, m)) = Drawn(G, s) \o G[m]
    BY <1>1, MergeStepIn, MergeStepDraws, Zenon
<1> HIDE DEF p, g
<1>10. 0 \in A
  <2>1. g[0] \in Seq(Msg)
      BY <1>5
  <2>2. Drawn(G, g[0]) = Pre(p, 0)
      BY <1>5, <1>7, DrawnEmpty, Zenon
  <2> QED BY <2>1, <2>2
<1>11. ASSUME NEW n \in Nat, n \in A PROVE n + 1 \in A
  <2> SUFFICES ASSUME n + 1 <= Len(f) PROVE g[n + 1] \in Seq(Msg) /\ Drawn(G, g[n + 1]) = Pre(p, n + 1)
      OBVIOUS
  <2>1. n + 1 \in 1 .. Len(f) /\ n <= Len(f) /\ (n + 1) - 1 = n
      BY <1>6
  <2>2. g[n] \in Seq(Msg) /\ Drawn(G, g[n]) = Pre(p, n)
      BY <1>11, <2>1
  <2>3. g[n + 1] = MergeStep(g[n], f[n + 1]) /\ f[n + 1] \in Msg
      BY <1>5, <1>6, <2>1
  <2>4. Pre(p, n + 1) = Pre(p, n) \o G[f[n + 1]]
      BY <1>4, <1>6, <1>7, <2>1
  <2> QED BY <1>9, <2>2, <2>3, <2>4, Zenon
<1>12. \A n \in Nat : n \in A
  <2> HIDE DEF A
  <2> QED BY <1>10, <1>11, SetInduction
<1>13. Len(f) <= Len(f)
    BY <1>6
<1>14. g[Len(f)] \in Seq(Msg) /\ Drawn(G, g[Len(f)]) = Pre(p, Len(f))
    BY <1>6, <1>12, <1>13
<1> QED BY <1>4, <1>5, <1>7, <1>8, <1>14, Zenon

(* Merging says the same.                                                    *)
LEMMA MergeSpeaks ==
  ASSUME NEW w, NEW f \in Seq(Msg)
  PROVE  Merge(f) \in Seq(Msg) /\ Spoken(Merge(f), w) = Spoken(f, w)
<1> DEFINE G == Voices(Msg, w)
<1>1. Gives(G, Msg, Int) /\ \A ms \in Seq(Msg) : Spoken(ms, w) = Drawn(G, ms)
    BY SpokenOfMsgs, Zenon
<1>2. Folds(G)
    BY JoinVoice, Zenon
<1> HIDE DEF G
<1>3. Merge(f) \in Seq(Msg) /\ Drawn(G, Merge(f)) = Drawn(G, f)
    BY <1>1, <1>2, MergeDraws, Zenon
<1> QED BY <1>1, <1>3, Zenon

(* Results say nothing.                                                      *)
LEMMA ToolsAreDumb ==
  ASSUME NEW w, NEW s \in Seq(Msg), \A i \in 1 .. Len(s) : s[i].role = "tool"
  PROVE  Drawn(Voices(Msg, w), s) = <<>>
<1>1. Gives(Voices(Msg, w), Msg, Int)
    BY SpokenOfMsgs, Zenon
<1>2. \A i \in 1 .. Len(s) : Voices(Msg, w)[s[i]] = <<>>
  <2>1. \A i \in 1 .. Len(s) : s[i] \in Msg
      BY SeqFacts, Zenon
  <2>2. "tool" \notin {"user", "assistant"}
      OBVIOUS
  <2> QED BY <2>1, <2>2, Zenon DEF Voices, Voice
<1> QED BY <1>1, <1>2, DrawnNothing, Zenon

(* Stubs say nothing.                                                        *)
LEMMA FillSpeaks ==
  ASSUME NEW w, NEW f \in Seq(Msg)
  PROVE  Fill(f) \in Seq(Msg) /\ Spoken(Fill(f), w) = Spoken(f, w)
<1> DEFINE G == Voices(Msg, w)
           p == FillParts(f)
           q == Draws(G, f)
<1>1. Gives(G, Msg, Int) /\ \A ms \in Seq(Msg) : Spoken(ms, w) = Drawn(G, ms)
    BY SpokenOfMsgs, Zenon
<1>2. DrawsOf(G, f, Int)
    BY <1>1, DrawsIn, Zenon
<1>3. q \in Seq(Seq(Int)) /\ Len(q) = Len(f) /\ \A i \in 1 .. Len(f) : q[i] = G[f[i]]
    BY <1>2, Zenon DEF DrawsOf
<1>4. p \in Seq(Seq(Msg)) /\ Len(p) = Len(f) /\ Fill(f) = FlattenSeq(p) /\ Fill(f) \in Seq(Msg)
    BY FillPartsIn
<1>5. DOMAIN f = 1 .. Len(f) /\ \A i \in 1 .. Len(f) : f[i] \in Msg
    BY SeqFacts, Zenon
<1>6. \A i \in 1 .. Len(f) : p[i] = << f[i] >> \o Behind(f, i, ResultIds(f))
    BY <1>5, Zenon DEF FillParts
<1>7. Drawn(G, f) = FlattenSeq(q)
    BY Zenon DEF Drawn
<1> HIDE DEF p, q
<1>8. ASSUME NEW i \in 1 .. Len(p) PROVE q[i] = Drawn(G, p[i])
  <2>1. i \in 1 .. Len(f)
      BY <1>4
  <2> DEFINE x == f[i]
             b == Behind(f, i, ResultIds(f))
  <2>2. b \in Seq(Msg) /\ \A k \in 1 .. Len(b) : b[k].role = "tool"
      BY <2>1, BehindFacts DEF StubAt, StubOf
  <2>3. x \in Msg /\ q[i] = G[x] /\ p[i] = << x >> \o b
      BY <1>3, <1>5, <1>6, <2>1
  <2> HIDE DEF x, b
  <2>4. Drawn(G, b) = <<>>
      BY <2>2, ToolsAreDumb, Zenon
  <2> HIDE DEF G
  <2>5. Drawn(G, << x >>) = G[x]
      BY <1>1, <2>3, DrawnOne, Zenon
  <2>6. \A u, v \in Seq(Msg) : Drawn(G, u \o v) = Drawn(G, u) \o Drawn(G, v)
      BY <1>1, DrawnConcat
  <2>7. << x >> \in Seq(Msg)
      BY <2>3
  <2>8. G[x] \in Seq(Int)
      BY <1>1, <2>3 DEF Gives
  <2>9. Drawn(G, << x >> \o b) = G[x] \o <<>>
      BY <2>2, <2>4, <2>5, <2>6, <2>7, Zenon
  <2>10. G[x] \o <<>> = G[x]
      BY <2>8
  <2> QED BY <2>3, <2>9, <2>10, Zenon
<1> HIDE DEF G
<1>9. Drawn(G, FlattenSeq(p)) = FlattenSeq(q)
    BY <1>1, <1>3, <1>4, <1>8, DrawnFlat
<1> QED BY <1>1, <1>4, <1>7, <1>9, Zenon

(* Pruned messages say what they said, and only results are left out.        *)
LEMMA CleanSpeaks ==
  ASSUME NEW w, NEW f \in Seq(Msg), NEW K
  PROVE  Clean(f, K) \in Seq(Msg) /\ Spoken(Clean(f, K), w) = Spoken(f, w)
<1> DEFINE G == Voices(Msg, w)
           p == CleanParts(f, K)
           q == Draws(G, f)
<1>1. Gives(G, Msg, Int) /\ \A ms \in Seq(Msg) : Spoken(ms, w) = Drawn(G, ms)
    BY SpokenOfMsgs, Zenon
<1>2. DrawsOf(G, f, Int)
    BY <1>1, DrawsIn, Zenon
<1>3. q \in Seq(Seq(Int)) /\ Len(q) = Len(f) /\ \A i \in 1 .. Len(f) : q[i] = G[f[i]]
    BY <1>2, Zenon DEF DrawsOf
<1>4. p \in Seq(Seq(Msg)) /\ Len(p) = Len(f) /\ Clean(f, K) = FlattenSeq(p)
      /\ \A i \in 1 .. Len(f) : p[i] = CleanOne(f[i], K)
    BY CleanPartsIn
<1>5. Clean(f, K) \in Seq(Msg) /\ \A i \in 1 .. Len(f) : f[i] \in Msg
    BY CleanIn, SeqFacts, Zenon
<1>7. Drawn(G, f) = FlattenSeq(q)
    BY Zenon DEF Drawn
<1> HIDE DEF p, q
<1>8. ASSUME NEW i \in 1 .. Len(p) PROVE q[i] = Drawn(G, p[i])
  <2>1. i \in 1 .. Len(f)
      BY <1>4
  <2> DEFINE x == f[i]
             y == Pruned(f[i], K)
  <2>2. x \in Msg /\ q[i] = G[x] /\ p[i] = IF Gone(x, K) THEN <<>> ELSE << y >>
    <3>1. f[i] \in Msg
        BY <1>5, <2>1
    <3>2. CleanOne(f[i], K) = IF Gone(f[i], K) THEN <<>> ELSE << Pruned(f[i], K) >>
        BY <3>1, CleanOneFacts, Zenon
    <3> QED BY <1>3, <1>4, <2>1, <3>1, <3>2
  <2>3. y \in Msg /\ y.role = x.role
      BY <2>2, PrunedFacts, Zenon
  <2>4. y.text = x.text
    <3> DEFINE c == Those(x.calls, {k \in DOMAIN x.calls : x.calls[k].id \in K})
    <3>1. y = [x EXCEPT !.calls = c]
        BY DEF Pruned
    <3>2. x \in MsgType
        BY <2>2 DEF Msg
    <3> HIDE DEF c, x, y
    <3> QED BY <3>1, <3>2 DEF MsgType
  <2> HIDE DEF x, y
  <2>5. G[y] = G[x]
      BY <2>2, <2>3, <2>4, Zenon DEF Voices, Voice
  <2>6. Gone(x, K) => G[x] = <<>>
    <3>1. "tool" \notin {"user", "assistant"}
        OBVIOUS
    <3> QED BY <2>2, <3>1, Zenon DEF Voices, Voice, Gone
  <2> HIDE DEF G
  <2>7. Drawn(G, << y >>) = G[y]
      BY <1>1, <2>3, DrawnOne, Zenon
  <2>8. Drawn(G, <<>>) = <<>>
      BY DrawnEmpty, Zenon
  <2>9. CASE Gone(x, K)
      BY <2>2, <2>6, <2>8, <2>9, Zenon
  <2>10. CASE ~Gone(x, K)
      BY <2>2, <2>5, <2>7, <2>10, Zenon
  <2> QED BY <2>9, <2>10
<1> HIDE DEF G
<1>9. Drawn(G, FlattenSeq(p)) = FlattenSeq(q)
    BY <1>1, <1>3, <1>4, <1>8, DrawnFlat
<1> QED BY <1>1, <1>4, <1>5, <1>7, <1>9, Zenon

(* What is gathered says what the window said.                               *)
LEMMA GatheredSpeaks ==
  ASSUME NEW w, NEW m \in Msg, NEW v \in Seq(Msg)
  PROVE  Gathered(m, v) \in Seq(Msg) /\ Drawn(Voices(Msg, w), Gathered(m, v)) = Drawn(Voices(Msg, w), v)
<1> DEFINE G == Voices(Msg, w)
           c == FlattenSeq(ChosenParts(m, v))
           o == Others(m, v)
           T == {x \in Msg : x.role = "tool"}
<1>1. Gives(G, Msg, Int)
    BY SpokenOfMsgs, Zenon
<1>2. /\ ChosenParts(m, v) \in Seq(Seq(Msg)) /\ Len(ChosenParts(m, v)) = Len(m.calls)
      /\ \A k \in 1 .. Len(m.calls) : ChosenParts(m, v)[k] = Chosen(m, v, k)
      /\ o \in Seq(Msg) /\ Gathered(m, v) = c \o o
    BY GatheredFacts
<1>3. c \in Seq(T)
  <2>1. ASSUME NEW k \in 1 .. Len(m.calls) PROVE Chosen(m, v, k) \in Seq(T)
    <3>1. \/ Chosen(m, v, k) = <<>>
          \/ \E j \in 1 .. Len(v) : Chosen(m, v, k) = << v[j] >> /\ Answers(m, v[j])
        BY ChosenFacts
    <3>2. \A j \in 1 .. Len(v) : v[j] \in Msg
        BY SeqFacts, Zenon
    <3>3. CASE Chosen(m, v, k) = <<>>
        BY <3>3
    <3>4. CASE \E j \in 1 .. Len(v) : Chosen(m, v, k) = << v[j] >> /\ Answers(m, v[j])
      <4>1. PICK j \in 1 .. Len(v) : Chosen(m, v, k) = << v[j] >> /\ Answers(m, v[j])
          BY <3>4
      <4>2. v[j] \in T
          BY <3>2, <4>1 DEF Answers
      <4> HIDE DEF T
      <4>3. << v[j] >> \in Seq(T)
          BY <4>2
      <4> QED BY <4>1, <4>3
    <3> QED BY <3>1, <3>3, <3>4
  <2> DEFINE p == ChosenParts(m, v)
             n == Len(m.calls)
  <2>2. n \in Nat /\ p = [k \in 1 .. n |-> p[k]] /\ \A k \in 1 .. n : p[k] \in Seq(T)
    <3>1. n \in Nat
        BY MsgFacts, Zenon
    <3>2. p = [k \in 1 .. Len(p) |-> p[k]]
        BY <1>2, SeqFacts, Zenon
    <3> QED BY <1>2, <2>1, <3>1, <3>2
  <2> HIDE DEF p, n, T
  <2>3. p \in [1 .. n -> Seq(T)]
      BY <2>2
  <2>4. p \in Seq(Seq(T))
      BY <2>2, <2>3, FunSeq
  <2>5. FlattenSeq(p) \in Seq(T)
      BY <2>4, FlatIn
  <2> QED BY <2>5 DEF p
<1>4. c \in Seq(Msg) /\ \A i \in 1 .. Len(c) : c[i].role = "tool"
  <2>1. T \subseteq Msg
      OBVIOUS
  <2>2. Seq(T) \subseteq Seq(Msg)
      BY <2>1, SeqWithin, Zenon
  <2> HIDE DEF T, c
  <2>3. c \in Seq(Msg) /\ \A i \in 1 .. Len(c) : c[i] \in T
      BY <1>3, <2>2
  <2> QED BY <2>3 DEF T
<1>5. Drawn(G, c) = <<>>
    BY <1>4, ToolsAreDumb, Zenon
<1>6. Drawn(G, o) = Drawn(G, v)
  <2> DEFINE K == {k \in DOMAIN v : ~Answers(m, v[k])}
  <2>1. DOMAIN v = 1 .. Len(v) /\ \A k \in 1 .. Len(v) : v[k] \in Msg
      BY SeqFacts, Zenon
  <2>2. ASSUME NEW k \in 1 .. Len(v), k \notin K PROVE G[v[k]] = <<>>
    <3>1. v[k].role = "tool"
        BY <2>1, <2>2, Zenon DEF Answers
    <3>2. "tool" \notin {"user", "assistant"}
        OBVIOUS
    <3> QED BY <2>1, <3>1, <3>2, Zenon DEF Voices, Voice
  <2> HIDE DEF K, G
  <2>3. Drawn(G, Those(v, K)) = Drawn(G, v)
      BY <1>1, <2>2, DrawnThose
  <2> QED BY <2>3 DEF Others, K
<1> HIDE DEF G, c, o, T
<1>7. \A u, x \in Seq(Msg) : Drawn(G, u \o x) = Drawn(G, u) \o Drawn(G, x)
    BY <1>1, DrawnConcat
<1>8. Drawn(G, c \o o) = <<>> \o Drawn(G, v)
    BY <1>2, <1>4, <1>5, <1>6, <1>7, Zenon
<1>9. Drawn(G, v) \in Seq(Int)
  <2>1. DrawsOf(G, v, Int)
      BY <1>1, DrawsIn, Zenon
  <2> QED BY <2>1, Zenon DEF DrawsOf
<1>10. <<>> \o Drawn(G, v) = Drawn(G, v)
    BY <1>9
<1>11. c \o o \in Seq(Msg)
    BY <1>2, <1>4
<1> QED BY <1>2, <1>8, <1>10, <1>11, Zenon DEF G

(* The part of each message says what was said from one reach to the next.   *)
LEMMA PartSpeaks ==
  ASSUME NEW w, NEW f \in Seq(Msg), NEW i \in 1 .. Len(f)
  PROVE  Drawn(Voices(Msg, w), SubSeq(f, 1, Reach(f, i - 1))) \o Drawn(Voices(Msg, w), Part(f, i))
         = Drawn(Voices(Msg, w), SubSeq(f, 1, Reach(f, i)))
<1> DEFINE G == Voices(Msg, w)
<1> SUFFICES Drawn(G, SubSeq(f, 1, Reach(f, i - 1))) \o Drawn(G, Part(f, i)) = Drawn(G, SubSeq(f, 1, Reach(f, i)))
    OBVIOUS
<1>1. Gives(G, Msg, Int) /\ \A m \in Msg, v \in Seq(Msg) : Gathered(m, v) \in Seq(Msg) /\ Drawn(G, Gathered(m, v)) = Drawn(G, v)
  <2>1. Gives(G, Msg, Int)
      BY SpokenOfMsgs, Zenon
  <2>2. \A m \in Msg, v \in Seq(Msg) : Gathered(m, v) \in Seq(Msg) /\ Drawn(G, Gathered(m, v)) = Drawn(G, v)
      BY GatheredSpeaks, Zenon
  <2> QED BY <2>1, <2>2
<1> HIDE DEF G
<1>2. \A u, x \in Seq(Msg) : Drawn(G, u \o x) = Drawn(G, u) \o Drawn(G, x)
    BY <1>1, DrawnConcat
<1>3. f[i] \in Msg /\ << f[i] >> \in Seq(Msg) /\ SubSeq(f, 1, i - 1) \in Seq(Msg)
    OBVIOUS
<1>4. CASE IsHead(f[i])
  <2> DEFINE v == Window(f, i)
             g == Gathered(f[i], v)
             s == SubSeq(f, 1, i - 1)
             h == << f[i] >>
  <2>1. Part(f, i) = h \o g
      BY <1>4, Zenon DEF Part, Window
  <2>2. v \in Seq(Msg)
      BY WindowFacts, Zenon
  <2>3. Reach(f, i - 1) = i - 1 /\ Reach(f, i) = NextHead(f, i) - 1
      BY <1>4, ReachHead, Zenon
  <2>4. NextHead(f, i) - 1 \in i .. Len(f)
    <3>1. NextHead(f, i) \in i + 1 .. Len(f) + 1 /\ Len(f) \in Nat
        BY NextHeadFacts
    <3> QED BY <3>1
  <2>5. s \o (h \o v) = SubSeq(f, 1, NextHead(f, i) - 1)
      BY <2>4, SplitOne, Zenon DEF Window
  <2>6. g \in Seq(Msg) /\ Drawn(G, g) = Drawn(G, v)
      BY <1>1, <1>3, <2>2, Zenon
  <2>7. s \in Seq(Msg) /\ h \in Seq(Msg)
      BY <1>3
  <2>8. Part(f, i) = h \o g /\ SubSeq(f, 1, Reach(f, i - 1)) = s /\ SubSeq(f, 1, Reach(f, i)) = s \o (h \o v)
      BY <2>1, <2>3, <2>5, Zenon
  <2> HIDE DEF v, g, s, h
  <2>9. h \o v \in Seq(Msg)
      BY <2>2, <2>7
  <2>10. Drawn(G, h \o g) = Drawn(G, h \o v)
    <3>1. Drawn(G, h \o g) = Drawn(G, h) \o Drawn(G, g)
        BY <1>2, <2>6, <2>7, Zenon
    <3>2. Drawn(G, h \o v) = Drawn(G, h) \o Drawn(G, v)
        BY <1>2, <2>2, <2>7, Zenon
    <3> QED BY <2>6, <3>1, <3>2, Zenon
  <2>11. Drawn(G, s \o (h \o v)) = Drawn(G, s) \o Drawn(G, h \o v)
      BY <1>2, <2>7, <2>9, Zenon
  <2> QED BY <2>8, <2>10, <2>11, Zenon
<1>5. CASE ~IsHead(f[i]) /\ HeadIn(f, i - 1)
  <2>1. Part(f, i) = <<>>
      BY <1>5, Zenon DEF Part, HeadIn
  <2>2. Reach(f, i - 1) = Reach(f, i)
      BY <1>5, ReachInside, Zenon
  <2> DEFINE s == SubSeq(f, 1, Reach(f, i))
  <2>3. s \in Seq(Msg)
    <3>1. NextHead(f, i) - 1 \in i .. Len(f) /\ Len(f) \in Nat
        BY NextHeadFacts
    <3>2. Reach(f, i) = NextHead(f, i) - 1 \/ Reach(f, i) = i
        BY Zenon DEF Reach
    <3>3. Reach(f, i) \in 1 .. Len(f)
        BY <3>1, <3>2
    <3> QED BY <3>3
  <2> HIDE DEF s
  <2>4. Drawn(G, s) \in Seq(Int)
    <3>1. DrawsOf(G, s, Int)
        BY <1>1, <2>3, DrawsIn, Zenon
    <3> QED BY <3>1, Zenon DEF DrawsOf
  <2>5. Drawn(G, s) \o <<>> = Drawn(G, s)
      BY <2>4
  <2>6. Drawn(G, <<>>) = <<>>
      BY DrawnEmpty, Zenon
  <2> QED BY <2>1, <2>2, <2>5, <2>6, Zenon DEF s
<1>6. CASE ~IsHead(f[i]) /\ ~HeadIn(f, i - 1)
  <2>1. Part(f, i) = << f[i] >>
      BY <1>6, Zenon DEF Part, HeadIn
  <2>2. Reach(f, i - 1) = i - 1 /\ Reach(f, i) = i
      BY <1>6, ReachBefore, Zenon
  <2>3. i \in i .. Len(f)
      OBVIOUS
  <2>4. SubSeq(f, 1, i - 1) \o << f[i] >> = SubSeq(f, 1, i)
      BY <2>3, SplitOne, Zenon
  <2>5. Drawn(G, SubSeq(f, 1, i - 1) \o << f[i] >>) = Drawn(G, SubSeq(f, 1, i - 1)) \o Drawn(G, << f[i] >>)
      BY <1>2, <1>3, Zenon
  <2> QED BY <2>1, <2>2, <2>4, <2>5, Zenon
<1> QED BY <1>4, <1>5, <1>6

(* Gathering the results of each batch says the same.                        *)
LEMMA RepackSpeaks ==
  ASSUME NEW w, NEW f \in Seq(Msg)
  PROVE  Repack(f) \in Seq(Msg) /\ Spoken(Repack(f), w) = Spoken(f, w)
<1> DEFINE G == Voices(Msg, w)
           p == RepackParts(f)
           N == Len(f)
           I == {n \in Nat : n <= N => Drawn(G, Pre(p, n)) = Drawn(G, SubSeq(f, 1, Reach(f, n)))}
<1>0. N \in Nat /\ SubSeq(f, 1, 0) = <<>> /\ SubSeq(f, 1, N) = f
    OBVIOUS
<1>1. p \in Seq(Seq(Msg)) /\ Len(p) = N /\ \A i \in 1 .. N : p[i] = Part(f, i)
  <2>2. p \in Seq(Seq(Msg))
      BY PartsFrom, Zenon
  <2>3. DOMAIN f = 1 .. N
      OBVIOUS
  <2>4. p = [i \in 1 .. N |-> Part(f, i)]
      BY <2>3, Zenon DEF RepackParts
  <2> HIDE DEF p, N
  <2>5. Len(p) = N
      BY <1>0, <2>2, <2>4
  <2>6. \A i \in 1 .. N : p[i] = Part(f, i)
      BY <2>4, Zenon
  <2> QED BY <2>2, <2>5, <2>6
<1>2. Gives(G, Msg, Int) /\ \A ms \in Seq(Msg) : Spoken(ms, w) = Drawn(G, ms)
    BY SpokenOfMsgs, Zenon
<1>3. \A i \in 1 .. N : Drawn(G, SubSeq(f, 1, Reach(f, i - 1))) \o Drawn(G, Part(f, i))
                        = Drawn(G, SubSeq(f, 1, Reach(f, i)))
    BY PartSpeaks
<1> HIDE DEF p, G
<1>4. /\ FlattenSeq(p) = Pre(p, N) /\ Pre(p, 0) = <<>>
      /\ \A n \in 1 .. N : Pre(p, n) = Pre(p, n - 1) \o p[n]
    BY <1>1, FlatNext, Zenon
<1>5. \A n \in 0 .. N : Pre(p, n) \in Seq(Msg)
    BY <1>1, FlatIn
<1>6. \A u, x \in Seq(Msg) : Drawn(G, u \o x) = Drawn(G, u) \o Drawn(G, x)
    BY <1>2, DrawnConcat
<1>7. Reach(f, 0) = 0
  <2>1. ~HeadIn(f, 0)
    <3>1. \A h \in 1 .. 0 : FALSE
        OBVIOUS
    <3> QED BY <3>1, Zenon DEF HeadIn
  <2> QED BY <2>1, Zenon DEF Reach
<1>8. 0 \in I
    BY <1>0, <1>4, <1>7
<1>9. ASSUME NEW n \in Nat, n \in I PROVE n + 1 \in I
  <2> SUFFICES ASSUME n + 1 <= N PROVE Drawn(G, Pre(p, n + 1)) = Drawn(G, SubSeq(f, 1, Reach(f, n + 1)))
      OBVIOUS
  <2>1. n <= N /\ n + 1 \in 1 .. N /\ (n + 1) - 1 = n /\ n \in 0 .. N
      BY <1>0
  <2>2. Drawn(G, Pre(p, n)) = Drawn(G, SubSeq(f, 1, Reach(f, n)))
      BY <1>9, <2>1, Zenon
  <2>3. Pre(p, n + 1) = Pre(p, n) \o p[n + 1]
    <3>1. Pre(p, n + 1) = Pre(p, (n + 1) - 1) \o p[n + 1]
        BY <1>4, <2>1, Zenon
    <3> QED BY <2>1, <3>1
  <2>4. p[n + 1] \in Seq(Msg) /\ p[n + 1] = Part(f, n + 1) /\ Pre(p, n) \in Seq(Msg)
    <3>1. p[n + 1] \in Seq(Msg)
        BY <1>1, <2>1
    <3> QED BY <1>1, <1>5, <2>1, <3>1
  <2>5. Drawn(G, SubSeq(f, 1, Reach(f, n))) \o Drawn(G, Part(f, n + 1)) = Drawn(G, SubSeq(f, 1, Reach(f, n + 1)))
    <3>1. Drawn(G, SubSeq(f, 1, Reach(f, (n + 1) - 1))) \o Drawn(G, Part(f, n + 1))
          = Drawn(G, SubSeq(f, 1, Reach(f, n + 1)))
        BY <1>3, <2>1, Zenon
    <3> QED BY <2>1, <3>1
  <2>6. Drawn(G, Pre(p, n) \o p[n + 1]) = Drawn(G, Pre(p, n)) \o Drawn(G, p[n + 1])
      BY <1>6, <2>4, Zenon
  <2> QED BY <2>2, <2>3, <2>4, <2>5, <2>6, Zenon
<1> HIDE DEF I
<1>10. N \in I
    BY <1>0, <1>8, <1>9, SetInduction, Zenon
<1>11. Drawn(G, Pre(p, N)) = Drawn(G, SubSeq(f, 1, Reach(f, N)))
    BY <1>0, <1>10 DEF I
<1>12. Reach(f, N) = N
  <2>1. CASE HeadIn(f, N)
    <3>1. N \in 1 .. N
        BY <1>0, <2>1 DEF HeadIn
    <3>2. NextHead(f, N) \in N + 1 .. N + 1
        BY <3>1, NextHeadFacts, Zenon
    <3>3. NextHead(f, N) - 1 = N
        BY <1>0, <3>2
    <3> QED BY <2>1, <3>3, Zenon DEF Reach
  <2>2. CASE ~HeadIn(f, N)
      BY <2>2, Zenon DEF Reach
  <2> QED BY <2>1, <2>2
<1>13. Drawn(G, FlattenSeq(p)) = Drawn(G, f)
    BY <1>0, <1>4, <1>11, <1>12, Zenon
<1>14. Repack(f) \in Seq(Msg)
    BY RepackIn, Zenon
<1>15. Repack(f) = f \/ Repack(f) = FlattenSeq(p)
    BY Zenon DEF Repack, RepackParts, p
<1> QED BY <1>2, <1>13, <1>14, <1>15, Zenon

(* The repair takes away nothing that is spoken, and adds nothing.           *)
LEMMA RepairSpeaks ==
  ASSUME NEW w, NEW f \in Seq(Msg)
  PROVE  Repair(f) \in Seq(Msg) /\ Spoken(Repair(f), w) = Spoken(f, w)
<1> DEFINE a == Merge(f)
           b == Fill(a)
           c == Repack(b)
           d == Clean(c, Kept(c))
<1>1. a \in Seq(Msg) /\ Spoken(a, w) = Spoken(f, w)
    BY MergeSpeaks, Zenon
<1>2. b \in Seq(Msg) /\ Spoken(b, w) = Spoken(a, w)
    BY <1>1, FillSpeaks, Zenon
<1>3. c \in Seq(Msg) /\ Spoken(c, w) = Spoken(b, w)
    BY <1>2, RepackSpeaks, Zenon
<1>4. d \in Seq(Msg) /\ Spoken(d, w) = Spoken(c, w)
    BY <1>3, CleanSpeaks, Zenon
<1>5. Repair(f) = d
    BY Zenon DEF Repair, Cleanup
<1> QED BY <1>1, <1>2, <1>3, <1>4, <1>5, Zenon

-------------------------------------------------------------------------------
(* What is said in a request, and the groups that say it                     *)

(* The pieces with a text, those of them that the user or the assistant      *)
(* said, and what was said from a to b.                                      *)
TextPieces(w) == {i \in 1 .. Len(w) : w[i].k \in {"user", "say", "system"}}
SaidPieces(w) == {i \in 1 .. Len(w) : w[i].k \in {"user", "say"}}
SaidOf(w, a, b) == Keep(Positions(a, b), SaidPieces(w))

(* Pieces that are said have a text that is heard.                           *)
LEMMA SaidFacts ==
  ASSUME NEW w \in Wires
  PROVE  /\ TextPieces(w) \subseteq Int /\ SaidPieces(w) \subseteq Int
         /\ TextPieces(w) \cap Heard(w) = SaidPieces(w)
<1>1. \A i \in 1 .. Len(w) : i \in Int /\ i # Unavailable
  <2>1. Len(w) \in Nat
      BY WireFacts
  <2> QED BY <2>1 DEF Unavailable
<1>2. "user" # "system" /\ "say" # "system"
    OBVIOUS
<1>3. TextPieces(w) \subseteq Int /\ SaidPieces(w) \subseteq Int
    BY <1>1, Zenon DEF TextPieces, SaidPieces
<1>4. \A i : i \in TextPieces(w) \cap Heard(w) <=> i \in SaidPieces(w)
    BY <1>1, <1>2, Zenon DEF TextPieces, SaidPieces, Heard
<1> QED BY <1>3, <1>4, Zenon

(* Everything that is said is said from the first piece to the last.         *)
LEMMA SaidIs ==
  ASSUME NEW w \in Wires
  PROVE  Said(w) = SaidOf(w, 1, Len(w))
<1> DEFINE n == Len(w)
           p == Positions(1, n)
           Q == SaidPieces(w)
<1>1. n \in Nat /\ DOMAIN w = 1 .. n
    BY WireFacts
<1>2. p = [i \in 1 .. n |-> i]
  <2>1. n - 1 + 1 = n /\ \A k \in 1 .. n : 1 + k - 1 = k
      BY <1>1
  <2> HIDE DEF n
  <2> QED BY <2>1 DEF Positions
<1> HIDE DEF p
<1>3. DOMAIN p = 1 .. n /\ \A k \in 1 .. n : p[k] = k
    BY <1>2, Zenon
<1>4. {k \in DOMAIN p : p[k] \in Q} = {i \in DOMAIN w : w[i].k \in {"user", "say"}}
    BY <1>1, <1>3, Zenon DEF SaidPieces
<1>5. p = [i \in DOMAIN w |-> i]
    BY <1>1, <1>2, Zenon
<1> QED BY <1>4, <1>5, Zenon DEF Said, SaidOf, Keep, p

(* Positions up to n and after n.                                            *)
LEMMA PositionsJoin ==
  ASSUME NEW n \in Nat, NEW b \in Nat, n < b
  PROVE  Positions(1, b) = Positions(1, n) \o Positions(n + 1, b)
<1> DEFINE p == Positions(1, b)
           q == Positions(1, n)
           r == Positions(n + 1, b)
           l == b - n
<1>1. l \in Nat /\ b = n + l /\ b - 1 + 1 = b /\ n - 1 + 1 = n /\ b - (n + 1) + 1 = l
      /\ (\A k \in 1 .. b : 1 + k - 1 = k) /\ (\A k \in 1 .. n : 1 + k - 1 = k)
      /\ (\A k \in 1 .. l : (n + 1) + k - 1 = n + k)
    OBVIOUS
<1>2. p = [k \in 1 .. b |-> k] /\ q = [k \in 1 .. n |-> k] /\ r = [k \in 1 .. l |-> n + k]
  <2> HIDE DEF l
  <2>1. p = [k \in 1 .. b |-> k]
      BY <1>1 DEF Positions
  <2>2. q = [k \in 1 .. n |-> k]
      BY <1>1 DEF Positions
  <2>3. r = [k \in 1 .. l |-> n + k]
      BY <1>1 DEF Positions
  <2> QED BY <2>1, <2>2, <2>3
<1> HIDE DEF p, q, r, l
<1>3. p \in Seq(Int) /\ Len(p) = b /\ q \in Seq(Int) /\ Len(q) = n /\ r \in Seq(Int) /\ Len(r) = l
    BY <1>1, <1>2
<1>4. q \o r \in Seq(Int) /\ Len(q \o r) = b
  <2>1. q \o r \in Seq(Int) /\ Len(q \o r) = Len(q) + Len(r)
      BY <1>3, ConcatFacts, Zenon
  <2> QED BY <1>1, <1>3, <2>1
<1>5. ASSUME NEW k \in 1 .. b PROVE p[k] = (q \o r)[k]
  <2>1. p[k] = k
      BY <1>2
  <2>2. CASE k \in 1 .. n
    <3>1. (q \o r)[k] = q[k]
        BY <1>3, <2>2
    <3>2. q[k] = k
        BY <1>2, <2>2
    <3> QED BY <2>1, <3>1, <3>2
  <2>3. CASE k \notin 1 .. n
    <3>1. k - n \in 1 .. l /\ k = n + (k - n)
        BY <1>1, <2>3
    <3>2. (q \o r)[k] = r[k - n]
        BY <1>3, <2>3, <3>1
    <3>3. r[k - n] = n + (k - n)
        BY <1>2, <3>1
    <3> QED BY <2>1, <3>1, <3>2, <3>3
  <2> QED BY <2>2, <2>3
<1>6. p = q \o r
    BY <1>3, <1>4, <1>5, SeqEqual
<1> QED BY <1>6 DEF p, q, r

(* What is said up to b is said before a or from a to b.                     *)
LEMMA SaidJoin ==
  ASSUME NEW w \in Wires, NEW a \in 1 .. Len(w), NEW b \in a .. Len(w)
  PROVE  /\ SaidOf(w, 1, b) = SaidOf(w, 1, a - 1) \o SaidOf(w, a, b)
         /\ SaidOf(w, 1, a - 1) \in Seq(Int) /\ SaidOf(w, a, b) \in Seq(Int)
<1> DEFINE n == a - 1
           Q == SaidPieces(w)
<1>1. n \in Nat /\ b \in Nat /\ n < b /\ a = n + 1 /\ 1 <= n + 1 /\ n + 1 <= b + 1 /\ n + 1 \in Nat /\ 1 \in Nat
  <2>1. Len(w) \in Nat
      BY WireFacts
  <2> QED BY <2>1
<1> HIDE DEF n, Q
<1>2. Positions(1, b) = Positions(1, n) \o Positions(n + 1, b)
    BY <1>1, PositionsJoin
<1>3. Positions(1, n) \in Seq(Int) /\ Positions(n + 1, b) \in Seq(Int)
    BY <1>1, PositionsFacts
<1>4. Keep(Positions(1, b), Q) = Keep(Positions(1, n), Q) \o Keep(Positions(n + 1, b), Q)
    BY <1>2, <1>3, KeepConcat, Zenon
<1>5. Keep(Positions(1, n), Q) \in Seq(Q) /\ Keep(Positions(n + 1, b), Q) \in Seq(Q)
    BY <1>3, KeepIs, Zenon
<1>6. Seq(Q) \subseteq Seq(Int)
  <2>1. Q \subseteq Int
      BY SaidFacts, Zenon DEF Q
  <2> QED BY <2>1, SeqWithin, Zenon
<1> QED BY <1>1, <1>4, <1>5, <1>6 DEF SaidOf, n, Q

(* Pieces that are not said say nothing.                                     *)
LEMMA SilentPieces ==
  ASSUME NEW w \in Wires, NEW a \in 1 .. Len(w), NEW b \in a .. Len(w), \A i \in a .. b : i \notin SaidPieces(w)
  PROVE  SaidOf(w, a, b) = <<>>
<1> DEFINE p == Positions(a, b)
           n == b - a + 1
<1>1. n \in Nat /\ \A k \in 1 .. n : a + k - 1 \in a .. b
  <2>1. Len(w) \in Nat
      BY WireFacts
  <2> QED BY <2>1
<1>2. p = [k \in 1 .. n |-> a + k - 1]
    BY DEF Positions
<1> HIDE DEF p, n
<1>3. p \in Seq(Int) /\ Len(p) = n /\ \A k \in 1 .. n : p[k] \in a .. b
  <2>1. p \in [1 .. n -> a .. b]
      BY <1>1, <1>2
  <2>2. p \in Seq(a .. b) /\ Len(p) = n
      BY <1>1, <2>1, FunSeq
  <2>3. a .. b \subseteq Int
      OBVIOUS
  <2>4. p \in Seq(Int)
      BY <2>2, <2>3, SeqWithin, Zenon
  <2> QED BY <2>1, <2>2, <2>4
<1>4. \A k \in 1 .. Len(p) : p[k] \notin SaidPieces(w)
    BY <1>3, Zenon
<1>5. Keep(p, SaidPieces(w)) = <<>>
    BY <1>3, <1>4, KeepNothing, Zenon
<1> QED BY <1>5 DEF SaidOf, p

(* The texts of a group are those of its pieces, and so is what is heard.    *)
LEMMA GroupedText ==
  ASSUME NEW proto, NEW role \in Roles, NEW w \in Wires, NEW a \in 1 .. Len(w), NEW b \in a .. Len(w)
  PROVE  /\ Grouped(proto, role, w, a, b).text = Keep(Positions(a, b), TextPieces(w))
         /\ Grouped(proto, role, w, a, b).text \in Seq(Int)
         /\ Grouped(proto, role, w, a, b).role = role
<1> DEFINE K == {k \in 1 .. b - a + 1 : w[a + k - 1].k \in {"user", "say", "system"}}
           t == Those(Positions(a, b), K)
           h == Those(Positions(a, b), {k \in 1 .. b - a + 1 : w[a + k - 1].k = "think"})
           g == \E i \in a .. b : w[i].k = "image"
           c == MadeCalls(proto, w, GroupCalls(w, a, b))
           r == Message(role)
           C == TextPieces(w)
           m == Grouped(proto, role, w, a, b)
<1>1. a \in Nat /\ b \in Nat /\ a <= b + 1 /\ \A k \in 1 .. b - a + 1 : a + k - 1 \in 1 .. Len(w)
  <2>1. Len(w) \in Nat
      BY WireFacts
  <2> QED BY <2>1
<1>2. m = Filled(r, t, g, h, c)
    BY Zenon DEF Grouped, Pick, Positions, Filled, MadeCalls, GroupCalls
<1>3. r \in MsgType /\ r.role = role
    BY MessageFacts, Zenon DEF Msg, Roles
<1>4. t = Keep(Positions(a, b), C)
  <2>1. \A k \in 1 .. b - a + 1 : k \in K <=> a + k - 1 \in C
      BY <1>1, Zenon DEF TextPieces
  <2> HIDE DEF K, C
  <2>2. Those(Positions(a, b), K) = Keep(Positions(a, b), C)
      BY <1>1, <2>1, PickIsKeep
  <2> QED BY <2>2, Zenon
<1>5. t \in Seq(Int)
  <2>1. Positions(a, b) \in Seq(Int)
      BY <1>1, PositionsFacts, Zenon
  <2>2. t \in Seq(C)
      BY <1>4, <2>1, KeepIs, Zenon
  <2>3. C \subseteq Int
      BY SaidFacts, Zenon
  <2>4. Seq(C) \subseteq Seq(Int)
      BY <2>3, SeqWithin, Zenon
  <2> QED BY <2>2, <2>4
<1> HIDE DEF t, g, h, c, r, m, K
<1>6. m.text = t
  <2>1. Filled(r, t, g, h, c).text = t
      BY <1>3, FilledFields
  <2> QED BY <1>2, <2>1, Zenon
<1>7. m.role = r.role
  <2>1. m = [r EXCEPT !.text = t, !.img = g, !.think = h, !.calls = c]
      BY <1>2, Zenon DEF Filled
  <2> QED BY <1>3, <2>1 DEF MsgType
<1> QED BY <1>3, <1>4, <1>5, <1>6, <1>7, Zenon DEF m, C

(* A message of a group is heard as its pieces are said, if it has a voice   *)
(* or they do not.                                                           *)
LEMMA GroupedVoice ==
  ASSUME NEW proto, NEW role \in Roles, NEW w \in Wires, NEW a \in 1 .. Len(w), NEW b \in a .. Len(w),
         role \notin {"user", "assistant"} => \A i \in a .. b : i \notin SaidPieces(w)
  PROVE  Voice(Grouped(proto, role, w, a, b), w) = SaidOf(w, a, b)
<1> DEFINE m == Grouped(proto, role, w, a, b)
           p == Positions(a, b)
<1>1. m.text = Keep(p, TextPieces(w)) /\ m.role = role
    BY GroupedText
<1>2. CASE role \in {"user", "assistant"}
  <2>1. p \in Seq(Int)
    <3>1. a \in Nat /\ b \in Nat /\ a <= b + 1
      <4>1. Len(w) \in Nat
          BY WireFacts
      <4> QED BY <4>1
    <3> QED BY <3>1, PositionsFacts
  <2>2. TextPieces(w) \subseteq Int /\ TextPieces(w) \cap Heard(w) = SaidPieces(w)
      BY SaidFacts, Zenon
  <2>3. Voice(m, w) = Keep(Keep(p, TextPieces(w)), Heard(w))
      BY <1>1, <1>2, Zenon DEF Voice
  <2>4. Keep(Keep(p, TextPieces(w)), Heard(w)) = Keep(p, TextPieces(w) \cap Heard(w))
      BY <2>1, <2>2, KeepTwice, Zenon
  <2> QED BY <2>2, <2>3, <2>4, Zenon DEF SaidOf
<1>3. CASE role \notin {"user", "assistant"}
  <2>1. SaidOf(w, a, b) = <<>>
      BY <1>3, SilentPieces, Zenon
  <2> QED BY <1>1, <1>3, <2>1, Zenon DEF Voice
<1> QED BY <1>2, <1>3

(* If the messages of each group say what its pieces say, so does the        *)
(* history.                                                                  *)
LEMMA GroupsSpeak ==
  ASSUME NEW proto, NEW w \in Wires, Glued(proto, w), NEW p \in Seq(Seq(Msg)), Len(p) = Len(w),
         \A i \in 1 .. Len(w) : w[i].glue => p[i] = <<>>,
         \A i \in 1 .. Len(w) : ~w[i].glue => Drawn(Voices(Msg, w), p[i]) = SaidOf(w, i, GroupEnd(w, i))
  PROVE  Spoken(FlattenSeq(p), w) = Said(w)
<1> DEFINE G == Voices(Msg, w)
           T == {n \in 0 .. Len(w) : Drawn(G, Pre(p, n)) = SaidOf(w, 1, n)}
<1>1. Gives(G, Msg, Int) /\ \A ms \in Seq(Msg) : Spoken(ms, w) = Drawn(G, ms)
    BY SpokenOfMsgs, Zenon
<1>2. Len(w) \in Nat
    BY WireFacts
<1>3. \A i \in 1 .. Len(w) : ~w[i].glue => Drawn(G, p[i]) = SaidOf(w, i, GroupEnd(w, i))
    OBVIOUS
<1> HIDE DEF G
<1>4. \A u, x \in Seq(Msg) : Drawn(G, u \o x) = Drawn(G, u) \o Drawn(G, x)
    BY <1>1, DrawnConcat
<1>5. FlattenSeq(p) = Pre(p, Len(p)) /\ Pre(p, 0) = <<>> /\ FlattenSeq(p) \in Seq(Msg)
  <2>1. FlattenSeq(p) = Pre(p, Len(p)) /\ Pre(p, 0) = <<>>
      BY FlatNext, Zenon
  <2>2. FlattenSeq(p) \in Seq(Msg)
      BY FlatIn
  <2> QED BY <2>1, <2>2
<1>6. 0 \in T
  <2>1. SaidOf(w, 1, 0) = <<>>
    <3>1. Positions(1, 0) = <<>>
      <4>1. 1 \in Nat /\ 0 \in Nat /\ 1 <= 0 + 1 /\ 0 < 1
          OBVIOUS
      <4> QED BY <4>1, PositionsFacts, Zenon
    <3> QED BY <3>1, KeepNone, Zenon DEF SaidOf
  <2>2. Drawn(G, <<>>) = <<>>
      BY DrawnEmpty, Zenon
  <2> QED BY <1>2, <1>5, <2>1, <2>2
<1>7. ASSUME NEW a \in 1 .. Len(w), ~w[a].glue, a - 1 \in T PROVE GroupEnd(w, a) \in T
  <2> DEFINE e == GroupEnd(w, a)
             s == Pre(p, a - 1)
  <2>1. e \in a .. Len(w) /\ e \in 0 .. Len(w)
    <3>1. e \in a .. Len(w)
        BY GroupEndFacts, Zenon
    <3> QED BY <1>2, <3>1
  <2>2. Pre(p, e) = s \o p[a] /\ s \in Seq(Msg) /\ p[a] \in Seq(Msg)
      BY GroupPre, Zenon
  <2>3. Drawn(G, s) = SaidOf(w, 1, a - 1)
      BY <1>7
  <2>4. Drawn(G, p[a]) = SaidOf(w, a, e)
      BY <1>3, <1>7, Zenon
  <2> HIDE DEF e, s, T
  <2>5. SaidOf(w, 1, e) = SaidOf(w, 1, a - 1) \o SaidOf(w, a, e)
      BY <2>1, SaidJoin, Zenon
  <2>6. Drawn(G, s \o p[a]) = Drawn(G, s) \o Drawn(G, p[a])
      BY <1>4, <2>2, Zenon
  <2>7. Drawn(G, Pre(p, e)) = SaidOf(w, 1, e)
      BY <2>2, <2>3, <2>4, <2>5, <2>6, Zenon
  <2> QED BY <2>1, <2>7 DEF e, T
<1> HIDE DEF T
<1>8. Len(w) \in T
    BY <1>6, <1>7, GroupSteps, Zenon
<1>9. Drawn(G, Pre(p, Len(w))) = SaidOf(w, 1, Len(w))
    BY <1>8, Zenon DEF T
<1>10. Said(w) = SaidOf(w, 1, Len(w))
    BY SaidIs, Zenon
<1> QED BY <1>1, <1>5, <1>9, <1>10, Zenon

(* Pieces that are said are on the side of the user or of the assistant.     *)
LEMMA SaidSide ==
  ASSUME NEW proto, NEW a, a.k \in {"user", "say"}
  PROVE  Side(proto, a) \in {"user", "assistant"} /\ ~IsResult(a) /\ ~IsCall(a)
<1>1. ~IsCall(a) /\ ~IsResult(a)
    BY DEF IsCall, IsResult, Calls, Results
<1>2. CASE a.k = "say"
    BY <1>1, <1>2 DEF Side
<1>3. CASE a.k = "user"
    BY <1>1, <1>3 DEF Side
<1> QED BY <1>1, <1>2, <1>3

(* Chat: each group is one message, a result or a message of its side.       *)
LEMMA ChatSpeaks ==
  ASSUME NEW w, Request("chat", w)
  PROVE  Spoken(ParseChat(w), w) = Said(w)
<1> DEFINE proto == "chat"
           p == ChatParts(w)
           G == Voices(Msg, w)
<1>1. proto \in Protos /\ w \in Wires /\ Len(w) <= MaxPieces /\ Glued(proto, w)
    BY DEF Request
<1>2. Gives(G, Msg, Int)
    BY SpokenOfMsgs, Zenon
<1>3. Len(w) \in Nat /\ DOMAIN w = 1 .. Len(w) /\ \A i \in 1 .. Len(w) : w[i].k \in Kinds
    BY <1>1, WireFacts, Zenon
<1>4. ParseChat(w) = FlattenSeq(p) /\ p \in Seq(Seq(Msg)) /\ Len(p) = Len(w)
    BY ChatIn, Zenon
<1>5. \A i \in 1 .. Len(w) :
        /\ w[i].glue => p[i] = <<>>
        /\ (~w[i].glue /\ IsResult(w[i])) => p[i] = << ResultOf(proto, w, i) >>
        /\ (~w[i].glue /\ ~IsResult(w[i])) =>
              p[i] = << Grouped(proto, Side(proto, w[i]), w, i, GroupEnd(w, i)) >>
    BY <1>3, Zenon DEF ChatParts
<1> HIDE DEF p
<1>6. ASSUME NEW a \in 1 .. Len(w), ~w[a].glue PROVE Drawn(G, p[a]) = SaidOf(w, a, GroupEnd(w, a))
  <2> DEFINE e == GroupEnd(w, a)
             side == Side(proto, w[a])
  <2>1. e \in a .. Len(w) /\ ((\E i \in a .. e : IsCall(w[i])) => side = "assistant")
      BY <1>1, GroupFacts, Zenon
  <2>2. \A i \in a + 1 .. e : w[i].glue
      BY <1>1, GroupEndFacts, Zenon
  <2>3. side \in Roles
      BY <1>1, <1>3, SideFacts, Zenon
  <2>4. \A x \in a .. e : Side(proto, w[x]) = Side(proto, w[a])
    <3> TAKE x \in a .. e
    <3> QED BY <1>1, <2>1, <2>2, SameSide
  <2>5. side \notin {"user", "assistant"} => \A i \in a .. e : i \notin SaidPieces(w)
    <3> SUFFICES ASSUME side \notin {"user", "assistant"}, NEW i \in a .. e, i \in SaidPieces(w) PROVE FALSE
        OBVIOUS
    <3>1. Side(proto, w[i]) = side
        BY <2>4
    <3>2. w[i].k \in {"user", "say"}
        BY DEF SaidPieces
    <3>3. Side(proto, w[i]) \in {"user", "assistant"}
        BY <3>2, SaidSide
    <3> QED BY <3>1, <3>3, Zenon
  <2>6. CASE IsResult(w[a])
    <3> DEFINE m == ResultOf(proto, w, a)
    <3>1. m \in Msg /\ m.role = "tool"
        BY <1>1, <2>6, ResultFields, Zenon
    <3>2. p[a] = << m >>
        BY <1>5, <1>6, <2>6, Zenon
    <3>3. side \notin {"user", "assistant"}
      <4>1. side = "tool"
          BY <1>3, <2>6, ToolSide, Zenon
      <4>2. "tool" \notin {"user", "assistant"}
          OBVIOUS
      <4> QED BY <4>1, <4>2, Zenon
    <3>4. SaidOf(w, a, e) = <<>>
        BY <1>1, <2>1, <2>5, <3>3, SilentPieces, Zenon
    <3> HIDE DEF m, e, side
    <3>5. << m >> \in Seq(Msg) /\ \A i \in 1 .. Len(<< m >>) : << m >>[i].role = "tool"
        BY <3>1
    <3>6. Drawn(G, << m >>) = <<>>
        BY <3>5, ToolsAreDumb, Zenon
    <3> QED BY <3>2, <3>4, <3>6 DEF e
  <2>7. CASE ~IsResult(w[a])
    <3> DEFINE m == Grouped(proto, side, w, a, e)
    <3>1. m \in Msg
        BY <1>1, <2>1, <2>3, GroupedIn, Zenon
    <3>2. p[a] = << m >>
        BY <1>5, <1>6, <2>7, Zenon
    <3>3. Voice(m, w) = SaidOf(w, a, e)
        BY <1>1, <2>1, <2>3, <2>5, GroupedVoice, Zenon
    <3> HIDE DEF m, e
    <3>4. G[m] = Voice(m, w)
        BY <3>1, Zenon DEF Voices
    <3>5. Drawn(G, << m >>) = G[m]
        BY <1>2, <3>1, DrawnOne, Zenon
    <3> QED BY <3>2, <3>3, <3>4, <3>5, Zenon DEF e
  <2> QED BY <2>6, <2>7
<1>7. \A i \in 1 .. Len(w) : w[i].glue => p[i] = <<>>
    BY <1>5, Zenon
<1>8. Spoken(FlattenSeq(p), w) = Said(w)
    BY <1>1, <1>4, <1>6, <1>7, GroupsSpeak, Zenon
<1> QED BY <1>4, <1>8, Zenon

(* Anthropic: the results of a group are dumb, and what is left out has no   *)
(* text.                                                                     *)
LEMMA AnthropicSpeaks ==
  ASSUME NEW w, Request("anthropic", w)
  PROVE  Spoken(ParseAnthropic(w), w) = Said(w)
<1> DEFINE proto == "anthropic"
           p == AnthropicParts(w)
           G == Voices(Msg, w)
<1>1. proto \in Protos /\ w \in Wires /\ Len(w) <= MaxPieces /\ Glued(proto, w)
    BY DEF Request
<1>2. Gives(G, Msg, Int)
    BY SpokenOfMsgs, Zenon
<1>3. Len(w) \in Nat /\ DOMAIN w = 1 .. Len(w) /\ \A i \in 1 .. Len(w) : w[i].k \in Kinds
    BY <1>1, WireFacts, Zenon
<1>4. ParseAnthropic(w) = FlattenSeq(p) /\ p \in Seq(Seq(Msg)) /\ Len(p) = Len(w)
    BY AnthropicIn, Zenon
<1>5. \A i \in 1 .. Len(w) : p[i] = IF w[i].glue THEN <<>> ELSE AnthropicPart(w, i, GroupEnd(w, i))
    BY <1>3, Zenon DEF AnthropicParts
<1> HIDE DEF p
<1>6. ASSUME NEW a \in 1 .. Len(w), ~w[a].glue PROVE Drawn(G, p[a]) = SaidOf(w, a, GroupEnd(w, a))
  <2> DEFINE e == GroupEnd(w, a)
             side == Side(proto, w[a])
             role == IF w[a].k = "system" /\ a = 1 THEN "system" ELSE "user"
             rest == Grouped(proto, role, w, a, e)
             results == MadeResults(proto, w, GroupResults(w, a, e))
  <2>1. e \in a .. Len(w) /\ ((\E i \in a .. e : IsCall(w[i])) => side = "assistant")
      BY <1>1, GroupFacts, Zenon
  <2>2. \A i \in a + 1 .. e : w[i].glue
      BY <1>1, GroupEndFacts, Zenon
  <2>3. role \in Roles /\ role # "assistant" /\ "assistant" \in Roles
      BY DEF Roles
  <2>4. p[a] = IF side = "assistant" THEN << Grouped(proto, "assistant", w, a, e) >>
               ELSE results \o (IF NoText(rest) THEN <<>> ELSE << rest >>)
      BY <1>5, <1>6, Zenon DEF AnthropicPart, RestOf
  <2>5. CASE side = "assistant"
    <3> DEFINE m == Grouped(proto, "assistant", w, a, e)
    <3>1. m \in Msg
        BY <1>1, <2>1, <2>3, GroupedIn, Zenon
    <3>2. p[a] = << m >>
        BY <2>4, <2>5, Zenon
    <3>3. Voice(m, w) = SaidOf(w, a, e)
        BY <1>1, <2>1, <2>3, GroupedVoice, Zenon
    <3> HIDE DEF m, e
    <3>4. G[m] = Voice(m, w)
        BY <3>1, Zenon DEF Voices
    <3>5. Drawn(G, << m >>) = G[m]
        BY <1>2, <3>1, DrawnOne, Zenon
    <3> QED BY <3>2, <3>3, <3>4, <3>5, Zenon DEF e
  <2>6. CASE side # "assistant"
    <3>1. (\E i \in a .. e : IsCall(w[i])) => role = "assistant"
        BY <2>1, <2>6, Zenon
    <3>2. rest \in Msg
        BY <1>1, <2>1, <2>3, <3>1, GroupedIn, Zenon
    <3>3. role \notin {"user", "assistant"} => \A i \in a .. e : i \notin SaidPieces(w)
      <4> SUFFICES ASSUME role \notin {"user", "assistant"}, NEW i \in a .. e, i \in SaidPieces(w) PROVE FALSE
          OBVIOUS
      <4>1. w[a].k = "system"
          OBVIOUS
      <4>2. Side(proto, w[i]) = side
          BY <1>1, <2>1, <2>2, SameSide, Zenon
      <4>3. w[i].k \in {"user", "say"}
          BY DEF SaidPieces
      <4>4. side = "system"
          BY <4>1 DEF Side, IsCall, IsResult, Calls, Results
      <4>5. side \in {"user", "assistant"}
        <5>1. Side(proto, w[i]) \in {"user", "assistant"}
            BY <4>3, SaidSide
        <5> QED BY <4>2, <5>1, Zenon
      <4> HIDE DEF side
      <4> QED BY <4>4, <4>5
    <3>4. Voice(rest, w) = SaidOf(w, a, e)
        BY <1>1, <2>1, <2>3, <3>3, GroupedVoice, Zenon
    <3>5. results \in Seq(Msg)
        BY <1>1, <2>1, ResultsOfGroup, Zenon
    <3>6. \A k \in 1 .. Len(results) : results[k].role = "tool"
      <4> DEFINE q == GroupResults(w, a, e)
      <4>1. PickedFrom(a, e, {k \in 1 .. e - a + 1 : IsResult(w[a + k - 1])}, q)
        <5>1. a \in Nat /\ e \in Nat /\ a <= e
            BY <1>3, <2>1
        <5> QED BY <5>1, PickedFacts, Zenon DEF GroupResults
      <4> HIDE DEF q, e
      <4>2. ASSUME NEW k \in 1 .. Len(q) PROVE q[k] \in 1 .. Len(w) /\ IsResult(w[q[k]])
        <5>1. PICK j \in 1 .. e - a + 1 : IsResult(w[a + j - 1]) /\ a + j - 1 \in a .. e /\ q[k] = a + j - 1
            BY <4>1, Zenon DEF PickedFrom
        <5> QED BY <1>3, <2>1, <5>1
      <4>3. DOMAIN results = DOMAIN q /\ \A k \in DOMAIN q : results[k] = ResultOf(proto, w, q[k])
          BY Zenon DEF MadeResults, q
      <4>4. q \in Seq(Int)
        <5>1. a \in Nat /\ e \in Nat /\ a <= e
            BY <1>3, <2>1
        <5> QED BY <5>1, PickedFacts, Zenon DEF GroupResults, q
      <4>5. DOMAIN q = 1 .. Len(q) /\ DOMAIN results = 1 .. Len(results)
          BY <3>5, <4>4, SeqFacts, Zenon
      <4> HIDE DEF results
      <4>6. \A k \in DOMAIN q : ResultOf(proto, w, q[k]).role = "tool"
          BY <1>1, <4>2, <4>5, ResultFields, Zenon
      <4> QED BY <4>3, <4>5, <4>6, Zenon
    <3>7. Drawn(G, results) = <<>>
        BY <3>5, <3>6, ToolsAreDumb, Zenon
    <3>8. SaidOf(w, a, e) \in Seq(Int)
        BY <1>1, <2>1, SaidJoin, Zenon
    <3>9. G[rest] = Voice(rest, w)
        BY <3>2, Zenon DEF Voices
    <3>10. NoText(rest) => Voice(rest, w) = <<>>
        BY KeepNone, Zenon DEF NoText, Voice
    <3> HIDE DEF results, rest, G, e
    <3>11. CASE NoText(rest)
      <4>1. p[a] = results \o <<>>
          BY <2>4, <2>6, <3>11, Zenon
      <4>2. results \o <<>> = results
          BY <3>5
      <4> QED BY <3>4, <3>7, <3>10, <3>11, <4>1, <4>2, Zenon DEF e
    <3>12. CASE ~NoText(rest)
      <4>1. p[a] = results \o << rest >>
          BY <2>4, <2>6, <3>12, Zenon
      <4>2. << rest >> \in Seq(Msg)
          BY <3>2
      <4>3. Drawn(G, << rest >>) = G[rest]
          BY <1>2, <3>2, DrawnOne, Zenon
      <4>4. \A u, x \in Seq(Msg) : Drawn(G, u \o x) = Drawn(G, u) \o Drawn(G, x)
          BY <1>2, DrawnConcat
      <4>5. Drawn(G, results \o << rest >>) = <<>> \o SaidOf(w, a, e)
          BY <3>4, <3>5, <3>7, <3>9, <4>2, <4>3, <4>4, Zenon
      <4>6. <<>> \o SaidOf(w, a, e) = SaidOf(w, a, e)
          BY <3>8
      <4> QED BY <4>1, <4>5, <4>6, Zenon DEF e
    <3> QED BY <3>11, <3>12
  <2> QED BY <2>5, <2>6
<1>7. \A i \in 1 .. Len(w) : w[i].glue => p[i] = <<>>
    BY <1>5, Zenon
<1>8. Spoken(FlattenSeq(p), w) = Said(w)
    BY <1>1, <1>4, <1>6, <1>7, GroupsSpeak, Zenon
<1> QED BY <1>4, <1>8, Zenon

-------------------------------------------------------------------------------
(* What is said item by item                                                 *)

(* What is said by the messages out; what waits has nothing to say.          *)
Saying(w, n, s) ==
  /\ Drawn(Voices(Msg, w), s.out) = SaidOf(w, 1, n)
  /\ \A i \in 1 .. Len(s.pending) : s.pending[i].role = "tool"
  /\ s.cur # <<>> => s.cur[1].text = <<>>

(* Messages that say nothing may follow.                                     *)
LEMMA MuteMore ==
  ASSUME NEW w, NEW s \in Seq(Msg), NEW t \in Seq(Msg), Drawn(Voices(Msg, w), t) = <<>>
  PROVE  s \o t \in Seq(Msg) /\ Drawn(Voices(Msg, w), s \o t) = Drawn(Voices(Msg, w), s)
<1> DEFINE G == Voices(Msg, w)
<1>1. Gives(G, Msg, Int)
    BY SpokenOfMsgs, Zenon
<1>2. Drawn(G, t) = <<>>
    OBVIOUS
<1> HIDE DEF G
<1>3. \A u, x \in Seq(Msg) : Drawn(G, u \o x) = Drawn(G, u) \o Drawn(G, x)
    BY <1>1, DrawnConcat
<1>4. Drawn(G, s \o t) = Drawn(G, s) \o <<>>
    BY <1>2, <1>3, Zenon
<1>5. Drawn(G, s) \in Seq(Int)
  <2>1. DrawsOf(G, s, Int)
      BY <1>1, DrawsIn, Zenon
  <2> QED BY <2>1, Zenon DEF DrawsOf
<1>6. Drawn(G, s) \o <<>> = Drawn(G, s)
    BY <1>5
<1>7. s \o t \in Seq(Msg)
    OBVIOUS
<1> QED BY <1>4, <1>6, <1>7, Zenon DEF G

(* One more message says what it says.                                       *)
LEMMA OneMuteMore ==
  ASSUME NEW w, NEW s \in Seq(Msg), NEW m \in Msg
  PROVE  Drawn(Voices(Msg, w), Append(s, m)) = Drawn(Voices(Msg, w), s) \o Voice(m, w)
<1> DEFINE G == Voices(Msg, w)
<1>1. Gives(G, Msg, Int)
    BY SpokenOfMsgs, Zenon
<1>2. G[m] = Voice(m, w)
    BY Zenon DEF Voices
<1> HIDE DEF G
<1>3. \A u \in Seq(Msg), x \in Msg : Drawn(G, Append(u, x)) = Drawn(G, u) \o G[x]
    BY <1>1, DrawnAppend
<1>4. Drawn(G, Append(s, m)) = Drawn(G, s) \o Voice(m, w)
    BY <1>2, <1>3, Zenon
<1> QED BY <1>4 DEF G

(* Flushing says nothing.                                                    *)
LEMMA FlushSpeaks ==
  ASSUME NEW w, NEW n, NEW s \in Flow, Saying(w, n, s)
  PROVE  LET t == FlushResults(FlushAssistant(s))
         IN  t \in Flow /\ Drawn(Voices(Msg, w), t.out) = SaidOf(w, 1, n) /\ t.cur = <<>> /\ t.pending = <<>>
<1> DEFINE a == FlushAssistant(s)
           t == FlushResults(a)
           G == Voices(Msg, w)
<1>1. a \in Flow
    BY FlushIn, Zenon
<1>2. t \in Flow
    BY <1>1, FlushIn, Zenon
<1>3. t.pending = <<>> /\ a.pending = s.pending
    BY <1>1, FlushPending, Zenon
<1>4. t.out = a.out \o a.pending /\ t.cur = a.cur
    BY <1>1, FlushFields, Zenon
<1>5. a.cur = <<>>
    BY FlushFields, Zenon
<1>6. a.out \in Seq(Msg) /\ a.pending \in Seq(Msg) /\ s.out \in Seq(Msg)
    BY <1>1, FlowFacts, Zenon
<1>7. Drawn(G, a.out) = Drawn(G, s.out)
  <2>1. CASE s.cur = <<>> \/ (s.cur # <<>> /\ s.cur[1].calls = <<>>)
    <3>1. a.out = s.out
        BY <2>1, FlushFields, Zenon
    <3> QED BY <3>1
  <2>2. CASE s.cur # <<>> /\ s.cur[1].calls # <<>>
    <3> DEFINE p == s.cur[1]
               m == [s.cur[1] EXCEPT !.think = s.think]
    <3>1. a.out = Append(s.out, m)
        BY <2>2, FlushFields, Zenon
    <3>2. p \in Spokesman /\ s.think \in Seq(Int) /\ p.text = <<>>
        BY <2>2, FlowFacts, Zenon DEF Saying
    <3>3. m \in Spokesman /\ m.text = p.text
        BY <3>2, SpokesmanFacts, ThoughtFields, Zenon
    <3>4. m \in Msg
        BY <3>3 DEF Spokesman
    <3> HIDE DEF m, p
    <3>5. Voice(m, w) = <<>>
        BY <3>2, <3>3, KeepNone, Zenon DEF Voice
    <3>6. Drawn(G, Append(s.out, m)) = Drawn(G, s.out) \o <<>>
        BY <1>6, <3>4, <3>5, OneMuteMore, Zenon
    <3>7. Drawn(G, s.out) \in Seq(Int)
      <4>1. Gives(G, Msg, Int)
          BY SpokenOfMsgs, Zenon
      <4>2. DrawsOf(G, s.out, Int)
          BY <1>6, <4>1, DrawsIn, Zenon
      <4> QED BY <4>2, Zenon DEF DrawsOf
    <3> HIDE DEF G
    <3>8. Drawn(G, s.out) \o <<>> = Drawn(G, s.out)
        BY <3>7
    <3> QED BY <3>1, <3>6, <3>8
  <2> QED BY <2>1, <2>2
<1>8. Drawn(G, a.pending) = <<>>
  <2>1. \A i \in 1 .. Len(a.pending) : a.pending[i].role = "tool"
      BY <1>3 DEF Saying
  <2> QED BY <1>6, <2>1, ToolsAreDumb, Zenon
<1>9. Drawn(G, a.out \o a.pending) = Drawn(G, a.out)
    BY <1>6, <1>8, MuteMore, Zenon
<1>10. Drawn(G, s.out) = SaidOf(w, 1, n)
    BY Zenon DEF Saying
<1>11. Drawn(G, t.out) = SaidOf(w, 1, n)
    BY <1>4, <1>7, <1>9, <1>10
<1> QED BY <1>2, <1>3, <1>4, <1>5, <1>11

(* A message of the Responses protocol is heard as its item is said.         *)
LEMMA WordedVoice ==
  ASSUME NEW w, Request("responses", w), NEW i \in 1 .. Len(w), ~IsCall(w[i]), ~IsResult(w[i]), NEW t \in Flow
  PROVE  Voice(Worded(t, w, i), w) = SaidOf(w, i, i)
<1> DEFINE proto == "responses"
           side == Side(proto, w[i])
           m == Grouped(proto, side, w, i, i)
           x == Worded(t, w, i)
<1>1. w \in Wires /\ Len(w) <= MaxPieces /\ proto \in Protos
    BY DEF Request, Protos
<1>2. w[i].k \in Kinds /\ i \in i .. Len(w)
  <2>1. Len(w) \in Nat
      BY <1>1, WireFacts, Zenon
  <2> QED BY <1>1, <2>1, WireFacts
<1>3. side \in Roles
    BY <1>1, <1>2, SideFacts, Zenon
<1>4. \A j \in i .. i : j = i
    OBVIOUS
<1>5. side \notin {"user", "assistant"} => \A j \in i .. i : j \notin SaidPieces(w)
  <2> SUFFICES ASSUME i \in SaidPieces(w) PROVE side \in {"user", "assistant"}
      BY <1>4, Zenon
  <2>1. w[i].k \in {"user", "say"}
      BY DEF SaidPieces
  <2> QED BY <2>1, SaidSide
<1>6. Voice(m, w) = SaidOf(w, i, i)
    BY <1>1, <1>2, <1>3, <1>5, GroupedVoice, Zenon
<1>7. m \in Msg
  <2>1. ~\E j \in i .. i : IsCall(w[j])
      BY <1>4, Zenon
  <2> QED BY <1>1, <1>2, <1>3, <2>1, GroupedIn, Zenon
<1>8. x = IF m.role = "assistant" THEN [m EXCEPT !.think = t.think] ELSE m
    BY Zenon DEF Worded
<1>9. [m EXCEPT !.think = t.think].role = m.role /\ [m EXCEPT !.think = t.think].text = m.text
  <2>1. m \in MsgType
      BY <1>7, Zenon DEF Msg
  <2> HIDE DEF m
  <2> QED BY <2>1 DEF MsgType
<1>10. x.role = m.role /\ x.text = m.text
  <2> HIDE DEF m, x
  <2> QED BY <1>8, <1>9, Zenon
<1> HIDE DEF m, x
<1>11. Voice(x, w) = Voice(m, w)
    BY <1>10, Zenon DEF Voice
<1> QED BY <1>6, <1>11 DEF m, x

(* A message that collects calls has no text.                                *)
LEMMA CalledText ==
  ASSUME NEW w, Request("responses", w), NEW i \in 1 .. Len(w), IsCall(w[i]), NEW s \in Flow,
         s.cur # <<>> => s.cur[1].text = <<>>
  PROVE  Called(s, w, i).text = <<>>
<1> DEFINE m == Current(s)
           c == CallOf("responses", w, i)
           x == Called(s, w, i)
<1>1. m \in Spokesman /\ c \in CallType
    BY CalledFields, Zenon
<1>2. m.text = <<>>
    BY DEF Current, Message
<1>3. x = m \/ x = [m EXCEPT !.calls = Append(@, c)]
    BY Zenon DEF Called
<1>4. m \in MsgType
    BY <1>1 DEF Spokesman, Msg
<1> HIDE DEF m, c, x
<1>5. [m EXCEPT !.calls = Append(@, c)].text = m.text
    BY <1>4 DEF MsgType
<1> QED BY <1>2, <1>3, <1>5 DEF x

(* Each item keeps the history at what has been said.                        *)
LEMMA ItemSpeaks ==
  ASSUME NEW w, Request("responses", w), NEW l \in 1 .. Len(w), NEW s \in Flow, Saying(w, l - 1, s)
  PROVE  Saying(w, l, ResponsesStep(s, w, l))
<1> DEFINE proto == "responses"
           next == ResponsesStep(s, w, l)
           t == FlushResults(FlushAssistant(s))
           G == Voices(Msg, w)
<1>0. w \in Wires /\ Len(w) <= MaxPieces /\ proto \in Protos
    BY DEF Request, Protos
<1>1. l \in l .. Len(w)
  <2>1. Len(w) \in Nat
      BY <1>0, WireFacts, Zenon
  <2> QED BY <2>1
<1>2. w[l].k \in Kinds
    BY <1>0, WireFacts, Zenon
<1>3. /\ IsCall(w[l]) => ~IsResult(w[l])
      /\ w[l].k = "think" => ~IsCall(w[l]) /\ ~IsResult(w[l])
    BY <1>0, <1>2, SideFacts, Zenon
<1>4. t \in Flow /\ Drawn(G, t.out) = SaidOf(w, 1, l - 1) /\ t.cur = <<>> /\ t.pending = <<>>
    BY FlushSpeaks, Zenon
<1>5. /\ w[l].k = "think" => next.out = s.out /\ next.cur = s.cur
      /\ IsCall(w[l]) => next.out = s.out \o s.pending /\ next.cur = << Called(s, w, l) >>
      /\ IsResult(w[l]) => next.out = t.out /\ next.cur = t.cur
      /\ (w[l].k # "think" /\ ~IsCall(w[l]) /\ ~IsResult(w[l])) =>
           next.out = Append(t.out, Worded(t, w, l)) /\ next.cur = t.cur
  <2>1. ItemIs(w, l, s, t, next)
      BY ItemParts, Zenon
  <2> HIDE DEF next, t
  <2> QED BY <2>1, Zenon DEF ItemIs
<1>6. /\ w[l].k = "think" => next.pending = s.pending
      /\ IsCall(w[l]) => next.pending = <<>>
      /\ IsResult(w[l]) => next.pending = << ResultOf(proto, w, l) >>
      /\ (w[l].k # "think" /\ ~IsCall(w[l]) /\ ~IsResult(w[l])) => next.pending = <<>>
    BY ItemPending, ZenonT(60)
<1>7. SaidOf(w, 1, l) = SaidOf(w, 1, l - 1) \o SaidOf(w, l, l) /\ SaidOf(w, 1, l - 1) \in Seq(Int)
    BY <1>0, <1>1, SaidJoin, Zenon
<1>8. w[l].k \notin {"user", "say"} => SaidOf(w, 1, l) = SaidOf(w, 1, l - 1)
  <2> SUFFICES ASSUME w[l].k \notin {"user", "say"} PROVE SaidOf(w, 1, l) = SaidOf(w, 1, l - 1)
      OBVIOUS
  <2>1. \A i \in l .. l : i \notin SaidPieces(w)
    <3>1. l \notin SaidPieces(w)
        BY Zenon DEF SaidPieces
    <3>2. \A i \in l .. l : i = l
        OBVIOUS
    <3> QED BY <3>1, <3>2, Zenon
  <2>2. SaidOf(w, l, l) = <<>>
      BY <1>0, <1>1, <2>1, SilentPieces, Zenon
  <2> QED BY <1>7, <2>2
<1>9. IsCall(w[l]) \/ IsResult(w[l]) \/ w[l].k = "think" => w[l].k \notin {"user", "say"}
  <2>1. w[l].k \in {"user", "say"} => ~IsCall(w[l]) /\ ~IsResult(w[l])
      BY SaidSide
  <2>2. w[l].k = "think" => w[l].k \notin {"user", "say"}
      OBVIOUS
  <2> QED BY <2>1, <2>2, Zenon
<1>10. /\ Drawn(G, s.out) = SaidOf(w, 1, l - 1)
       /\ \A i \in 1 .. Len(s.pending) : s.pending[i].role = "tool"
       /\ s.cur # <<>> => s.cur[1].text = <<>>
    BY Zenon DEF Saying
<1>11. s.out \in Seq(Msg) /\ s.pending \in Seq(Msg) /\ t.out \in Seq(Msg)
    BY <1>4, FlowFacts, Zenon
<1> SUFFICES Saying(w, l, next)
    OBVIOUS
<1>12. \A i \in 1 .. Len(<<>>) : FALSE
    OBVIOUS
<1> HIDE DEF t, next, proto
<1>13. CASE w[l].k = "think"
  <2>1. next.out = s.out /\ next.cur = s.cur /\ next.pending = s.pending
      BY <1>5, <1>6, <1>13, Zenon
  <2>2. Drawn(G, next.out) = SaidOf(w, 1, l)
      BY <1>8, <1>9, <1>10, <1>13, <2>1, Zenon
  <2> HIDE DEF G
  <2> QED BY <1>10, <2>1, <2>2, Zenon DEF Saying, G
<1>14. CASE IsCall(w[l])
  <2> DEFINE x == Called(s, w, l)
  <2>1. next.out = s.out \o s.pending /\ next.cur = << x >> /\ next.pending = <<>>
      BY <1>5, <1>6, <1>14, Zenon
  <2>2. x.text = <<>>
      BY <1>10, <1>14, CalledText, Zenon
  <2>3. Drawn(G, s.pending) = <<>>
      BY <1>10, <1>11, ToolsAreDumb, Zenon
  <2>4. Drawn(G, s.out \o s.pending) = Drawn(G, s.out)
      BY <1>11, <2>3, MuteMore, Zenon
  <2>5. Drawn(G, next.out) = SaidOf(w, 1, l)
      BY <1>8, <1>9, <1>10, <1>14, <2>1, <2>4, Zenon
  <2> HIDE DEF x, G
  <2>6. next.cur # <<>> => next.cur[1].text = <<>>
      BY <2>1, <2>2
  <2> QED BY <1>12, <2>1, <2>5, <2>6, Zenon DEF Saying, G
<1>15. CASE IsResult(w[l])
  <2> DEFINE m == ResultOf(proto, w, l)
  <2>1. next.out = t.out /\ next.cur = <<>> /\ next.pending = << m >>
      BY <1>4, <1>5, <1>6, <1>15, Zenon
  <2>2. m.role = "tool"
      BY <1>0, <1>15, ResultFields, Zenon
  <2>3. Drawn(G, next.out) = SaidOf(w, 1, l)
      BY <1>4, <1>8, <1>9, <1>15, <2>1, Zenon
  <2> HIDE DEF m, G
  <2>4. \A i \in 1 .. Len(next.pending) : next.pending[i].role = "tool"
      BY <2>1, <2>2
  <2> QED BY <2>1, <2>3, <2>4, Zenon DEF Saying, G
<1>16. CASE w[l].k # "think" /\ ~IsCall(w[l]) /\ ~IsResult(w[l])
  <2> DEFINE m == Worded(t, w, l)
  <2>1. next.out = Append(t.out, m) /\ next.cur = <<>> /\ next.pending = <<>>
      BY <1>4, <1>5, <1>6, <1>16, Zenon
  <2>2. m \in Msg
      BY <1>4, <1>16, WordedIn, Zenon
  <2>3. Voice(m, w) = SaidOf(w, l, l)
      BY <1>4, <1>16, WordedVoice, Zenon
  <2> HIDE DEF m
  <2>4. Drawn(G, Append(t.out, m)) = Drawn(G, t.out) \o Voice(m, w)
      BY <1>11, <2>2, OneMuteMore, Zenon
  <2>5. Drawn(G, next.out) = SaidOf(w, 1, l)
      BY <1>4, <1>7, <2>1, <2>3, <2>4, Zenon
  <2> HIDE DEF G
  <2> QED BY <1>12, <2>1, <2>5, Zenon DEF Saying, G
<1> QED BY <1>13, <1>14, <1>15, <1>16

(* Responses: at the end everything has been said.                           *)
LEMMA ResponsesSpeaks ==
  ASSUME NEW w, Request("responses", w)
  PROVE  Spoken(ParseResponses(w), w) = Said(w)
<1> DEFINE N == Len(w)
           c == Flowing(w)
           I == {n \in Nat : n <= N => Saying(w, n, c[n])}
<1>1. w \in Wires
    BY DEF Request
<1>2. N \in Nat
    BY <1>1, WireFacts, Zenon
<1>3. /\ ParseResponses(w) = FlushResults(FlushAssistant(c[N])).out
      /\ \A n \in 0 .. N : c[n] \in Flow
      /\ c[0] = NothingYet
      /\ \A n \in 1 .. N : c[n] = ResponsesStep(c[n - 1], w, n)
    BY FlowingFacts, Zenon
<1> HIDE DEF c
<1>4. Saying(w, 0, c[0])
  <2>1. c[0].cur = <<>> /\ c[0].out = <<>> /\ c[0].pending = <<>>
      BY <1>3 DEF NothingYet
  <2>2. SaidOf(w, 1, 0) = <<>>
    <3>1. 1 \in Nat /\ 0 \in Nat /\ 1 <= 0 + 1 /\ 0 < 1
        OBVIOUS
    <3>2. Positions(1, 0) = <<>>
        BY <3>1, PositionsFacts, Zenon
    <3> QED BY <3>2, KeepNone, Zenon DEF SaidOf
  <2>3. \A i \in 1 .. Len(<<>>) : FALSE
      OBVIOUS
  <2>4. Drawn(Voices(Msg, w), <<>>) = <<>>
      BY DrawnEmpty, Zenon
  <2> QED BY <2>1, <2>2, <2>3, <2>4, Zenon DEF Saying
<1>5. 0 \in I
    BY <1>4
<1>6. ASSUME NEW n \in Nat, n \in I PROVE n + 1 \in I
  <2> DEFINE l == n + 1
  <2> SUFFICES ASSUME l <= N PROVE Saying(w, l, c[l])
      OBVIOUS
  <2>1. l \in 1 .. Len(w) /\ n \in 0 .. N /\ n <= N /\ l - 1 = n
      BY <1>2
  <2>2. Saying(w, n, c[n])
      BY <1>6, <2>1
  <2> HIDE DEF l, N, I
  <2>3. c[l] = ResponsesStep(c[n], w, l) /\ c[n] \in Flow
      BY <1>3, <2>1, Zenon DEF N
  <2>4. Saying(w, l, ResponsesStep(c[n], w, l))
    <3>1. Saying(w, l - 1, c[n])
        BY <2>1, <2>2
    <3> QED BY <2>1, <2>3, <3>1, ItemSpeaks, Zenon
  <2> QED BY <2>3, <2>4, Zenon
<1> HIDE DEF I
<1>7. \A n \in Nat : n \in I
    BY <1>5, <1>6, SetInduction, Zenon
<1>8. N \in 0 .. N /\ N <= N
    BY <1>2
<1>9. Saying(w, N, c[N]) /\ c[N] \in Flow
    BY <1>2, <1>3, <1>7, <1>8, Zenon DEF I
<1> DEFINE t == FlushResults(FlushAssistant(c[N]))
<1>10. t \in Flow /\ Drawn(Voices(Msg, w), t.out) = SaidOf(w, 1, N)
    BY <1>9, FlushSpeaks, Zenon
<1>11. t.out \in Seq(Msg)
    BY <1>10, FlowFacts, Zenon
<1>12. Spoken(t.out, w) = Drawn(Voices(Msg, w), t.out)
    BY <1>11, SpokenOfMsgs, Zenon
<1>13. Said(w) = SaidOf(w, 1, N)
    BY <1>1, SaidIs, Zenon
<1> QED BY <1>3, <1>10, <1>12, <1>13

(* In every protocol what is said is spoken once each and in its order.      *)
LEMMA ParseSpeaks ==
  ASSUME NEW proto, NEW w, Request(proto, w)
  PROVE  Spoken(ParseMessages(proto, w), w) = Said(w)
<1>1. proto \in Protos
    BY DEF Request
<1>2. CASE proto = "chat"
    BY <1>2, ChatSpeaks, Zenon DEF ParseMessages
<1>3. CASE proto = "anthropic"
    BY <1>3, AnthropicSpeaks, Zenon DEF ParseMessages
<1>4. CASE proto = "responses"
    BY <1>4, ResponsesSpeaks, Zenon DEF ParseMessages
<1> QED BY <1>1, <1>2, <1>3, <1>4 DEF Protos

-------------------------------------------------------------------------------
(* Results and calls that joining keeps                                      *)

(* The results and the calls of a message.                                   *)
Toolings == [m \in Msg |-> IF m.role = "tool" THEN << m >> ELSE <<>>]
Callings == [m \in Msg |-> m.calls]

(* Joining two messages gives no result away: neither is one.                *)
LEMMA ToolingsFold == Gives(Toolings, Msg, Msg) /\ Folds(Toolings)
<1>1. Gives(Toolings, Msg, Msg)
  <2>1. ASSUME NEW m \in Msg PROVE (IF m.role = "tool" THEN << m >> ELSE <<>>) \in Seq(Msg)
    <3>1. << m >> \in Seq(Msg)
        BY One
    <3>2. <<>> \in Seq(Msg)
        OBVIOUS
    <3> QED BY <3>1, <3>2, Zenon
  <2> QED BY <2>1, Zenon DEF Gives, Toolings
<1>2. ASSUME NEW p \in Msg, NEW m \in Msg, Joins(p, m) PROVE Toolings[Join(p, m)] = Toolings[p] \o Toolings[m]
  <2>1. p.role = "assistant" /\ m.role = "assistant" /\ Join(p, m) \in Msg /\ Join(p, m).role = "assistant"
      BY <1>2, JoinFields, Zenon
  <2>2. "assistant" # "tool"
      OBVIOUS
  <2>3. Toolings[p] = <<>> /\ Toolings[m] = <<>> /\ Toolings[Join(p, m)] = <<>>
      BY <2>1, <2>2, Zenon DEF Toolings
  <2> QED BY <2>3
<1> QED BY <1>1, <1>2, Zenon DEF Folds

(* A join has the calls of both.                                             *)
LEMMA CallingsFold == Gives(Callings, Msg, CallType) /\ Folds(Callings)
<1>1. Gives(Callings, Msg, CallType)
  <2>1. \A m \in Msg : m.calls \in Seq(CallType)
      BY MsgFacts, Zenon
  <2> QED BY <2>1, Zenon DEF Gives, Callings
<1>2. ASSUME NEW p \in Msg, NEW m \in Msg, Joins(p, m) PROVE Callings[Join(p, m)] = Callings[p] \o Callings[m]
  <2>1. Join(p, m) \in Msg /\ Join(p, m).calls = p.calls \o m.calls
      BY <1>2, JoinFields, Zenon
  <2> QED BY <2>1, Zenon DEF Callings
<1> QED BY <1>1, <1>2, Zenon DEF Folds

(* What is drawn is what some member gives.                                  *)
LEMMA DrawnHas ==
  ASSUME NEW S, NEW T, NEW G, Gives(G, S, T), NEW s \in Seq(S)
  PROVE  \A y : HasPlace(Drawn(G, s), y) <=> \E i \in 1 .. Len(s) : HasPlace(G[s[i]], y)
<1> DEFINE p == Draws(G, s)
<1>1. DrawsOf(G, s, T)
    BY DrawsIn, Zenon
<1>2. p \in Seq(Seq(T)) /\ Len(p) = Len(s) /\ Drawn(G, s) \in Seq(T) /\ \A i \in 1 .. Len(s) : p[i] = G[s[i]]
    BY <1>1, Zenon DEF DrawsOf
<1>3. Drawn(G, s) = FlattenSeq(p)
    BY Zenon DEF Drawn
<1> HIDE DEF p
<1> DEFINE d == FlattenSeq(p)
<1>4. /\ \A i \in 1 .. Len(p) : \A k \in 1 .. Len(p[i]) : At(p, i, k) \in 1 .. Len(d) /\ d[At(p, i, k)] = p[i][k]
      /\ \A x \in 1 .. Len(d) : \E i \in 1 .. Len(p) : \E k \in 1 .. Len(p[i]) : x = At(p, i, k)
    BY <1>2, FlatPlaces
<1>5. d \in Seq(T)
    BY <1>2, <1>3
<1> HIDE DEF d
<1>6. DOMAIN d = 1 .. Len(d) /\ \A i \in 1 .. Len(p) : DOMAIN p[i] = 1 .. Len(p[i])
  <2>1. DOMAIN d = 1 .. Len(d)
      BY <1>5
  <2>2. ASSUME NEW i \in 1 .. Len(p) PROVE DOMAIN p[i] = 1 .. Len(p[i])
    <3>1. p[i] \in Seq(T)
        BY <1>2, SeqFacts, Zenon
    <3> QED BY <3>1
  <2> QED BY <2>1, <2>2
<1>7. ASSUME NEW y, HasPlace(d, y) PROVE \E i \in 1 .. Len(s) : HasPlace(G[s[i]], y)
  <2>1. PICK x \in 1 .. Len(d) : d[x] = y
      BY <1>6, <1>7, Zenon DEF HasPlace
  <2>2. PICK i \in 1 .. Len(p) : \E k \in 1 .. Len(p[i]) : x = At(p, i, k)
      BY <1>4
  <2>3. PICK k \in 1 .. Len(p[i]) : x = At(p, i, k)
      BY <2>2
  <2>4. p[i][k] = y /\ k \in DOMAIN p[i]
      BY <1>4, <1>6, <2>1, <2>3, Zenon
  <2>5. HasPlace(p[i], y)
      BY <2>4, Zenon DEF HasPlace
  <2> QED BY <1>2, <2>5
<1>8. ASSUME NEW y, NEW i \in 1 .. Len(s), HasPlace(G[s[i]], y) PROVE HasPlace(d, y)
  <2>1. i \in 1 .. Len(p) /\ HasPlace(p[i], y)
      BY <1>2, <1>8
  <2>2. PICK k \in 1 .. Len(p[i]) : p[i][k] = y
      BY <1>6, <2>1, Zenon DEF HasPlace
  <2>3. At(p, i, k) \in 1 .. Len(d) /\ d[At(p, i, k)] = y
      BY <1>4, <2>1, <2>2, Zenon
  <2> QED BY <1>6, <2>3, Zenon DEF HasPlace
<1> QED BY <1>3, <1>7, <1>8 DEF d

(* Merging keeps the results and the calls.                                  *)
LEMMA MergeHas ==
  ASSUME NEW f \in Seq(Msg)
  PROVE  /\ \A i \in 1 .. Len(f) : f[i].role = "tool" => \E x \in 1 .. Len(Merge(f)) : Merge(f)[x] = f[i]
         /\ \A x \in 1 .. Len(Merge(f)) : Merge(f)[x].role = "tool" => \E i \in 1 .. Len(f) : Merge(f)[x] = f[i]
         /\ \A c : (\E i \in 1 .. Len(f) : HasPlace(f[i].calls, c)) =>
                     \E x \in 1 .. Len(Merge(f)) : HasPlace(Merge(f)[x].calls, c)
<1> DEFINE g == Merge(f)
<1>1. g \in Seq(Msg)
    BY MergeIn, Zenon
<1>2. Drawn(Toolings, g) = Drawn(Toolings, f) /\ Drawn(Callings, g) = Drawn(Callings, f)
    BY ToolingsFold, CallingsFold, MergeDraws, Zenon
<1> HIDE DEF g
<1>3. ASSUME NEW s \in Seq(Msg)
      PROVE  /\ \A y : HasPlace(Drawn(Toolings, s), y) <=> \E i \in 1 .. Len(s) : HasPlace(Toolings[s[i]], y)
             /\ \A y : HasPlace(Drawn(Callings, s), y) <=> \E i \in 1 .. Len(s) : HasPlace(Callings[s[i]], y)
  <2>1. Gives(Toolings, Msg, Msg) /\ Gives(Callings, Msg, CallType)
      BY ToolingsFold, CallingsFold, Zenon
  <2>2. \A y : HasPlace(Drawn(Toolings, s), y) <=> \E i \in 1 .. Len(s) : HasPlace(Toolings[s[i]], y)
      BY <2>1, DrawnHas
  <2>3. \A y : HasPlace(Drawn(Callings, s), y) <=> \E i \in 1 .. Len(s) : HasPlace(Callings[s[i]], y)
      BY <2>1, DrawnHas
  <2> QED BY <2>2, <2>3
<1>4. ASSUME NEW s \in Seq(Msg), NEW i \in 1 .. Len(s)
      PROVE  /\ Callings[s[i]] = s[i].calls
             /\ \A y : HasPlace(Toolings[s[i]], y) <=> y = s[i] /\ s[i].role = "tool"
  <2> DEFINE m == s[i]
  <2>1. m \in Msg
      BY SeqFacts, Zenon
  <2>2. Callings[m] = m.calls /\ Toolings[m] = IF m.role = "tool" THEN << m >> ELSE <<>>
      BY <2>1, Zenon DEF Callings, Toolings
  <2> HIDE DEF m
  <2>3. \A y : ~HasPlace(<<>>, y)
      BY DEF HasPlace
  <2>4. \A y : HasPlace(<< m >>, y) <=> y = m
    <3>1. DOMAIN << m >> = {1} /\ << m >>[1] = m
        OBVIOUS
    <3> QED BY <3>1, Zenon DEF HasPlace
  <2>5. \A y : HasPlace(Toolings[m], y) <=> y = m /\ m.role = "tool"
      BY <2>2, <2>3, <2>4, Zenon
  <2> QED BY <2>2, <2>5 DEF m
<1>5. ASSUME NEW i \in 1 .. Len(f), f[i].role = "tool" PROVE \E x \in 1 .. Len(g) : g[x] = f[i]
  <2>1. HasPlace(Drawn(Toolings, f), f[i])
      BY <1>3, <1>4, <1>5
  <2>2. PICK x \in 1 .. Len(g) : HasPlace(Toolings[g[x]], f[i])
      BY <1>1, <1>2, <1>3, <2>1
  <2>3. \A y : HasPlace(Toolings[g[x]], y) <=> y = g[x] /\ g[x].role = "tool"
      BY <1>1, <1>4
  <2>4. f[i] = g[x]
      BY <2>2, <2>3, Zenon
  <2> QED BY <2>4
<1>6. ASSUME NEW x \in 1 .. Len(g), g[x].role = "tool" PROVE \E i \in 1 .. Len(f) : g[x] = f[i]
  <2>1. HasPlace(Drawn(Toolings, g), g[x])
      BY <1>1, <1>3, <1>4, <1>6
  <2>2. PICK i \in 1 .. Len(f) : HasPlace(Toolings[f[i]], g[x])
      BY <1>2, <1>3, <2>1
  <2>3. \A y : HasPlace(Toolings[f[i]], y) <=> y = f[i] /\ f[i].role = "tool"
      BY <1>4
  <2>4. g[x] = f[i]
      BY <2>2, <2>3, Zenon
  <2> QED BY <2>4
<1>7. ASSUME NEW c, NEW i \in 1 .. Len(f), HasPlace(f[i].calls, c) PROVE \E x \in 1 .. Len(g) : HasPlace(g[x].calls, c)
  <2>1. HasPlace(Drawn(Callings, f), c)
    <3>1. HasPlace(Callings[f[i]], c)
        BY <1>4, <1>7
    <3> QED BY <1>3, <3>1
  <2>2. PICK x \in 1 .. Len(g) : HasPlace(Callings[g[x]], c)
      BY <1>1, <1>2, <1>3, <2>1
  <2> QED BY <1>1, <1>4, <2>2
<1> QED BY <1>5, <1>6, <1>7 DEF g

-------------------------------------------------------------------------------
(* Results of the agent                                                      *)

(* A result as it is parsed: it has no image and is no placeholder.          *)
Tells == {m \in Msg : m.role = "tool" => (~m.img /\ m.text # << Placeholder >>)}

(* A join of sequences over S is one.                                        *)
LEMMA JoinedIn ==
  ASSUME NEW S, NEW U, NEW p \in Seq(U), \A i \in 1 .. Len(p) : p[i] \in Seq(S)
  PROVE  FlattenSeq(p) \in Seq(S)
<1> DEFINE T == Seq(S)
<1>1. Len(p) \in Nat /\ p = [i \in 1 .. Len(p) |-> p[i]]
    BY SeqFacts
<1>2. \A i \in 1 .. Len(p) : p[i] \in T
    OBVIOUS
<1> HIDE DEF T
<1>3. p \in [1 .. Len(p) -> T]
    BY <1>1, <1>2, Zenon
<1>4. p \in Seq(T)
    BY <1>1, <1>3, FunSeq, Zenon
<1> QED BY <1>4, FlatIn, Zenon DEF T

(* A result of the agent has a text of its own or none.                      *)
LEMMA ResultTells ==
  ASSUME NEW proto, NEW w \in Wires, Len(w) <= MaxPieces, NEW i \in 1 .. Len(w), IsResult(w[i])
  PROVE  ResultOf(proto, w, i) \in Tells
<1> DEFINE r == Message("tool")
           id == IdOf(proto, Results[w[i].k], i)
           u == IF w[i].k = "void1" THEN <<>> ELSE << i >>
           z == ResultOf(proto, w, i)
<1>1. r \in MsgType
  <2>1. "tool" \in {"user", "assistant", "tool", "system"}
      OBVIOUS
  <2> QED BY <2>1, MessageFacts, Zenon DEF Msg
<1>2. r.img = FALSE
    BY DEF Message
<1>3. z = [r EXCEPT !.for = id, !.text = u]
    BY Zenon DEF ResultOf
<1>4. z \in Msg /\ z.text = u
    BY ResultFields, Zenon
<1>5. u # << Placeholder >>
  <2>1. i \in Nat /\ i # 0
    <3>1. Len(w) \in Nat
        BY WireFacts, Zenon
    <3> QED BY <3>1
  <2>2. << i >> # << 0 >> /\ <<>> # << 0 >>
      BY <2>1
  <2> QED BY <2>2, Zenon DEF Placeholder
<1> HIDE DEF r, id, u
<1>6. [r EXCEPT !.for = id, !.text = u].img = r.img
    BY <1>1 DEF MsgType
<1> HIDE DEF z
<1>7. ~z.img
    BY <1>2, <1>3, <1>6
<1>8. z \in Tells
    BY <1>4, <1>5, <1>7, Zenon DEF Tells
<1> QED BY <1>8, Zenon DEF z

(* Other messages are no results.                                            *)
LEMMA OthersTell ==
  ASSUME NEW m \in Msg, m.role # "tool"
  PROVE  m \in Tells
  BY Zenon DEF Tells

(* The results that Chat reads are results of the agent.                     *)
LEMMA ChatTells ==
  ASSUME NEW w, Request("chat", w)
  PROVE  ParseChat(w) \in Seq(Tells)
<1> DEFINE proto == "chat"
           p == ChatParts(w)
<1>1. proto \in Protos /\ w \in Wires /\ Len(w) <= MaxPieces /\ Glued(proto, w)
    BY DEF Request
<1>2. DOMAIN w = 1 .. Len(w)
    BY <1>1, WireFacts, Zenon
<1>3. ParseChat(w) = FlattenSeq(p) /\ p \in Seq(Seq(Msg)) /\ Len(p) = Len(w)
    BY ChatIn, Zenon
<1>4. ASSUME NEW i \in 1 .. Len(w) PROVE p[i] \in Seq(Tells)
  <2> DEFINE side == Side(proto, w[i])
             b == GroupEnd(w, i)
  <2>1. p[i] = IF w[i].glue THEN <<>> ELSE IF IsResult(w[i]) THEN << ResultOf(proto, w, i) >>
               ELSE << Grouped(proto, side, w, i, b) >>
      BY <1>2, Zenon DEF ChatParts
  <2>2. b \in i .. Len(w) /\ ((\E j \in i .. b : IsCall(w[j])) => side = "assistant") /\ w[i].k \in Kinds
      BY <1>1, GroupFacts, Zenon
  <2>3. side \in Roles /\ (side = "tool" <=> IsResult(w[i]))
      BY <1>1, <2>2, SideFacts, ToolSide, Zenon
  <2> HIDE DEF p, side, b
  <2>4. CASE w[i].glue
    <3>1. <<>> \in Seq(Tells)
        OBVIOUS
    <3> QED BY <2>1, <2>4, <3>1, Zenon
  <2>5. CASE ~w[i].glue /\ IsResult(w[i])
    <3>1. ResultOf(proto, w, i) \in Tells
        BY <1>1, <2>5, ResultTells, Zenon
    <3> QED BY <2>1, <2>5, <3>1, One, Zenon
  <2>6. CASE ~w[i].glue /\ ~IsResult(w[i])
    <3>1. Grouped(proto, side, w, i, b) \in Msg /\ Grouped(proto, side, w, i, b).role = side
        BY <1>1, <2>2, <2>3, GroupedIn, Zenon
    <3>2. Grouped(proto, side, w, i, b) \in Tells
        BY <2>3, <2>6, <3>1, OthersTell, Zenon
    <3> QED BY <2>1, <2>6, <3>2, One, Zenon
  <2> QED BY <2>4, <2>5, <2>6
<1> HIDE DEF p
<1>5. FlattenSeq(p) \in Seq(Tells)
    BY <1>3, <1>4, JoinedIn
<1> QED BY <1>3, <1>5

(* So are those of Anthropic.                                                *)
LEMMA AnthropicTells ==
  ASSUME NEW w, Request("anthropic", w)
  PROVE  ParseAnthropic(w) \in Seq(Tells)
<1> DEFINE proto == "anthropic"
           p == AnthropicParts(w)
<1>1. proto \in Protos /\ w \in Wires /\ Len(w) <= MaxPieces /\ Glued(proto, w)
    BY DEF Request
<1>2. DOMAIN w = 1 .. Len(w)
    BY <1>1, WireFacts, Zenon
<1>3. ParseAnthropic(w) = FlattenSeq(p) /\ p \in Seq(Seq(Msg)) /\ Len(p) = Len(w)
    BY AnthropicIn, Zenon
<1>4. ASSUME NEW i \in 1 .. Len(w) PROVE p[i] \in Seq(Tells)
  <2> DEFINE side == Side(proto, w[i])
             b == GroupEnd(w, i)
             role == IF w[i].k = "system" /\ i = 1 THEN "system" ELSE "user"
             rest == Grouped(proto, role, w, i, b)
             last == IF NoText(rest) THEN <<>> ELSE << rest >>
             made == MadeResults(proto, w, GroupResults(w, i, b))
  <2>1. p[i] = IF w[i].glue THEN <<>>
               ELSE IF side = "assistant" THEN << Grouped(proto, "assistant", w, i, b) >> ELSE made \o last
      BY <1>2, Zenon DEF AnthropicParts, AnthropicPart, RestOf
  <2>2. role \in Roles /\ "assistant" \in Roles /\ role # "tool" /\ "assistant" # "tool"
      BY DEF Roles
  <2>3. last = <<>> \/ last = << rest >>
      BY Zenon
  <2>4. b \in i .. Len(w) /\ ((\E j \in i .. b : IsCall(w[j])) => side = "assistant") /\ w[i].k \in Kinds
      BY <1>1, GroupFacts, Zenon
  <2>5. i \in Nat /\ b \in Nat /\ i <= b /\ \A j \in i .. b : j \in 1 .. Len(w)
    <3>1. Len(w) \in Nat
        BY <1>1, WireFacts, Zenon
    <3> QED BY <2>4, <3>1
  <2> HIDE DEF p, side, role, rest, last
  <2>6. <<>> \in Seq(Tells)
      OBVIOUS
  <2>7. CASE w[i].glue
      BY <2>1, <2>6, <2>7, Zenon
  <2>8. CASE ~w[i].glue /\ side = "assistant"
    <3> DEFINE m == Grouped(proto, "assistant", w, i, b)
    <3>1. m \in Msg /\ m.role = "assistant"
        BY <1>1, <2>2, <2>4, GroupedIn, Zenon
    <3>2. m \in Tells
        BY <2>2, <3>1, OthersTell, Zenon
    <3> QED BY <2>1, <2>8, <3>2, One, Zenon
  <2>9. CASE ~w[i].glue /\ side # "assistant"
    <3>1. ~\E j \in i .. b : IsCall(w[j])
        BY <2>4, <2>9, Zenon
    <3>2. rest \in Msg /\ rest.role = role
        BY <1>1, <2>2, <2>4, <3>1, GroupedIn, Zenon DEF rest
    <3>3. rest \in Tells
        BY <2>2, <3>2, OthersTell, Zenon
    <3>4. last \in Seq(Tells)
        BY <2>3, <2>6, <3>3, One, Zenon
    <3>5. made \in Seq(Tells)
      <4> DEFINE K == {k \in 1 .. b - i + 1 : IsResult(w[i + k - 1])}
                 q == GroupResults(w, i, b)
      <4>1. q = Those(Positions(i, b), K)
          BY DEF GroupResults
      <4> HIDE DEF q
      <4>2. q \in Seq(Int) /\ PickedFrom(i, b, K, q)
        <5> HIDE DEF K
        <5>1. Those(Positions(i, b), K) \in Seq(Int) /\ PickedFrom(i, b, K, Those(Positions(i, b), K))
            BY <2>5, PickedFacts, Zenon
        <5> QED BY <4>1, <5>1, Zenon
      <4>3. \A x \in 1 .. Len(q) : q[x] \in i .. b /\ IsResult(w[q[x]])
        <5> TAKE x \in 1 .. Len(q)
        <5>1. PICK k \in 1 .. b - i + 1 : k \in K /\ i + k - 1 \in i .. b /\ q[x] = i + k - 1
            BY <4>2, Zenon DEF PickedFrom
        <5> QED BY <5>1
      <4>4. DOMAIN q = 1 .. Len(q) /\ Len(q) \in Nat
          BY <4>2, SeqFacts, Zenon
      <4>5. \A x \in 1 .. Len(q) : ResultOf(proto, w, q[x]) \in Tells
          BY <1>1, <2>5, <4>3, ResultTells, Zenon
      <4>6. made \in [1 .. Len(q) -> Tells]
          BY <4>4, <4>5, Zenon DEF MadeResults, q
      <4> HIDE DEF made
      <4> QED BY <4>4, <4>6, FunSeq, Zenon
    <3> HIDE DEF made
    <3>6. made \o last \in Seq(Tells)
        BY <3>4, <3>5
    <3> QED BY <2>1, <2>9, <3>6, Zenon
  <2> QED BY <2>7, <2>8, <2>9
<1> HIDE DEF p
<1>5. FlattenSeq(p) \in Seq(Tells)
    BY <1>3, <1>4, JoinedIn
<1> QED BY <1>3, <1>5

(* Flushing hands on what was collected, a message of calls and results.     *)
LEMMA FlushTells ==
  ASSUME NEW s \in Flow, s.out \in Seq(Tells), s.pending \in Seq(Tells)
  PROVE  LET t == FlushResults(FlushAssistant(s))
         IN  t \in Flow /\ t.out \in Seq(Tells) /\ t.pending = <<>>
<1> DEFINE a == FlushAssistant(s)
           t == FlushResults(a)
<1>1. a \in Flow
    BY FlushIn, Zenon
<1>2. t \in Flow
    BY <1>1, FlushIn, Zenon
<1>3. t.pending = <<>> /\ a.pending = s.pending
    BY <1>1, FlushPending, Zenon
<1>4. t.out = a.out \o a.pending
    BY <1>1, FlushFields, Zenon
<1>5. a.out \in Seq(Tells)
  <2>1. CASE s.cur = <<>>
    <3>1. a = s
        BY <2>1, FlushFields, Zenon
    <3> QED BY <3>1
  <2>2. CASE s.cur # <<>> /\ s.cur[1].calls = <<>>
    <3>1. a.out = s.out
        BY <2>2, FlushFields, Zenon
    <3> QED BY <3>1
  <2>3. CASE s.cur # <<>> /\ s.cur[1].calls # <<>>
    <3> DEFINE m == [s.cur[1] EXCEPT !.think = s.think]
    <3>1. a.out = Append(s.out, m)
        BY <2>3, FlushFields, Zenon
    <3>2. s.cur[1] \in Spokesman /\ s.think \in Seq(Int)
        BY <2>3, FlowFacts, Zenon
    <3>3. m \in Spokesman
        BY <3>2, SpokesmanFacts, Zenon
    <3> HIDE DEF m
    <3>4. m \in Msg /\ m.role # "tool"
        BY <3>3 DEF Spokesman
    <3>5. m \in Tells
        BY <3>4, OthersTell, Zenon
    <3> QED BY <3>1, <3>5
  <2> QED BY <2>1, <2>2, <2>3
<1> HIDE DEF a, t
<1>6. t.out \in Seq(Tells)
    BY <1>3, <1>4, <1>5
<1> QED BY <1>2, <1>3, <1>6 DEF t, a

(* Each item leaves only results of the agent.                               *)
LEMMA ItemTells ==
  ASSUME NEW w, Request("responses", w), NEW l \in 1 .. Len(w), NEW s \in Flow,
         s.out \in Seq(Tells), s.pending \in Seq(Tells)
  PROVE  ResponsesStep(s, w, l).out \in Seq(Tells) /\ ResponsesStep(s, w, l).pending \in Seq(Tells)
<1> DEFINE proto == "responses"
           next == ResponsesStep(s, w, l)
           t == FlushResults(FlushAssistant(s))
<1>0. w \in Wires /\ Len(w) <= MaxPieces
    BY DEF Request
<1>1. t \in Flow /\ t.out \in Seq(Tells)
    BY FlushTells, Zenon
<1>2. /\ w[l].k = "think" => next.out = s.out
      /\ IsCall(w[l]) => next.out = s.out \o s.pending
      /\ IsResult(w[l]) => next.out = t.out
      /\ (w[l].k # "think" /\ ~IsCall(w[l]) /\ ~IsResult(w[l])) => next.out = Append(t.out, Worded(t, w, l))
  <2>1. ItemIs(w, l, s, t, next)
      BY ItemParts, Zenon
  <2> HIDE DEF next, t
  <2> QED BY <2>1, Zenon DEF ItemIs
<1>3. /\ w[l].k = "think" => next.pending = s.pending
      /\ IsCall(w[l]) => next.pending = <<>>
      /\ IsResult(w[l]) => next.pending = << ResultOf(proto, w, l) >>
      /\ (w[l].k # "think" /\ ~IsCall(w[l]) /\ ~IsResult(w[l])) => next.pending = <<>>
    BY ItemPending, ZenonT(60)
<1>4. <<>> \in Seq(Tells) /\ s.out \o s.pending \in Seq(Tells)
    OBVIOUS
<1>5. IsResult(w[l]) => << ResultOf(proto, w, l) >> \in Seq(Tells)
    BY <1>0, ResultTells, One, Zenon
<1>6. (~IsCall(w[l]) /\ ~IsResult(w[l])) => Append(t.out, Worded(t, w, l)) \in Seq(Tells)
  <2> SUFFICES ASSUME ~IsCall(w[l]), ~IsResult(w[l]) PROVE Append(t.out, Worded(t, w, l)) \in Seq(Tells)
      OBVIOUS
  <2> DEFINE m == Worded(t, w, l)
  <2>1. m \in Msg /\ m.role # "tool"
      BY <1>1, WordedFields, Zenon
  <2>2. m \in Tells
      BY <2>1, OthersTell, Zenon
  <2> HIDE DEF m, t
  <2>3. Append(t.out, m) \in Seq(Tells)
      BY <1>1, <2>2
  <2> QED BY <2>3 DEF m
<1> HIDE DEF next, t
<1>7. next.out \in Seq(Tells)
    BY <1>1, <1>2, <1>4, <1>6, Zenon
<1>8. next.pending \in Seq(Tells)
    BY <1>3, <1>4, <1>5, Zenon
<1> QED BY <1>7, <1>8 DEF next

(* So are those of Responses.                                                *)
LEMMA ResponsesTells ==
  ASSUME NEW w, Request("responses", w)
  PROVE  ParseResponses(w) \in Seq(Tells)
<1> DEFINE N == Len(w)
           c == Flowing(w)
           I == {n \in Nat : n <= N => (c[n].out \in Seq(Tells) /\ c[n].pending \in Seq(Tells))}
<1>1. w \in Wires
    BY DEF Request
<1>2. N \in Nat
    BY <1>1, WireFacts, Zenon
<1>3. /\ ParseResponses(w) = FlushResults(FlushAssistant(c[N])).out
      /\ \A n \in 0 .. N : c[n] \in Flow
      /\ c[0] = NothingYet
      /\ \A n \in 1 .. N : c[n] = ResponsesStep(c[n - 1], w, n)
    BY FlowingFacts, Zenon
<1> HIDE DEF c
<1>4. 0 \in I
  <2>1. c[0].out = <<>> /\ c[0].pending = <<>>
      BY <1>3 DEF NothingYet
  <2>2. <<>> \in Seq(Tells)
      OBVIOUS
  <2> QED BY <2>1, <2>2
<1>5. ASSUME NEW n \in Nat, n \in I PROVE n + 1 \in I
  <2> DEFINE l == n + 1
  <2> SUFFICES ASSUME l <= N PROVE c[l].out \in Seq(Tells) /\ c[l].pending \in Seq(Tells)
      OBVIOUS
  <2>1. l \in 1 .. Len(w) /\ n \in 0 .. N /\ n <= N /\ l - 1 = n
      BY <1>2
  <2>2. c[n].out \in Seq(Tells) /\ c[n].pending \in Seq(Tells)
      BY <1>5, <2>1
  <2> HIDE DEF l, N, I
  <2>3. c[l] = ResponsesStep(c[n], w, l) /\ c[n] \in Flow
      BY <1>3, <2>1, Zenon DEF N
  <2> QED BY <2>1, <2>2, <2>3, ItemTells, Zenon
<1> HIDE DEF I
<1>6. \A n \in Nat : n \in I
    BY <1>4, <1>5, SetInduction, Zenon
<1>7. N \in 0 .. N /\ N <= N
    BY <1>2
<1>8. c[N].out \in Seq(Tells) /\ c[N].pending \in Seq(Tells) /\ c[N] \in Flow
    BY <1>2, <1>3, <1>6, <1>7, Zenon DEF I
<1> QED BY <1>3, <1>8, FlushTells, Zenon

(* So are the results of every request.                                      *)
LEMMA ParseTells ==
  ASSUME NEW proto, NEW w, Request(proto, w)
  PROVE  ParseMessages(proto, w) \in Seq(Tells)
<1>1. proto \in Protos
    BY DEF Request
<1>2. CASE proto = "chat"
    BY <1>2, ChatTells, Zenon DEF ParseMessages
<1>3. CASE proto = "anthropic"
    BY <1>3, AnthropicTells, Zenon DEF ParseMessages
<1>4. CASE proto = "responses"
    BY <1>4, ResponsesTells, Zenon DEF ParseMessages
<1> QED BY <1>1, <1>2, <1>3, <1>4 DEF Protos

-------------------------------------------------------------------------------
(* A result through the repair                                               *)

(* The history f has the call c and a result for it that is not empty, and   *)
(* all its results for c are of the agent.                                   *)
Telling(m) == ~m.img /\ m.text # << Placeholder >>
Promise(f, c) ==
  /\ \E i \in 1 .. Len(f) : HasPlace(f[i].calls, c)
  /\ \E i \in 1 .. Len(f) : f[i].role = "tool" /\ f[i].for = c.id /\ ~NoText(f[i])
  /\ \A i \in 1 .. Len(f) : (f[i].role = "tool" /\ f[i].for = c.id) => Telling(f[i])

(* Merging keeps a promise: results are not touched and calls stay.          *)
LEMMA MergePromises ==
  ASSUME NEW f \in Seq(Msg), NEW c, Promise(f, c)
  PROVE  Merge(f) \in Seq(Msg) /\ Promise(Merge(f), c)
<1> DEFINE g == Merge(f)
<1>1. g \in Seq(Msg)
    BY MergeIn, Zenon
<1>2. /\ \A i \in 1 .. Len(f) : f[i].role = "tool" => \E x \in 1 .. Len(g) : g[x] = f[i]
      /\ \A x \in 1 .. Len(g) : g[x].role = "tool" => \E i \in 1 .. Len(f) : g[x] = f[i]
      /\ (\E i \in 1 .. Len(f) : HasPlace(f[i].calls, c)) => \E x \in 1 .. Len(g) : HasPlace(g[x].calls, c)
    BY MergeHas
<1> HIDE DEF g
<1>3. \E x \in 1 .. Len(g) : HasPlace(g[x].calls, c)
    BY <1>2, Zenon DEF Promise
<1>4. \E x \in 1 .. Len(g) : g[x].role = "tool" /\ g[x].for = c.id /\ ~NoText(g[x])
  <2>1. PICK i \in 1 .. Len(f) : f[i].role = "tool" /\ f[i].for = c.id /\ ~NoText(f[i])
      BY Zenon DEF Promise
  <2>2. PICK x \in 1 .. Len(g) : g[x] = f[i]
      BY <1>2, <2>1, Zenon
  <2> QED BY <2>1, <2>2, Zenon
<1>5. \A x \in 1 .. Len(g) : (g[x].role = "tool" /\ g[x].for = c.id) => Telling(g[x])
  <2> TAKE x \in 1 .. Len(g)
  <2> SUFFICES ASSUME g[x].role = "tool", g[x].for = c.id PROVE Telling(g[x])
      OBVIOUS
  <2>1. PICK i \in 1 .. Len(f) : g[x] = f[i]
      BY <1>2, Zenon
  <2>2. f[i].role = "tool" /\ f[i].for = c.id
      BY <2>1, Zenon
  <2> QED BY <2>1, <2>2, Zenon DEF Promise
<1>6. Promise(g, c)
    BY <1>3, <1>4, <1>5, Zenon DEF Promise
<1> QED BY <1>1, <1>6 DEF g

(* Filling keeps it: only calls without a result get a placeholder.          *)
LEMMA FillPromises ==
  ASSUME NEW f \in Seq(Msg), NEW c, c.id # "", Promise(f, c)
  PROVE  Fill(f) \in Seq(Msg) /\ Promise(Fill(f), c)
<1> DEFINE g == Fill(f)
<1>1. g \in Seq(Msg)
    BY FillPartsIn, Zenon
<1>2. /\ \A i \in 1 .. Len(f) : Spot(f, i) \in 1 .. Len(g) /\ g[Spot(f, i)] = f[i]
      /\ \A x \in 1 .. Len(g) : \E i \in 1 .. Len(f) : Stays(f, i, x) \/ Follows(f, i, x)
    BY FillPlaces, Zenon
<1>3. c.id \in ResultIds(f)
  <2>1. PICK i \in 1 .. Len(f) : f[i].role = "tool" /\ f[i].for = c.id
      BY Zenon DEF Promise
  <2>2. DOMAIN f = 1 .. Len(f)
      BY SeqFacts, Zenon
  <2> QED BY <2>1, <2>2, Zenon DEF ResultIds
<1>4. \E x \in 1 .. Len(g) : HasPlace(g[x].calls, c)
    BY <1>2, Zenon DEF Promise
<1>5. \E x \in 1 .. Len(g) : g[x].role = "tool" /\ g[x].for = c.id /\ ~NoText(g[x])
  <2>1. PICK i \in 1 .. Len(f) : f[i].role = "tool" /\ f[i].for = c.id /\ ~NoText(f[i])
      BY Zenon DEF Promise
  <2> QED BY <1>2, <2>1, Zenon
<1>6. \A x \in 1 .. Len(g) : (g[x].role = "tool" /\ g[x].for = c.id) => Telling(g[x])
  <2> TAKE x \in 1 .. Len(g)
  <2> SUFFICES ASSUME g[x].role = "tool", g[x].for = c.id PROVE Telling(g[x])
      OBVIOUS
  <2>1. PICK i \in 1 .. Len(f) : Stays(f, i, x) \/ Follows(f, i, x)
      BY <1>2, Zenon
  <2>2. CASE Stays(f, i, x)
    <3>1. g[x] = f[i]
        BY <2>2, Zenon DEF Stays
    <3> QED BY <3>1, Zenon DEF Promise
  <2>3. CASE Follows(f, i, x)
    <3>1. g[x].for \notin ResultIds(f)
        BY <2>3, Zenon DEF Follows, StubAt, StubOf
    <3> QED BY <1>3, <3>1, Zenon
  <2> QED BY <2>1, <2>2, <2>3
<1> HIDE DEF g
<1>7. Promise(g, c)
    BY <1>4, <1>5, <1>6, Zenon DEF Promise
<1> QED BY <1>1, <1>7 DEF g

(* If a result of a call is not empty, the best of them is not.              *)
LEMMA BestTells ==
  ASSUME NEW s \in Seq(Msg), NEW i \in 1 .. Len(s), ~NoText(s[i])
  PROVE  \E x \in 1 .. Len(s) : BestResult(s) = s[x] /\ ~NoText(s[x])
<1> DEFINE K == {k \in DOMAIN s : ~NoText(s[k])}
           t == Those(s, K)
<1>1. BestResult(s) = Head(t \o s)
    BY Zenon DEF BestResult
<1>2. i \in K /\ \A k \in K : ~NoText(s[k])
  <2>1. DOMAIN s = 1 .. Len(s)
      BY SeqFacts, Zenon
  <2> QED BY <2>1
<1> HIDE DEF K
<1>3. t \in Seq(Msg)
    BY ThosePlaces, Zenon
<1>4. PICK g \in [1 .. Len(t) -> 1 .. Len(s)] : /\ \A x \in 1 .. Len(t) : g[x] \in K /\ t[x] = s[g[x]]
                                               /\ \A y \in 1 .. Len(s) : y \in K => \E x \in 1 .. Len(t) : g[x] = y
    BY PickedPlaces
<1>5. \E x \in 1 .. Len(t) : g[x] = i
    BY <1>2, <1>4
<1> HIDE DEF t
<1>6. 1 \in 1 .. Len(t) /\ Head(t \o s) = t[1]
    BY <1>3, <1>5
<1>7. t[1] = s[g[1]] /\ g[1] \in 1 .. Len(s) /\ g[1] \in K
    BY <1>4, <1>6
<1> QED BY <1>1, <1>2, <1>6, <1>7

(* All results of a call in the window are looked at.                        *)
LEMMA ResultsHave ==
  ASSUME NEW m, NEW w \in Seq(Msg), NEW j \in 1 .. Len(w), Answers(m, w[j])
  PROVE  HasPlace(ResultsOf(m, w, w[j].for), w[j])
<1> DEFINE id == w[j].for
           K == {k \in DOMAIN w : Answers(m, w[k]) /\ w[k].for = id}
           t == Those(w, K)
<1>1. ResultsOf(m, w, id) = t
    BY Zenon DEF ResultsOf
<1>2. j \in K
  <2>1. DOMAIN w = 1 .. Len(w)
      BY SeqFacts, Zenon
  <2> QED BY <2>1
<1> HIDE DEF K, id
<1>3. PICK g \in [1 .. Len(t) -> 1 .. Len(w)] : /\ \A x \in 1 .. Len(t) : g[x] \in K /\ t[x] = w[g[x]]
                                               /\ \A y \in 1 .. Len(w) : y \in K => \E x \in 1 .. Len(t) : g[x] = y
    BY PickedPlaces
<1>4. PICK x \in 1 .. Len(t) : g[x] = j
    BY <1>2, <1>3
<1>5. t[x] = w[j]
    BY <1>3, <1>4
<1>6. t \in Seq(Msg)
    BY ThosePlaces, Zenon
<1>7. x \in DOMAIN t
    BY <1>4, <1>6, SeqFacts, Zenon
<1> QED BY <1>1, <1>5, <1>7, Zenon DEF HasPlace, id

(* Gathering finds a result that is not empty.                               *)
LEMMA ChosenTells ==
  ASSUME NEW m, NEW w \in Seq(Msg), NEW k, IsLast(m.calls, k),
         NEW j \in 1 .. Len(w), Answers(m, w[j]), w[j].for = m.calls[k].id, ~NoText(w[j])
  PROVE  \E y \in Msg : /\ Chosen(m, w, k) = << y >>
                        /\ y.role = "tool" /\ y.for = m.calls[k].id /\ ~NoText(y)
<1> DEFINE id == m.calls[k].id
           r == ResultsOf(m, w, id)
<1>1. r \in Seq(Msg) /\ \A x \in 1 .. Len(r) : \E i \in 1 .. Len(w) : r[x] = w[i] /\ Answers(m, w[i]) /\ w[i].for = id
  <2> HIDE DEF id
  <2> QED BY ResultsFacts
<1>2. PICK x \in 1 .. Len(r) : r[x] = w[j]
  <2>1. HasPlace(ResultsOf(m, w, w[j].for), w[j])
      BY ResultsHave, Zenon
  <2>2. HasPlace(r, w[j])
      BY <2>1
  <2>3. DOMAIN r = 1 .. Len(r)
      BY <1>1, SeqFacts, Zenon
  <2> HIDE DEF r
  <2> QED BY <2>2, <2>3, Zenon DEF HasPlace
<1>3. Chosen(m, w, k) = IF IsLast(m.calls, k) /\ r # <<>> THEN << BestResult(r) >> ELSE <<>>
    BY Zenon DEF Chosen
<1> HIDE DEF r, id
<1>4. ~NoText(r[x])
    BY <1>2, Zenon
<1>5. PICK y \in 1 .. Len(r) : BestResult(r) = r[y] /\ ~NoText(r[y])
    BY <1>1, <1>4, BestTells, Zenon
<1>6. PICK i \in 1 .. Len(w) : r[y] = w[i] /\ Answers(m, w[i]) /\ w[i].for = id
    BY <1>1
<1>7. r # <<>>
    BY <1>5, EmptySeqLen
<1>8. r[y].role = "tool" /\ r[y].for = id
    BY <1>6, Zenon DEF Answers
<1>9. r[y] \in Msg
    BY <1>1, SeqFacts, Zenon
<1>10. Chosen(m, w, k) = << r[y] >>
    BY <1>3, <1>5, <1>7, Zenon
<1> QED BY <1>5, <1>8, <1>9, <1>10, Zenon DEF id

(* So does the batch as it is gathered.                                      *)
LEMMA GatheredTells ==
  ASSUME NEW m \in Msg, NEW w \in Seq(Msg), NEW k \in DOMAIN m.calls, IsLast(m.calls, k),
         NEW j \in 1 .. Len(w), Answers(m, w[j]), w[j].for = m.calls[k].id, ~NoText(w[j])
  PROVE  /\ Gathered(m, w) \in Seq(Msg)
         /\ \E x \in 1 .. Len(Gathered(m, w)) : LET y == Gathered(m, w)[x]
                                                IN  y.role = "tool" /\ y.for = m.calls[k].id /\ ~NoText(y)
<1> DEFINE p == ChosenParts(m, w)
           o == Others(m, w)
           d == FlattenSeq(p)
<1>1. /\ p \in Seq(Seq(Msg)) /\ Len(p) = Len(m.calls) /\ o \in Seq(Msg)
      /\ \A l \in 1 .. Len(m.calls) : p[l] = Chosen(m, w, l)
      /\ Gathered(m, w) = d \o o
    BY GatheredFacts
<1>2. k \in 1 .. Len(m.calls)
    BY MsgFacts, Zenon
<1>3. PICK y \in Msg : Chosen(m, w, k) = << y >> /\ y.role = "tool" /\ y.for = m.calls[k].id /\ ~NoText(y)
    BY ChosenTells, Zenon
<1>4. p[k] = << y >> /\ k \in 1 .. Len(p)
    BY <1>1, <1>2, <1>3
<1>5. d \in Seq(Msg)
    BY <1>1, FlatIn, Zenon
<1>6. HasPlace(d, y)
  <2>1. 1 \in 1 .. Len(p[k]) /\ p[k][1] = y
      BY <1>4
  <2> HIDE DEF p
  <2>2. HasPlace(FlattenSeq(p), p[k][1])
      BY <1>1, <1>4, <2>1, InJoin, Zenon
  <2> QED BY <2>1, <2>2, Zenon
<1> HIDE DEF d, p, o
<1>7. PICK x \in 1 .. Len(d) : d[x] = y
  <2>1. DOMAIN d = 1 .. Len(d)
      BY <1>5, SeqFacts, Zenon
  <2> QED BY <1>6, <2>1, Zenon DEF HasPlace
<1>8. d \o o \in Seq(Msg) /\ x \in 1 .. Len(d \o o) /\ (d \o o)[x] = y
    BY <1>1, <1>5, <1>7
<1> QED BY <1>1, <1>3, <1>8, Zenon

(* Intervals, and sequences of one.                                          *)
LEMMA Counts == /\ \A a, b \in Nat : 1 .. a = 1 .. b => a = b
                /\ \A q : q = <<>> => DOMAIN q = {}
                /\ \A y : Len(<< y >>) = 1 /\ << y >>[1] = y /\ 1 \in 1 .. Len(<< y >>)
  OBVIOUS

OneFirst(m, g, p) == /\ DOMAIN p = 1 .. Len(p) /\ 1 \in 1 .. Len(p) /\ p[1] = m
                     /\ \A y \in 1 .. Len(g) : 1 + y \in 1 .. Len(p) /\ p[1 + y] = g[y]
(* A sequence with one member put before it.                                 *)
LEMMA OneBefore ==
  ASSUME NEW S, NEW m \in S, NEW g \in Seq(S)
  PROVE  << m >> \o g \in Seq(S) /\ OneFirst(m, g, << m >> \o g)
<1>1. << m >> \o g \in Seq(S)
    OBVIOUS
<1>2. OneFirst(m, g, << m >> \o g)
    BY DEF OneFirst
<1> QED BY <1>1, <1>2

(* The part of the message that made the call has the call first, and a      *)
(* result that is not empty.                                                 *)
LEMMA PartTells ==
  ASSUME NEW f \in Seq(Msg), InTime(f), NEW c, c.id # "", Promise(f, c)
  PROVE  \E h \in 1 .. Len(f) :
           /\ Part(f, h) \in Seq(Msg) /\ 1 \in 1 .. Len(Part(f, h)) /\ HasPlace(Part(f, h)[1].calls, c)
           /\ \E x \in 1 .. Len(Part(f, h)) : LET y == Part(f, h)[x]
                                              IN  y.role = "tool" /\ y.for = c.id /\ ~NoText(y)
<1>1. PICK h \in 1 .. Len(f) : HasPlace(f[h].calls, c)
    BY Zenon DEF Promise
<1>2. PICK k \in DOMAIN f[h].calls : f[h].calls[k] = c
    BY <1>1, Zenon DEF HasPlace
<1>3. PICK j \in 1 .. Len(f) : f[j].role = "tool" /\ f[j].for = c.id /\ ~NoText(f[j])
    BY Zenon DEF Promise
<1> DEFINE m == f[h]
           w == Window(f, h)
           g == Gathered(m, w)
<1>4. m \in Msg /\ w \in Seq(Msg)
    BY SeqFacts, WindowFacts, Zenon
<1>5. PICK x \in 1 .. Len(w) : w[x] = f[j] /\ Answers(m, f[j])
  <2>1. Result(f, h, k, j)
      BY <1>2, <1>3, Zenon DEF Result
  <2> QED BY <2>1, ResultNear, Zenon
<1>6. IsLast(m.calls, k)
    BY CallsOnce, Zenon
<1>7. IsHead(m)
  <2>1. Answers(m, f[j])
      BY <1>5
  <2>2. m.calls # <<>>
    <3> QED BY <1>2, Counts, Zenon
  <2> QED BY <1>4, <2>2, MsgFacts, Zenon DEF IsHead
<1>8. Part(f, h) = << m >> \o g
    BY <1>7, Zenon DEF Part, Window
<1> HIDE DEF w
<1>9. g \in Seq(Msg) /\ \E y \in 1 .. Len(g) : g[y].role = "tool" /\ g[y].for = c.id /\ ~NoText(g[y])
  <2>1. Answers(m, w[x]) /\ w[x].for = m.calls[k].id /\ ~NoText(w[x])
      BY <1>2, <1>3, <1>5, Zenon
  <2>2. /\ Gathered(m, w) \in Seq(Msg)
        /\ \E y \in 1 .. Len(Gathered(m, w)) : LET z == Gathered(m, w)[y]
                                               IN  z.role = "tool" /\ z.for = m.calls[k].id /\ ~NoText(z)
    <3> HIDE DEF m
    <3>1. k \in DOMAIN m.calls
        BY <1>2 DEF m
    <3> QED BY <1>4, <1>6, <2>1, <3>1, GatheredTells
  <2> QED BY <1>2, <2>2
<1>10. PICK y \in 1 .. Len(g) : g[y].role = "tool" /\ g[y].for = c.id /\ ~NoText(g[y])
    BY <1>9
<1> HIDE DEF g, m
<1> DEFINE p == << m >> \o g
<1>11. p \in Seq(Msg) /\ 1 \in 1 .. Len(p) /\ p[1] = m /\ 1 + y \in 1 .. Len(p) /\ p[1 + y] = g[y]
  <2>1. g \in Seq(Msg)
      BY <1>9
  <2>2. p \in Seq(Msg) /\ OneFirst(m, g, p)
      BY <1>4, <2>1, OneBefore, Zenon
  <2> HIDE DEF p
  <2> QED BY <2>2, Zenon DEF OneFirst
<1> HIDE DEF p
<1>12. HasPlace(p[1].calls, c)
    BY <1>1, <1>11 DEF m
<1>13. \E z \in 1 .. Len(p) : p[z].role = "tool" /\ p[z].for = c.id /\ ~NoText(p[z])
    BY <1>10, <1>11, Zenon
<1>14. Part(f, h) = p
    BY <1>8 DEF p
<1> QED BY <1>11, <1>12, <1>13, <1>14

(* Gathering keeps the promise.                                              *)
LEMMA RepackPromises ==
  ASSUME NEW f \in Seq(Msg), InTime(f), NEW c, c.id # "", Promise(f, c)
  PROVE  Repack(f) \in Seq(Msg) /\ Promise(Repack(f), c)
<1> DEFINE r == Repack(f)
<1>1. r \in Seq(Msg) /\ \A x \in 1 .. Len(r) : \E j \in 1 .. Len(f) : r[x] = f[j]
    BY RepackFrom
<1>2. CASE Len(f) < 3
  <2>1. r = f
      BY <1>2, Zenon DEF Repack
  <2> HIDE DEF r
  <2> QED BY <1>1, <2>1 DEF r
<1>3. CASE ~(Len(f) < 3)
  <2> DEFINE p == RepackParts(f)
  <2>1. r = FlattenSeq(p)
      BY <1>3, Zenon DEF Repack, RepackParts
  <2>2. p \in Seq(Seq(Msg))
      BY PartsFrom, Zenon
  <2>3. DOMAIN f = 1 .. Len(f) /\ Len(p) = Len(f) /\ \A i \in 1 .. Len(f) : p[i] = Part(f, i)
    <3>1. DOMAIN f = 1 .. Len(f) /\ Len(f) \in Nat
        BY SeqFacts, Zenon
    <3>2. DOMAIN p = 1 .. Len(f) /\ \A i \in 1 .. Len(f) : p[i] = Part(f, i)
        BY <3>1, Zenon DEF RepackParts
    <3> HIDE DEF p
    <3>3. DOMAIN p = 1 .. Len(p) /\ Len(p) \in Nat
        BY <2>2, SeqFacts, Zenon
    <3>4. Len(p) = Len(f)
        BY <3>1, <3>2, <3>3, Counts, Zenon
    <3> QED BY <3>1, <3>2, <3>4
  <2>4. PICK h \in 1 .. Len(f) :
           /\ Part(f, h) \in Seq(Msg) /\ 1 \in 1 .. Len(Part(f, h)) /\ HasPlace(Part(f, h)[1].calls, c)
           /\ \E x \in 1 .. Len(Part(f, h)) : LET y == Part(f, h)[x]
                                              IN  y.role = "tool" /\ y.for = c.id /\ ~NoText(y)
      BY PartTells
  <2> HIDE DEF p, r
  <2>5. p[h] = Part(f, h) /\ h \in 1 .. Len(p)
      BY <2>3, <2>4
  <2>6. \A x \in 1 .. Len(p[h]) : HasPlace(r, p[h][x])
      BY <2>1, <2>2, <2>5, InJoin
  <2>7. DOMAIN r = 1 .. Len(r)
      BY <1>1, SeqFacts, Zenon
  <2>8. \E i \in 1 .. Len(r) : HasPlace(r[i].calls, c)
    <3>1. HasPlace(r, p[h][1]) /\ HasPlace(p[h][1].calls, c)
        BY <2>4, <2>5, <2>6
    <3>2. PICK i \in 1 .. Len(r) : r[i] = p[h][1]
        BY <2>7, <3>1, Zenon DEF HasPlace
    <3> QED BY <3>1, <3>2, Zenon
  <2>9. \E i \in 1 .. Len(r) : r[i].role = "tool" /\ r[i].for = c.id /\ ~NoText(r[i])
    <3>1. PICK x \in 1 .. Len(p[h]) : p[h][x].role = "tool" /\ p[h][x].for = c.id /\ ~NoText(p[h][x])
        BY <2>4, <2>5
    <3>2. HasPlace(r, p[h][x])
        BY <2>6
    <3>3. PICK i \in 1 .. Len(r) : r[i] = p[h][x]
        BY <2>7, <3>2, Zenon DEF HasPlace
    <3> QED BY <3>1, <3>3, Zenon
  <2>10. \A i \in 1 .. Len(r) : (r[i].role = "tool" /\ r[i].for = c.id) => Telling(r[i])
    <3> TAKE i \in 1 .. Len(r)
    <3>1. PICK j \in 1 .. Len(f) : r[i] = f[j]
        BY <1>1
    <3> QED BY <3>1, Zenon DEF Promise
  <2>11. Promise(r, c)
      BY <2>8, <2>9, <2>10, Zenon DEF Promise
  <2> QED BY <1>1, <2>11 DEF r
<1> QED BY <1>2, <1>3

(* A call with a name and its result are not cleaned away.                   *)
LEMMA CallsNamed ==
  ASSUME NEW f \in Seq(Msg), InTime(f), NEW c, c.name # "", Promise(f, c)
  PROVE  \A h \in 1 .. Len(Repack(f)) : \A k \in DOMAIN Repack(f)[h].calls :
           Repack(f)[h].calls[k].id = c.id => Repack(f)[h].calls[k].name # ""
<1> DEFINE r == Repack(f)
<1>1. \A x \in 1 .. Len(r) : \E j \in 1 .. Len(f) : r[x] = f[j]
    BY RepackFrom
<1> HIDE DEF r
<1>2. PICK i \in 1 .. Len(f) : HasPlace(f[i].calls, c)
    BY Zenon DEF Promise
<1>3. PICK l \in DOMAIN f[i].calls : f[i].calls[l] = c
    BY <1>2, Zenon DEF HasPlace
<1>4. ASSUME NEW h \in 1 .. Len(r), NEW k \in DOMAIN r[h].calls, r[h].calls[k].id = c.id
      PROVE  r[h].calls[k].name # ""
  <2>1. PICK j \in 1 .. Len(f) : r[h] = f[j]
      BY <1>1
  <2>2. k \in DOMAIN f[j].calls /\ f[j].calls[k].id = f[i].calls[l].id
      BY <1>3, <1>4, <2>1, Zenon
  <2>3. \A x, y \in 1 .. Len(f) : \A a \in DOMAIN f[x].calls, b \in DOMAIN f[y].calls :
          f[x].calls[a].id = f[y].calls[b].id => x = y /\ a = b
      BY InTimeFacts
  <2>4. j = i /\ k = l
      BY <1>3, <2>2, <2>3, Zenon
  <2> QED BY <1>3, <2>1, <2>4, Zenon
<1> QED BY <1>4 DEF r

(* A named call with a result stays, and so does the result.                 *)
LEMMA CleanupTells ==
  ASSUME NEW f \in Seq(Msg), NEW c, c.id # "", Promise(f, c),
         \A h \in 1 .. Len(f) : \A k \in DOMAIN f[h].calls : f[h].calls[k].id = c.id => f[h].calls[k].name # ""
  PROVE  /\ Cleanup(f) \in Seq(Msg)
         /\ \E x \in 1 .. Len(Cleanup(f)) : LET y == Cleanup(f)[x] IN
              y.role = "tool" /\ y.for = c.id /\ y.text # << Placeholder >> /\ y.text # <<>>
<1> DEFINE K == Kept(f)
           p == CleanParts(f, K)
           d == FlattenSeq(p)
<1>1. PICK i \in 1 .. Len(f) : f[i].role = "tool" /\ f[i].for = c.id /\ ~NoText(f[i])
    BY Zenon DEF Promise
<1>2. c.id \in K
  <2>1. \E h \in 1 .. Len(f) : \E k \in DOMAIN f[h].calls : f[h].calls[k].id = c.id
      BY Zenon DEF Promise, HasPlace
  <2> QED BY <1>1, <2>1, KeptFacts
<1> HIDE DEF K
<1>3. /\ p \in Seq(Seq(Msg)) /\ Len(p) = Len(f) /\ Clean(f, K) = d
      /\ \A j \in 1 .. Len(f) : p[j] = CleanOne(f[j], K)
    BY CleanPartsIn
<1>4. Cleanup(f) = d /\ d \in Seq(Msg)
  <2>1. Clean(f, K) \in Seq(Msg)
      BY CleanIn, Zenon
  <2> QED BY <1>3, <2>1, Zenon DEF Cleanup, K
<1> DEFINE m == f[i]
           y == Pruned(f[i], K)
<1>5. m \in Msg
    BY SeqFacts, Zenon
<1>6. y.role = "tool" /\ y.for = c.id
    BY <1>1, <1>5, PrunedFacts, Zenon
<1>7. y.text = m.text
  <2> DEFINE q == Those(m.calls, {k \in DOMAIN m.calls : m.calls[k].id \in K})
  <2>1. y = [m EXCEPT !.calls = q]
      BY DEF Pruned
  <2>2. m \in MsgType
      BY <1>5 DEF Msg
  <2> HIDE DEF q, m, y
  <2> QED BY <2>1, <2>2 DEF MsgType
<1>8. m.text # << Placeholder >> /\ m.text # <<>>
  <2>1. Telling(m)
      BY <1>1, Zenon DEF Promise
  <2> QED BY <1>1, <2>1, Zenon DEF Telling, NoText
<1>9. p[i] = << y >>
  <2>1. ~Gone(m, K)
      BY <1>1, <1>2, Zenon DEF Gone
  <2>2. CleanOne(m, K) = << y >>
      BY <1>5, <2>1, CleanOneFacts, Zenon
  <2> HIDE DEF p, y
  <2> QED BY <1>3, <2>2
<1> HIDE DEF y, m
<1>10. HasPlace(d, y)
  <2> HIDE DEF p
  <2>1. i \in 1 .. Len(p) /\ 1 \in 1 .. Len(p[i]) /\ p[i][1] = y
    <3>1. i \in 1 .. Len(p)
        BY <1>3
    <3> QED BY <1>9, <3>1, Counts, Zenon
  <2>2. HasPlace(FlattenSeq(p), p[i][1])
      BY <1>3, <2>1, InJoin, Zenon
  <2> QED BY <2>1, <2>2, Zenon
<1> HIDE DEF d
<1>11. PICK x \in 1 .. Len(d) : d[x] = y
  <2>1. DOMAIN d = 1 .. Len(d)
      BY <1>4, SeqFacts, Zenon
  <2> QED BY <1>10, <2>1, Zenon DEF HasPlace
<1>12. d[x].role = "tool" /\ d[x].for = c.id /\ d[x].text # << Placeholder >> /\ d[x].text # <<>>
    BY <1>6, <1>7, <1>8, <1>11, Zenon
<1> QED BY <1>4, <1>12, Zenon

(* What the repair of a history tells a model.                               *)
ToldIn(N, c) == \E x \in DOMAIN N : /\ N[x].role = "tool" /\ N[x].for = c.id
                                    /\ N[x].text # << Placeholder >> /\ N[x].text # <<>>

(* The four passes keep what was promised.                                   *)
LEMMA RepairTells ==
  ASSUME NEW f \in Seq(Msg), InTime(Merge(f)), NEW c, c.id # "", c.name # "", Promise(f, c)
  PROVE  Repair(f) \in Seq(Msg) /\ ToldIn(Repair(f), c)
<1> DEFINE m == Merge(f)
           g == Fill(m)
           r == Repack(g)
<1>1. m \in Seq(Msg) /\ Promise(m, c)
    BY MergePromises, Zenon
<1>2. InTime(m)
    OBVIOUS
<1>3. Repair(f) = Cleanup(r)
    BY Zenon DEF Repair
<1> HIDE DEF m
<1>4. g \in Seq(Msg) /\ Promise(g, c)
    BY <1>1, FillPromises, Zenon
<1>5. InTime(g)
    BY <1>1, <1>2, FillInTime, Zenon
<1> HIDE DEF g
<1>6. r \in Seq(Msg) /\ Promise(r, c)
    BY <1>4, <1>5, RepackPromises, Zenon
<1>7. \A h \in 1 .. Len(r) : \A k \in DOMAIN r[h].calls : r[h].calls[k].id = c.id => r[h].calls[k].name # ""
    BY <1>4, <1>5, CallsNamed
<1> HIDE DEF r
<1>8. /\ Cleanup(r) \in Seq(Msg)
      /\ \E x \in 1 .. Len(Cleanup(r)) : LET y == Cleanup(r)[x] IN
           y.role = "tool" /\ y.for = c.id /\ y.text # << Placeholder >> /\ y.text # <<>>
    BY <1>6, <1>7, CleanupTells
<1>9. DOMAIN Cleanup(r) = 1 .. Len(Cleanup(r))
    BY <1>8, SeqFacts, Zenon
<1>10. ToldIn(Cleanup(r), c)
    BY <1>8, <1>9, Zenon DEF ToldIn
<1> QED BY <1>3, <1>8, <1>10

(* And what WorkBuddy gets tells it too.                                     *)
LEMMA WbTells ==
  ASSUME NEW u, NEW e, NEW f \in Seq(Msg), InTime(Merge(f)), NEW c, c.id # "", c.name # "", Promise(f, c)
  PROVE  ToldIn(WbBody(u, f, e), c)
<1> DEFINE r == Repair(f)
           b == WbBody(u, f, e)
<1>1. r \in Seq(Msg) /\ ToldIn(r, c)
    BY RepairTells, Zenon
<1>2. PICK N : Echoes(r, N) /\ (b = N \/ b = << Greeting >> \o N)
    BY <1>1, WbBodyIs, Zenon
<1>3. PICK x \in 1 .. Len(r) : /\ r[x].role = "tool" /\ r[x].for = c.id
                               /\ r[x].text # << Placeholder >> /\ r[x].text # <<>>
  <2>1. DOMAIN r = 1 .. Len(r)
      BY <1>1, SeqFacts, Zenon
  <2> QED BY <1>1, <2>1, Zenon DEF ToldIn
<1> HIDE DEF r, b
<1>4. Len(r) \in Nat
    BY <1>1, SeqFacts, Zenon
<1>5. /\ DOMAIN N = 1 .. Len(r) /\ N = [i \in DOMAIN N |-> N[i]]
      /\ N[x].role = r[x].role /\ N[x].for = r[x].for /\ (r[x].role # "system" => N[x].text = r[x].text)
    BY <1>2, Zenon DEF Echoes
<1>6. N[x].role = "tool" /\ N[x].for = c.id /\ N[x].text # << Placeholder >> /\ N[x].text # <<>>
  <2>1. "tool" # "system"
      OBVIOUS
  <2> QED BY <1>3, <1>5, <2>1, Zenon
<1>7. CASE b = N
    BY <1>5, <1>6, <1>7, Zenon DEF b, ToldIn
<1>8. CASE b = << Greeting >> \o N
  <2>1. 1 + x \in DOMAIN (<< Greeting >> \o N) /\ (<< Greeting >> \o N)[1 + x] = N[x]
    <3> DEFINE T == {Greeting} \cup {N[i] : i \in 1 .. Len(r)}
    <3>1. N \in [1 .. Len(r) -> T] /\ Greeting \in T
        BY <1>5
    <3> HIDE DEF T
    <3>2. N \in Seq(T) /\ Len(N) = Len(r)
        BY <1>4, <3>1, FunSeq, Zenon
    <3>3. x \in 1 .. Len(N)
        BY <3>2
    <3>4. OneFirst(Greeting, N, << Greeting >> \o N)
        BY <3>1, <3>2, OneBefore, Zenon
    <3> QED BY <3>3, <3>4, Zenon DEF OneFirst
  <2> QED BY <1>6, <1>8, <2>1, Zenon DEF b, ToldIn
<1> QED BY <1>2, <1>7, <1>8

-------------------------------------------------------------------------------
(* Nothing is lost                                                           *)

(* A call of a parsed history that has a result which says something.        *)
LEMMA PromiseOf ==
  ASSUME NEW f \in Seq(Tells), NEW c \in AllCalls(f),
         NEW i \in 1 .. Len(f), f[i].role = "tool", f[i].for = c.id, ~NoText(f[i])
  PROVE  Promise(f, c)
<1>1. DOMAIN f = 1 .. Len(f) /\ \A j \in 1 .. Len(f) : f[j] \in Tells
    BY SeqFacts, Zenon
<1>2. \E h \in 1 .. Len(f) : HasPlace(f[h].calls, c)
  <2>1. PICK h \in DOMAIN f : c \in {f[h].calls[k] : k \in DOMAIN f[h].calls}
      BY Zenon DEF AllCalls
  <2>2. PICK k \in DOMAIN f[h].calls : f[h].calls[k] = c
      BY <2>1
  <2> QED BY <1>1, <2>1, <2>2, Zenon DEF HasPlace
<1>3. \A j \in 1 .. Len(f) : f[j].role = "tool" => Telling(f[j])
    BY <1>1, Zenon DEF Tells, Telling
<1> QED BY <1>2, <1>3, Zenon DEF Promise

LEMMA NothingLostHolds == ConvertInv => NothingLost
<1> SUFFICES ASSUME ConvertInv, pc = "sent"
             PROVE  /\ Spoken(body, in.wire) = Said(in.wire)
                    /\ (up.kind = "wb" /\ InTime(Merge(chat))) =>
                         \A i \in DOMAIN chat : \A c \in AllCalls(chat) :
                           (chat[i].role = "tool" /\ chat[i].for = c.id /\ c.id # "" /\ c.name # "" /\ ~NoText(chat[i])) =>
                             \E j \in DOMAIN body : /\ body[j].role = "tool" /\ body[j].for = c.id
                                                    /\ body[j].text # << Placeholder >> /\ body[j].text # <<>>
    BY Zenon DEF NothingLost
<1> DEFINE w == in.wire
<1>1. Request(in.proto, w) /\ Parsed /\ Converted
  <2>1. pc # "wire" /\ pc \in {"sent", "replied"}
      OBVIOUS
  <2> QED BY <2>1, Zenon DEF ConvertInv
<1>2. chat \in Seq(Tells) /\ chat \in Seq(Msg) /\ Spoken(chat, w) = Said(w)
    BY <1>1, ParseTells, ParseIn, ParseSpeaks, Zenon DEF Parsed
<1>3. up.kind \in {"wb", "ta3", "custom"}
    BY <1>1, ConvertAssumption DEF Converted, UpstreamType
<1>4. body = Body(up, in, chat, sent.switch)
    BY <1>1, Zenon DEF Converted
<1> HIDE DEF w
<1>5. CASE up.kind = "wb"
  <2> DEFINE e == sent.switch = "enabled"
  <2>1. body = WbBody(up, chat, e)
      BY <1>4, <1>5, Zenon DEF Body
  <2>2. Repair(chat) \in Seq(Msg) /\ Spoken(Repair(chat), w) = Spoken(chat, w)
      BY <1>2, RepairSpeaks, Zenon
  <2>3. Spoken(body, w) = Said(w)
    <3> HIDE DEF e
    <3>1. Spoken(WbBody(up, chat, e), w) = Spoken(Repair(chat), w)
        BY <2>2, WbSpeaks, Zenon
    <3> QED BY <1>2, <2>1, <2>2, <3>1, Zenon
  <2>4. ASSUME InTime(Merge(chat)), NEW i \in DOMAIN chat, NEW c \in AllCalls(chat), chat[i].role = "tool",
               chat[i].for = c.id, c.id # "", c.name # "", ~NoText(chat[i])
        PROVE  \E j \in DOMAIN body : /\ body[j].role = "tool" /\ body[j].for = c.id
                                      /\ body[j].text # << Placeholder >> /\ body[j].text # <<>>
    <3>1. i \in 1 .. Len(chat)
        BY <1>2, SeqFacts, Zenon
    <3>2. Promise(chat, c)
        BY <1>2, <2>4, <3>1, PromiseOf, Zenon
    <3> HIDE DEF e
    <3>3. ToldIn(WbBody(up, chat, e), c)
        BY <1>2, <2>4, <3>2, WbTells, Zenon
    <3> QED BY <2>1, <3>3, Zenon DEF ToldIn
  <2> QED BY <2>3, <2>4, Zenon DEF w
<1>6. CASE up.kind = "ta3"
  <2>1. up.kind # "wb"
      BY <1>6
  <2>2. body = Ta3Body(up, chat, Context(in.tools, in.mode), in.mode)
      BY <1>4, <1>6 DEF Body
  <2>3. Spoken(Ta3Body(up, chat, Context(in.tools, in.mode), in.mode), w) = Spoken(chat, w)
    <3> DEFINE x == Context(in.tools, in.mode)
               y == in.mode
    <3> HIDE DEF x, y
    <3>1. Spoken(Ta3Body(up, chat, x, y), w) = Spoken(chat, w)
        BY <1>2, Ta3Speaks
    <3> QED BY <3>1 DEF x, y
  <2>4. Spoken(body, w) = Said(w)
      BY <1>2, <2>2, <2>3
  <2> QED BY <2>1, <2>4, Zenon DEF w
<1>7. CASE up.kind = "custom"
  <2>1. up.kind # "wb"
      BY <1>7
  <2>2. body = chat
      BY <1>4, <1>7 DEF Body, CustomBody
  <2> QED BY <1>2, <2>1, <2>2, Zenon DEF w
<1> QED BY <1>3, <1>5, <1>6, <1>7

(* Texts of the user and of the assistant reach every upstream once each and *)
(* in their order, and a result that is not empty reaches WorkBuddy.         *)
THEOREM NothingLostAlways == Spec => []NothingLost
  BY ConvertTyping, NothingLostHolds, PTL

=============================================================================
