--------------------------- MODULE ConvertProofs ---------------------------
(***************************************************************************)
(* Theorems about Convert, the path of a chat request through the relay,   *)
(* for every number of pieces, every request and every upstream.           *)
(*                                                                         *)
(* The steps of Convert only compute: from the request comes the chat      *)
(* history, from the history and the upstream the body, from a tool name   *)
(* the call that the agent gets.  The inductive invariant ConvertInv says  *)
(* that each variable is that function of the request, and the request one *)
(* an agent can write; every property then is a fact about the functions.  *)
(*                                                                         *)
(* RepairHolds.  Parsing gives a list of messages (ParseIn).  Fill keeps a *)
(* history in time (FillInTime).  Of one that is in time, repacking makes  *)
(* for every message a part that is paired once it is cleaned (PartPaired):*)
(* the call and its result are kept or dropped together, since the ids to  *)
(* keep are those that a call and a result have.  Cleaning goes message by *)
(* message and being paired is kept by joining, so the whole is paired     *)
(* (RepackPaired).  A history that is paired and named, with no id twice   *)
(* in a message, is left alone by each of the four passes (RepairStays),   *)
(* and repair gives such a history: so it is stable.                       *)
(*                                                                         *)
(* ThinkingSent.  By cases on the upstream, the request and the forced     *)
(* effort; the reasoning of the messages by cases on whether it is on.     *)
(*                                                                         *)
(* CallsComeBack.  GoodContext holds of the disguise while the tools are   *)
(* declared one by one, by induction over their number: every name sent is *)
(* passed through or stands for a declared tool, and its keys lead back.   *)
(*                                                                         *)
(* ReasoningStays.  In Chat and Anthropic a piece and the one glued to it  *)
(* are of one group (SameFirst), whose message has both (GroupedHolds).    *)
(* In Responses, by induction over the items: once both pieces are read    *)
(* the message has been handed on, or the calls being put together have    *)
(* the call and the reasoning waits for them (BothRead, ItemKeeps).        *)
(***************************************************************************)
EXTENDS Convert, SequenceTheorems, WellFoundedInduction, TLAPS

-------------------------------------------------------------------------------
(* Induction, and joins of sequences                                         *)

(* A nonempty set of numbers has a least one.                                *)
LEMMA LeastNumber ==
  ASSUME NEW T, T \subseteq Nat, T # {}
  PROVE  \E x \in T : \A y \in T : x <= y
<1>1. PICK x \in T : \A y \in T : ~(<<y, x>> \in OpToRel(<, Nat))
    BY NatLessThanWellFounded, WFMin, Zenon
<1>2. \A m \in Nat, n \in Nat : <<m, n>> \in Nat \X Nat /\ <<m, n>>[1] = m /\ <<m, n>>[2] = n
    OBVIOUS
<1>3. \A m \in Nat, n \in Nat : m < n => <<m, n>> \in OpToRel(<, Nat)
    BY <1>2, Zenon DEF OpToRel
<1>4. \A y \in T : ~(y < x)
    BY <1>1, <1>3, Zenon
<1> QED BY <1>4

(* Induction over the numbers, by the set of those a fact holds of.          *)
LEMMA SetInduction ==
  ASSUME NEW T, 0 \in T, \A n \in Nat : n \in T => n + 1 \in T
  PROVE  \A n \in Nat : n \in T
<1> SUFFICES ASSUME Nat \ T # {} PROVE FALSE
    OBVIOUS
<1>1. PICK x \in Nat \ T : \A y \in Nat \ T : x <= y
    BY LeastNumber
<1>2. x - 1 \in Nat
    BY <1>1
<1>3. x - 1 \in T
    BY <1>1, <1>2
<1> QED BY <1>2, <1>3

(* A function over 1 .. n is a sequence.                                     *)
LEMMA FunSeq ==
  ASSUME NEW S, NEW n \in Nat, NEW f \in [1 .. n -> S]
  PROVE  f \in Seq(S) /\ Len(f) = n /\ DOMAIN f = 1 .. n
  OBVIOUS

(* FlattenSeq joins the parts from the left: Pre(p, n) is the join of the    *)
(* first n, read off the recursive function of the library module.           *)
FlatStep(p, g, i) == IF i = 1 THEN p[i] ELSE g[i - 1] \o p[i]
FlatIs(p, n, g) == g = [i \in 1 .. n |-> FlatStep(p, g, i)]
FlatTo(p) == CHOOSE g : FlatIs(p, Len(p), g)
Pre(p, n) == IF n = 0 THEN <<>> ELSE FlatTo(p)[n]

(* The recursive function of FlattenSeq exists, for every number of parts.   *)
LEMMA FlatExists ==
  ASSUME NEW p
  PROVE  \A n \in Nat : \E g : FlatIs(p, n, g)
<1> DEFINE T == {n \in Nat : \E g : FlatIs(p, n, g)}
<1>1. 0 \in T
  <2> DEFINE g == [i \in 1 .. 0 |-> <<>>]
  <2>1. FlatIs(p, 0, g)
      BY DEF FlatIs, FlatStep
  <2> QED BY <2>1
<1>2. ASSUME NEW n \in Nat, n \in T PROVE n + 1 \in T
  <2>1. PICK g : FlatIs(p, n, g)
      BY <1>2
  <2> DEFINE h == [i \in 1 .. n + 1 |-> FlatStep(p, g, i)]
  <2>2. \A i \in 1 .. n : g[i] = FlatStep(p, g, i)
      BY <2>1, Zenon DEF FlatIs
  <2>3. \A i \in 1 .. n : i \in 1 .. n + 1
      OBVIOUS
  <2>4. \A i \in 1 .. n : h[i] = g[i]
      BY <2>2, <2>3, Zenon
  <2>5. ASSUME NEW i \in 1 .. n + 1 PROVE FlatStep(p, h, i) = FlatStep(p, g, i)
    <3>1. CASE i = 1
        BY <3>1 DEF FlatStep
    <3>2. CASE i # 1
      <4>1. i - 1 \in 1 .. n
          BY <3>2
      <4>2. h[i - 1] = g[i - 1]
          BY <2>4, <4>1
      <4> HIDE DEF h
      <4> QED BY <4>2, Zenon DEF FlatStep
    <3> QED BY <3>1, <3>2
  <2>6. h = [i \in 1 .. n + 1 |-> FlatStep(p, h, i)]
      BY <2>5, Zenon
  <2>7. FlatIs(p, n + 1, h)
      BY <2>6 DEF FlatIs
  <2> QED BY <2>7
<1> HIDE DEF T
<1>3. \A n \in Nat : n \in T
    BY <1>1, <1>2, SetInduction
<1> QED BY <1>3 DEF T

(* FlattenSeq reads the last value of that function.                         *)
LEMMA FlatValues ==
  ASSUME NEW p, Len(p) \in Nat
  PROVE  /\ FlatIs(p, Len(p), FlatTo(p))
         /\ Len(p) # 0 => FlattenSeq(p) = FlatTo(p)[Len(p)]
<1>1. FlatIs(p, Len(p), FlatTo(p))
    BY FlatExists, Zenon DEF FlatTo
<1>2. Len(p) # 0 => FlattenSeq(p) = FlatTo(p)[Len(p)]
    BY Zenon DEF FlattenSeq, FlatTo, FlatIs, FlatStep
<1> QED BY <1>1, <1>2

(* The join of n parts is the join of n - 1 followed by the n-th.            *)
LEMMA FlatNext ==
  ASSUME NEW S, NEW p \in Seq(Seq(S))
  PROVE  /\ FlattenSeq(p) = Pre(p, Len(p))
         /\ Pre(p, 0) = <<>>
         /\ \A n \in 1 .. Len(p) : Pre(p, n) = Pre(p, n - 1) \o p[n]
<1>0. Len(p) \in Nat /\ (Len(p) = 0 => p = <<>>) /\ \A i \in 1 .. Len(p) : p[i] \in Seq(S)
    BY EmptySeq
<1> DEFINE g == FlatTo(p)
<1>1. g = [i \in 1 .. Len(p) |-> FlatStep(p, g, i)]
    BY <1>0, FlatValues, Zenon DEF FlatIs
<1> HIDE DEF g
<1>2. \A i \in 1 .. Len(p) : g[i] = FlatStep(p, g, i)
    BY <1>1, Zenon
<1>3. ASSUME NEW n \in 1 .. Len(p) PROVE Pre(p, n) = Pre(p, n - 1) \o p[n]
  <2>1. n # 0 /\ Pre(p, n) = FlatStep(p, g, n)
      BY <1>2 DEF Pre, g
  <2>2. CASE n = 1
    <3>1. Pre(p, n) = p[n] /\ Pre(p, n - 1) = <<>>
        BY <2>1, <2>2 DEF FlatStep, Pre
    <3>2. \A x \in Seq(S) : <<>> \o x = x
        OBVIOUS
    <3> QED BY <1>0, <3>1, <3>2
  <2>3. CASE n # 1
    <3>1. n - 1 # 0
        BY <2>3
    <3> QED BY <2>1, <2>3, <3>1, Zenon DEF FlatStep, Pre, g
  <2> QED BY <2>2, <2>3
<1>4. FlattenSeq(p) = Pre(p, Len(p))
  <2>1. CASE Len(p) = 0
    <3>1. FlattenSeq(p) = p
        BY <2>1, Zenon DEF FlattenSeq
    <3> QED BY <1>0, <2>1, <3>1 DEF Pre
  <2>2. CASE Len(p) # 0
      BY <1>0, <2>2, FlatValues DEF Pre
  <2> QED BY <2>1, <2>2
<1>5. Pre(p, 0) = <<>>
    BY DEF Pre
<1> QED BY <1>3, <1>4, <1>5

(* A join of members of a set closed under concatenation is in the set.      *)
LEMMA FlatClosed ==
  ASSUME NEW S, NEW T, T \subseteq Seq(S), <<>> \in T, \A a, b \in T : a \o b \in T, NEW p \in Seq(T)
  PROVE  FlattenSeq(p) \in T /\ \A n \in 0 .. Len(p) : Pre(p, n) \in T
<1>1. p \in Seq(Seq(S)) /\ Len(p) \in Nat /\ \A i \in 1 .. Len(p) : p[i] \in T
    BY SeqMonotonic
<1>Fp. FlattenSeq(p) = Pre(p, Len(p)) /\ Pre(p, 0) = <<>> /\ \A n \in 1 .. Len(p) : Pre(p, n) = Pre(p, n - 1) \o p[n]
    BY <1>1, FlatNext, Zenon
<1> DEFINE N == {n \in Nat : n <= Len(p) => Pre(p, n) \in T}
<1>2. 0 \in N
    BY <1>1, <1>Fp
<1>3. ASSUME NEW n \in Nat, n \in N PROVE n + 1 \in N
  <2> SUFFICES ASSUME n + 1 <= Len(p) PROVE Pre(p, n + 1) \in T
      OBVIOUS
  <2>1. n + 1 \in 1 .. Len(p) /\ (n + 1) - 1 = n /\ n <= Len(p)
      BY <1>1
  <2>2. Pre(p, n + 1) = Pre(p, n) \o p[n + 1]
      BY <1>1, <2>1, <1>Fp
  <2>3. Pre(p, n) \in T
      BY <1>3, <2>1
  <2> QED BY <1>1, <2>1, <2>2, <2>3
<1> HIDE DEF N
<1>4. \A n \in Nat : n \in N
    BY <1>2, <1>3, SetInduction
<1>5. ASSUME NEW n \in 0 .. Len(p) PROVE Pre(p, n) \in T
  <2>1. n \in Nat /\ n <= Len(p)
      BY <1>1
  <2> QED BY <1>4, <2>1, Zenon DEF N
<1>6. FlattenSeq(p) = Pre(p, Len(p)) /\ Len(p) \in 0 .. Len(p)
    BY <1>1, <1>Fp
<1> QED BY <1>5, <1>6

(* A join of sequences over S is a sequence over S.                          *)
LEMMA FlatIn ==
  ASSUME NEW S, NEW p \in Seq(Seq(S))
  PROVE  FlattenSeq(p) \in Seq(S) /\ \A n \in 0 .. Len(p) : Pre(p, n) \in Seq(S)
<1>1. <<>> \in Seq(S) /\ \A a, b \in Seq(S) : a \o b \in Seq(S)
    BY ConcatProperties
<1> QED BY <1>1, FlatClosed

(* Lists that begin with the same m parts have the same join of them.        *)
LEMMA PreSame ==
  ASSUME NEW S, NEW p \in Seq(Seq(S)), NEW q \in Seq(Seq(S)), NEW m \in Nat,
         m <= Len(p), m <= Len(q), \A i \in 1 .. m : p[i] = q[i]
  PROVE  Pre(p, m) = Pre(q, m)
<1>1. Len(p) \in Nat /\ Len(q) \in Nat
    OBVIOUS
<1>Fp. FlattenSeq(p) = Pre(p, Len(p)) /\ Pre(p, 0) = <<>> /\ \A n \in 1 .. Len(p) : Pre(p, n) = Pre(p, n - 1) \o p[n]
    BY <1>1, FlatNext, Zenon
<1>Fq. FlattenSeq(q) = Pre(q, Len(q)) /\ Pre(q, 0) = <<>> /\ \A n \in 1 .. Len(q) : Pre(q, n) = Pre(q, n - 1) \o q[n]
    BY <1>1, FlatNext, Zenon
<1> DEFINE N == {n \in Nat : n <= m => Pre(p, n) = Pre(q, n)}
<1>2. 0 \in N
    BY <1>Fp, <1>Fq
<1>3. ASSUME NEW n \in Nat, n \in N PROVE n + 1 \in N
  <2> SUFFICES ASSUME n + 1 <= m PROVE Pre(p, n + 1) = Pre(q, n + 1)
      OBVIOUS
  <2>1. n + 1 \in 1 .. Len(p) /\ n + 1 \in 1 .. Len(q) /\ n + 1 \in 1 .. m /\ (n + 1) - 1 = n /\ n <= m
      BY <1>1
  <2>2. Pre(p, n + 1) = Pre(p, n) \o p[n + 1] /\ Pre(q, n + 1) = Pre(q, n) \o q[n + 1]
      BY <2>1, <1>Fp, <1>Fq
  <2>3. Pre(p, n) = Pre(q, n)
      BY <1>3, <2>1
  <2> QED BY <2>1, <2>2, <2>3
<1> HIDE DEF N
<1>4. \A n \in Nat : n \in N
    BY <1>2, <1>3, SetInduction
<1> QED BY <1>4 DEF N

(* The join of no part is empty.                                             *)
LEMMA FlatEmpty == FlattenSeq(<<>>) = <<>>
  BY Zenon DEF FlattenSeq

(* One more part is joined at the end.                                       *)
LEMMA FlatAppend ==
  ASSUME NEW S, NEW p \in Seq(Seq(S)), NEW x \in Seq(S)
  PROVE  FlattenSeq(Append(p, x)) = FlattenSeq(p) \o x
<1> DEFINE q == Append(p, x)
           n == Len(p)
<1>1. /\ q \in Seq(Seq(S)) /\ n \in Nat /\ Len(q) = n + 1 /\ q[n + 1] = x /\ \A i \in 1 .. n : p[i] = q[i]
      /\ n + 1 \in 1 .. Len(q) /\ (n + 1) - 1 = n
    BY AppendProperties
<1> HIDE DEF q
<1>Fp. FlattenSeq(p) = Pre(p, Len(p)) /\ Pre(p, 0) = <<>> /\ \A k \in 1 .. Len(p) : Pre(p, k) = Pre(p, k - 1) \o p[k]
    BY <1>1, FlatNext, Zenon
<1>Fq. FlattenSeq(q) = Pre(q, Len(q)) /\ Pre(q, 0) = <<>> /\ \A k \in 1 .. Len(q) : Pre(q, k) = Pre(q, k - 1) \o q[k]
    BY <1>1, FlatNext, Zenon
<1>2. Pre(q, n + 1) = Pre(q, n) \o x
    BY <1>1, <1>Fp, <1>Fq
<1>3. Pre(p, n) = Pre(q, n)
  <2>1. n <= Len(p) /\ n <= Len(q)
      BY <1>1
  <2> QED BY <1>1, <2>1, PreSame, Zenon
<1>4. FlattenSeq(p) = Pre(p, n) /\ FlattenSeq(q) = Pre(q, n + 1)
    BY <1>1, <1>Fp, <1>Fq
<1> QED BY <1>2, <1>3, <1>4 DEF q

(* The join of one part is the part.                                         *)
LEMMA FlatOne ==
  ASSUME NEW S, NEW x \in Seq(S)
  PROVE  FlattenSeq(<<x>>) = x
<1>1. <<>> \in Seq(Seq(S)) /\ <<x>> = Append(<<>>, x) /\ <<>> \o x = x
    BY ConcatEmptySeq
<1>2. FlattenSeq(Append(<<>>, x)) = FlattenSeq(<<>>) \o x
    BY <1>1, FlatAppend
<1> QED BY <1>1, <1>2, FlatEmpty

(* Joining is a homomorphism: of two lists of parts one after the other, the *)
(* joins follow each other.                                                  *)
LEMMA FlatConcat ==
  ASSUME NEW S, NEW u \in Seq(Seq(S)), NEW v \in Seq(Seq(S))
  PROVE  FlattenSeq(u \o v) = FlattenSeq(u) \o FlattenSeq(v)
<1> DEFINE w == u \o v
           m == Len(u)
           N == {n \in Nat : n <= Len(v) => Pre(w, m + n) = FlattenSeq(u) \o Pre(v, n)}
<1>1. /\ w \in Seq(Seq(S)) /\ Len(w) = m + Len(v) /\ m \in Nat /\ Len(v) \in Nat
      /\ \A i \in 1 .. m : u[i] = w[i]
      /\ \A i \in 1 .. Len(v) : w[m + i] = v[i]
  <2>1. /\ w \in Seq(Seq(S)) /\ Len(w) = m + Len(v) /\ m \in Nat /\ Len(v) \in Nat
        /\ \A i \in 1 .. m + Len(v) : w[i] = IF i <= m THEN u[i] ELSE v[i - m]
      BY ConcatProperties
  <2> HIDE DEF w
  <2>2. \A i \in 1 .. Len(v) : m + i \in 1 .. m + Len(v) /\ ~(m + i <= m) /\ (m + i) - m = i
      BY <2>1
  <2>3. \A i \in 1 .. m : i \in 1 .. m + Len(v) /\ i <= m
      BY <2>1
  <2> QED BY <2>1, <2>2, <2>3
<1> HIDE DEF w
<1>Fu. FlattenSeq(u) = Pre(u, Len(u)) /\ Pre(u, 0) = <<>> /\ \A n \in 1 .. Len(u) : Pre(u, n) = Pre(u, n - 1) \o u[n]
    BY <1>1, FlatNext, Zenon
<1>Fv. FlattenSeq(v) = Pre(v, Len(v)) /\ Pre(v, 0) = <<>> /\ \A n \in 1 .. Len(v) : Pre(v, n) = Pre(v, n - 1) \o v[n]
    BY <1>1, FlatNext, Zenon
<1>Fw. FlattenSeq(w) = Pre(w, Len(w)) /\ Pre(w, 0) = <<>> /\ \A n \in 1 .. Len(w) : Pre(w, n) = Pre(w, n - 1) \o w[n]
    BY <1>1, FlatNext, Zenon
<1>2. FlattenSeq(u) \in Seq(S) /\ \A n \in 0 .. Len(v) : Pre(v, n) \in Seq(S)
    BY FlatIn
<1>3. 0 \in N
  <2>0. m <= Len(u) /\ m <= Len(w)
      BY <1>1
  <2>1. Pre(u, m) = Pre(w, m)
      BY <1>1, <2>0, PreSame, Zenon
  <2>2. Pre(v, 0) = <<>> /\ FlattenSeq(u) = Pre(u, m) /\ m + 0 = m
      BY <1>1, <1>Fu, <1>Fv, <1>Fw
  <2>3. FlattenSeq(u) \o <<>> = FlattenSeq(u)
      BY <1>2, ConcatEmptySeq
  <2> QED BY <2>1, <2>2, <2>3
<1>4. ASSUME NEW n \in Nat, n \in N PROVE n + 1 \in N
  <2> SUFFICES ASSUME n + 1 <= Len(v) PROVE Pre(w, m + (n + 1)) = FlattenSeq(u) \o Pre(v, n + 1)
      OBVIOUS
  <2>1. /\ n + 1 \in 1 .. Len(v) /\ (n + 1) - 1 = n /\ n <= Len(v) /\ n \in 0 .. Len(v)
        /\ m + (n + 1) \in 1 .. Len(w) /\ (m + (n + 1)) - 1 = m + n
      BY <1>1
  <2>2. Pre(w, m + (n + 1)) = Pre(w, m + n) \o w[m + (n + 1)]
      BY <1>1, <2>1, <1>Fu, <1>Fv, <1>Fw
  <2>3. Pre(v, n + 1) = Pre(v, n) \o v[n + 1] /\ w[m + (n + 1)] = v[n + 1]
      BY <1>1, <2>1, <1>Fv
  <2>7. v[n + 1] \in Seq(S)
      BY <2>1
  <2>4. Pre(w, m + n) = FlattenSeq(u) \o Pre(v, n)
      BY <1>4, <2>1
  <2>5. (FlattenSeq(u) \o Pre(v, n)) \o v[n + 1] = FlattenSeq(u) \o (Pre(v, n) \o v[n + 1])
    <3>1. FlattenSeq(u) \in Seq(S) /\ Pre(v, n) \in Seq(S)
        BY <1>2, <2>1
    <3> DEFINE x == FlattenSeq(u)
               y == Pre(v, n)
               z == v[n + 1]
    <3>2. x \in Seq(S) /\ y \in Seq(S) /\ z \in Seq(S)
        BY <2>7, <3>1
    <3> HIDE DEF x, y, z
    <3>3. (x \o y) \o z = x \o (y \o z)
        BY <3>2, SMTT(30)
    <3> QED BY <3>3 DEF x, y, z
  <2>8. Pre(w, m + (n + 1)) = (FlattenSeq(u) \o Pre(v, n)) \o v[n + 1]
      BY <2>2, <2>3, <2>4, Zenon
  <2> QED BY <2>3, <2>5, <2>8, Zenon
<1> HIDE DEF N
<1>5. \A n \in Nat : n \in N
    BY <1>3, <1>4, SetInduction
<1>6. Pre(w, m + Len(v)) = FlattenSeq(u) \o Pre(v, Len(v))
    BY <1>1, <1>5 DEF N
<1>7. FlattenSeq(w) = Pre(w, m + Len(v)) /\ FlattenSeq(v) = Pre(v, Len(v))
    BY <1>1, <1>Fu, <1>Fv, <1>Fw
<1> QED BY <1>6, <1>7 DEF w

(* A sequence cut into single members joins to itself.                       *)
LEMMA FlatSingles ==
  ASSUME NEW S, NEW q \in Seq(S)
  PROVE  FlattenSeq([i \in DOMAIN q |-> << q[i] >>]) = q
<1> DEFINE p == [i \in DOMAIN q |-> << q[i] >>]
           N == {n \in Nat : n <= Len(q) => Pre(p, n) = SubSeq(q, 1, n)}
<1>1. /\ p \in Seq(Seq(S)) /\ Len(p) = Len(q) /\ Len(q) \in Nat /\ DOMAIN q = 1 .. Len(q)
      /\ \A i \in 1 .. Len(q) : p[i] = << q[i] >> /\ q[i] \in S
  <2>1. Len(q) \in Nat /\ DOMAIN q = 1 .. Len(q) /\ \A i \in 1 .. Len(q) : q[i] \in S
      OBVIOUS
  <2>2. \A x \in S : << x >> \in Seq(S)
      OBVIOUS
  <2>3. p \in [1 .. Len(q) -> Seq(S)]
      BY <2>1, <2>2
  <2>4. p \in Seq(Seq(S)) /\ Len(p) = Len(q)
      BY <2>1, <2>3, IsASeq, LenProperties
  <2> QED BY <2>1, <2>4
<1> HIDE DEF p
<1>Fp. FlattenSeq(p) = Pre(p, Len(p)) /\ Pre(p, 0) = <<>> /\ \A n \in 1 .. Len(p) : Pre(p, n) = Pre(p, n - 1) \o p[n]
    BY <1>1, FlatNext, Zenon
<1>2. 0 \in N
  <2>1. SubSeq(q, 1, 0) = <<>>
      OBVIOUS
  <2> QED BY <1>Fp, <2>1
<1>3. ASSUME NEW n \in Nat, n \in N PROVE n + 1 \in N
  <2> SUFFICES ASSUME n + 1 <= Len(q) PROVE Pre(p, n + 1) = SubSeq(q, 1, n + 1)
      OBVIOUS
  <2>1. n + 1 \in 1 .. Len(q) /\ (n + 1) - 1 = n /\ n <= Len(q)
      BY <1>1
  <2>2. Pre(p, n + 1) = SubSeq(q, 1, n) \o << q[n + 1] >>
      BY <1>1, <1>3, <2>1, <1>Fp
  <2>3. SubSeq(q, 1, n + 1) = SubSeq(q, 1, n) \o << q[n + 1] >>
      BY <1>1, <2>1
  <2> QED BY <2>2, <2>3
<1> HIDE DEF N
<1>4. \A n \in Nat : n \in N
    BY <1>2, <1>3, SetInduction
<1>5. Pre(p, Len(q)) = SubSeq(q, 1, Len(q))
    BY <1>1, <1>4, SMTT(30) DEF N
<1>6. SubSeq(q, 1, Len(q)) = q
    BY SubSeqFull
<1> QED BY <1>1, <1>5, <1>6, <1>Fp DEF p

(* The place that member k of part i has in the join.                        *)
At(p, i, k) == Len(Pre(p, i - 1)) + k

(* The join grows by the length of each part.                                *)
LEMMA FlatLen ==
  ASSUME NEW S, NEW p \in Seq(Seq(S))
  PROVE  /\ \A n \in 0 .. Len(p) : Len(Pre(p, n)) \in Nat
         /\ Len(Pre(p, 0)) = 0
         /\ \A n \in 1 .. Len(p) : Len(p[n]) \in Nat /\ Len(Pre(p, n)) = Len(Pre(p, n - 1)) + Len(p[n])
<1>1. FlattenSeq(p) = Pre(p, Len(p)) /\ Pre(p, 0) = <<>> /\ \A n \in 1 .. Len(p) : Pre(p, n) = Pre(p, n - 1) \o p[n]
    BY FlatNext, Zenon
<1>2. \A n \in 0 .. Len(p) : Pre(p, n) \in Seq(S)
    BY FlatIn, Zenon
<1>3. Len(p) \in Nat /\ \A n \in 1 .. Len(p) : p[n] \in Seq(S) /\ n - 1 \in 0 .. Len(p)
    OBVIOUS
<1>4. \A s \in Seq(S) : Len(s) \in Nat
    OBVIOUS
<1>5. \A s \in Seq(S), t \in Seq(S) : Len(s \o t) = Len(s) + Len(t)
    BY ConcatProperties
<1>6. ASSUME NEW n \in 1 .. Len(p) PROVE Len(p[n]) \in Nat /\ Len(Pre(p, n)) = Len(Pre(p, n - 1)) + Len(p[n])
  <2>1. Pre(p, n) = Pre(p, n - 1) \o p[n] /\ Pre(p, n - 1) \in Seq(S) /\ p[n] \in Seq(S)
      BY <1>1, <1>2, <1>3, Zenon
  <2> QED BY <1>4, <1>5, <2>1, Zenon
<1>7. Len(Pre(p, 0)) = 0
    BY <1>1
<1> QED BY <1>2, <1>4, <1>6, <1>7, Zenon

(* A join of more parts begins with the join of fewer.                       *)
LEMMA FlatGrows ==
  ASSUME NEW S, NEW p \in Seq(Seq(S)), NEW i \in 0 .. Len(p), NEW j \in i .. Len(p)
  PROVE  /\ Len(Pre(p, i)) <= Len(Pre(p, j))
         /\ \A x \in 1 .. Len(Pre(p, i)) : Pre(p, j)[x] = Pre(p, i)[x]
<1>0. Len(p) \in Nat
    OBVIOUS
<1>1. \A n \in 1 .. Len(p) : Pre(p, n) = Pre(p, n - 1) \o p[n] /\ Len(Pre(p, n)) = Len(Pre(p, n - 1)) + Len(p[n])
    BY FlatNext, FlatLen, Zenon
<1>2. \A n \in 0 .. Len(p) : Pre(p, n) \in Seq(S) /\ Len(Pre(p, n)) \in Nat
    BY FlatIn, FlatLen, Zenon
<1>3. \A n \in 1 .. Len(p) : Len(p[n]) \in Nat /\ p[n] \in Seq(S)
    OBVIOUS
<1> DEFINE Good(n) == /\ Len(Pre(p, i)) <= Len(Pre(p, n))
                      /\ \A x \in 1 .. Len(Pre(p, i)) : Pre(p, n)[x] = Pre(p, i)[x]
           N == {n \in Nat : i + n <= Len(p) => Good(i + n)}
<1>4. 0 \in N
    BY <1>0, <1>2
<1>5. ASSUME NEW n \in Nat, n \in N PROVE n + 1 \in N
  <2> SUFFICES ASSUME i + (n + 1) <= Len(p) PROVE Good(i + (n + 1))
      OBVIOUS
  <2>1. /\ i + (n + 1) \in 1 .. Len(p) /\ (i + (n + 1)) - 1 = i + n /\ i + n <= Len(p)
        /\ i + n \in 0 .. Len(p)
      BY <1>0
  <2>2. /\ Pre(p, i + (n + 1)) = Pre(p, i + n) \o p[i + (n + 1)]
        /\ Len(Pre(p, i + (n + 1))) = Len(Pre(p, i + n)) + Len(p[i + (n + 1)])
      BY <1>1, <2>1
  <2>3. /\ Pre(p, i + n) \in Seq(S) /\ Len(Pre(p, i + n)) \in Nat
        /\ p[i + (n + 1)] \in Seq(S) /\ Len(p[i + (n + 1)]) \in Nat
      BY <1>2, <1>3, <2>1
  <2>4. Good(i + n)
      BY <1>5, <2>1
  <2>5. Len(Pre(p, i)) <= Len(Pre(p, i + (n + 1)))
    <3>1. \A a \in Nat, b \in Nat, c \in Nat : a <= b => a <= b + c
        OBVIOUS
    <3>2. Len(Pre(p, i)) \in Nat
        BY <1>2
    <3> QED BY <2>2, <2>3, <2>4, <3>1, <3>2, Zenon
  <2>6. ASSUME NEW x \in 1 .. Len(Pre(p, i)) PROVE Pre(p, i + (n + 1))[x] = Pre(p, i)[x]
    <3>1. /\ x \in 1 .. Len(Pre(p, i + n)) + Len(p[i + (n + 1)])
          /\ x <= Len(Pre(p, i + n))
      <4>1. \A a \in Nat, b \in Nat, c \in Nat : a <= b => \A y \in 1 .. a : y \in 1 .. b + c /\ y <= b
          OBVIOUS
      <4>2. Len(Pre(p, i)) \in Nat
          BY <1>2
      <4> QED BY <2>3, <2>4, <4>1, <4>2, Zenon
    <3>2. (Pre(p, i + n) \o p[i + (n + 1)])[x] = Pre(p, i + n)[x]
        BY <2>3, <3>1, ConcatProperties
    <3> QED BY <2>2, <2>4, <3>2
  <2> QED BY <2>5, <2>6
<1> HIDE DEF N
<1>6. \A n \in Nat : n \in N
    BY <1>4, <1>5, SetInduction
<1>7. j - i \in Nat /\ i + (j - i) = j /\ i + (j - i) <= Len(p)
    BY <1>0
<1>8. Good(i + (j - i))
    BY <1>6, <1>7 DEF N
<1> QED BY <1>7, <1>8

(* At is a bijection, in order, between the members of the parts and those   *)
(* of the join.                                                              *)
LEMMA FlatPlaces ==
  ASSUME NEW S, NEW p \in Seq(Seq(S))
  PROVE  /\ \A i \in 1 .. Len(p) : \A k \in 1 .. Len(p[i]) :
              At(p, i, k) \in 1 .. Len(FlattenSeq(p)) /\ FlattenSeq(p)[At(p, i, k)] = p[i][k]
         /\ \A x \in 1 .. Len(FlattenSeq(p)) :
              \E i \in 1 .. Len(p) : \E k \in 1 .. Len(p[i]) : x = At(p, i, k)
         /\ \A i \in 1 .. Len(p), j \in 1 .. Len(p) : \A k \in 1 .. Len(p[i]), l \in 1 .. Len(p[j]) :
              i < j => At(p, i, k) < At(p, j, l)
<1>0. Len(p) \in Nat /\ Len(p) \in 0 .. Len(p)
    OBVIOUS
<1>1. FlattenSeq(p) = Pre(p, Len(p)) /\ \A n \in 1 .. Len(p) : Pre(p, n) = Pre(p, n - 1) \o p[n]
    BY FlatNext, Zenon
<1>2. \A n \in 0 .. Len(p) : Pre(p, n) \in Seq(S) /\ Len(Pre(p, n)) \in Nat
    BY FlatIn, FlatLen, Zenon
<1>3. \A n \in 1 .. Len(p) : /\ Len(p[n]) \in Nat /\ p[n] \in Seq(S)
                             /\ Len(Pre(p, n)) = Len(Pre(p, n - 1)) + Len(p[n])
  <2>1. \A n \in 1 .. Len(p) : Len(p[n]) \in Nat /\ Len(Pre(p, n)) = Len(Pre(p, n - 1)) + Len(p[n])
      BY FlatLen, Zenon
  <2>2. \A n \in 1 .. Len(p) : p[n] \in Seq(S)
      OBVIOUS
  <2> QED BY <2>1, <2>2, Zenon
<1>9. Len(Pre(p, 0)) = 0
    BY FlatLen, Zenon
<1>4. \A i \in 1 .. Len(p) : i - 1 \in 0 .. Len(p) /\ i \in 0 .. Len(p) /\ Len(p) \in i .. Len(p)
    BY <1>0
<1>5. ASSUME NEW i \in 1 .. Len(p), NEW k \in 1 .. Len(p[i])
      PROVE  At(p, i, k) \in 1 .. Len(FlattenSeq(p)) /\ FlattenSeq(p)[At(p, i, k)] = p[i][k]
  <2>1. /\ Len(Pre(p, i)) <= Len(Pre(p, Len(p)))
        /\ \A x \in 1 .. Len(Pre(p, i)) : Pre(p, Len(p))[x] = Pre(p, i)[x]
      BY <1>4, FlatGrows, Zenon
  <2>2. /\ Len(Pre(p, i - 1)) \in Nat /\ Len(p[i]) \in Nat /\ Len(Pre(p, i)) = Len(Pre(p, i - 1)) + Len(p[i])
        /\ Len(Pre(p, Len(p))) \in Nat
      BY <1>0, <1>2, <1>3, <1>4
  <2>3. At(p, i, k) \in 1 .. Len(Pre(p, i)) /\ At(p, i, k) \in 1 .. Len(Pre(p, Len(p)))
    <3>2. Len(Pre(p, i - 1)) + k \in 1 .. Len(Pre(p, i)) /\ Len(Pre(p, i - 1)) + k \in 1 .. Len(Pre(p, Len(p)))
      <4> DEFINE a == Len(Pre(p, i - 1))
                 b == Len(p[i])
                 c == Len(Pre(p, i))
                 d == Len(Pre(p, Len(p)))
      <4>1. a \in Nat /\ b \in Nat /\ c \in Nat /\ d \in Nat /\ c = a + b /\ c <= d /\ k \in 1 .. b
        <5>1. c \in Nat
            BY <1>2, <1>4
        <5> QED BY <2>1, <2>2, <5>1, Zenon
      <4> HIDE DEF a, b, c, d
      <4>2. a + k \in 1 .. c /\ a + k \in 1 .. d
          BY <4>1
      <4> QED BY <4>2 DEF a, c, d
    <3> QED BY <3>2 DEF At
  <2>4. Pre(p, i)[At(p, i, k)] = p[i][k]
    <3>1. Pre(p, i) = Pre(p, i - 1) \o p[i] /\ Pre(p, i - 1) \in Seq(S) /\ p[i] \in Seq(S)
        BY <1>1, <1>2, <1>3, <1>4
    <3>2. /\ At(p, i, k) \in 1 .. Len(Pre(p, i - 1)) + Len(p[i])
          /\ ~(At(p, i, k) <= Len(Pre(p, i - 1))) /\ At(p, i, k) - Len(Pre(p, i - 1)) = k
        BY <2>2 DEF At
    <3>3. \A x \in 1 .. Len(Pre(p, i - 1)) + Len(p[i]) : (Pre(p, i - 1) \o p[i])[x] =
              IF x <= Len(Pre(p, i - 1)) THEN Pre(p, i - 1)[x] ELSE p[i][x - Len(Pre(p, i - 1))]
        BY <3>1, ConcatProperties, Zenon
    <3> QED BY <3>1, <3>2, <3>3
  <2> QED BY <1>1, <2>1, <2>3, <2>4
<1>6. ASSUME NEW x \in 1 .. Len(FlattenSeq(p))
      PROVE  \E i \in 1 .. Len(p) : \E k \in 1 .. Len(p[i]) : x = At(p, i, k)
  <2> DEFINE T == {n \in 0 .. Len(p) : x <= Len(Pre(p, n))}
  <2>1. T \subseteq Nat /\ T # {}
      BY <1>0, <1>1, <1>2
  <2>2. PICK i \in T : \A n \in T : i <= n
      BY <2>1, LeastNumber, Zenon
  <2>3. i \in 1 .. Len(p)
      BY <1>0, <1>9, <2>2
  <2>4. i - 1 \in 0 .. Len(p) /\ ~(i <= i - 1)
      BY <1>0, <2>3
  <2>5. ~(x <= Len(Pre(p, i - 1))) /\ x <= Len(Pre(p, i))
      BY <2>2, <2>4
  <2>6. /\ Len(Pre(p, i - 1)) \in Nat /\ Len(p[i]) \in Nat /\ Len(Pre(p, i)) = Len(Pre(p, i - 1)) + Len(p[i])
        /\ Len(FlattenSeq(p)) \in Nat
      BY <1>0, <1>1, <1>2, <1>3, <2>3, <2>4
  <2>7. x - Len(Pre(p, i - 1)) \in 1 .. Len(p[i]) /\ x = At(p, i, x - Len(Pre(p, i - 1)))
    <3>2. Len(Pre(p, i)) \in Nat
        BY <1>2, <2>3
    <3>3. x - Len(Pre(p, i - 1)) \in 1 .. Len(p[i]) /\ x = Len(Pre(p, i - 1)) + (x - Len(Pre(p, i - 1)))
      <4> DEFINE a == Len(Pre(p, i - 1))
                 b == Len(p[i])
                 c == Len(Pre(p, i))
                 d == Len(FlattenSeq(p))
      <4>1. a \in Nat /\ b \in Nat /\ c \in Nat /\ d \in Nat /\ c = a + b /\ x \in 1 .. d /\ ~(x <= a) /\ x <= c
          BY <2>5, <2>6, <3>2
      <4> HIDE DEF a, b, c, d
      <4>2. x - a \in 1 .. b /\ x = a + (x - a)
          BY <4>1
      <4> QED BY <4>2 DEF a, b
    <3> QED BY <3>3, Zenon DEF At
  <2> QED BY <2>3, <2>7
<1>7. ASSUME NEW i \in 1 .. Len(p), NEW j \in 1 .. Len(p), NEW k \in 1 .. Len(p[i]), NEW l \in 1 .. Len(p[j]), i < j
      PROVE  At(p, i, k) < At(p, j, l)
  <2>1. i \in 0 .. Len(p) /\ j - 1 \in i .. Len(p) /\ j - 1 \in 0 .. Len(p) /\ i - 1 \in 0 .. Len(p)
      BY <1>0, <1>7
  <2>2. Len(Pre(p, i)) <= Len(Pre(p, j - 1))
      BY <2>1, FlatGrows, Zenon
  <2>3. /\ Len(Pre(p, i - 1)) \in Nat /\ Len(p[i]) \in Nat /\ Len(Pre(p, i)) = Len(Pre(p, i - 1)) + Len(p[i])
        /\ Len(Pre(p, j - 1)) \in Nat /\ Len(p[j]) \in Nat
      BY <1>2, <1>3, <2>1
  <2>4. \A a \in Nat, b \in Nat, c \in Nat, d \in Nat, e \in Nat :
          (c = a + b /\ c <= d) => \A x \in 1 .. b, y \in 1 .. e : a + x < d + y
      OBVIOUS
  <2>5. Len(Pre(p, i)) \in Nat
      BY <1>2, <2>1
  <2> QED BY <2>2, <2>3, <2>4, <2>5, Zenon DEF At
<1> QED BY <1>5, <1>6, <1>7

(* The strings; the backends do not know of a literal that it is one. *)
Word == STRING \cup {"", "c1", "c2", "Grep", "Edit"}

-------------------------------------------------------------------------------
(* Picking members; histories that are paired                                *)

(* A tool call, a message, and a message as the program builds it: only an   *)
(* assistant's carries calls.                                                *)
CallType == [id : Word, name : Word]

MsgType == [role : {"user", "assistant", "tool", "system"}, text : Seq(Int), img : BOOLEAN,
            think : Seq(Int), calls : Seq(CallType), for : Word]

Msg == {m \in MsgType : m.calls # <<>> => m.role = "assistant"}

(* What a member of Seq(S) is.                                               *)
LEMMA SeqFacts ==
  ASSUME NEW S, NEW s \in Seq(S)
  PROVE  /\ Len(s) \in Nat /\ DOMAIN s = 1 .. Len(s) /\ s = [i \in 1 .. Len(s) |-> s[i]]
         /\ \A i \in 1 .. Len(s) : s[i] \in S
  OBVIOUS

(* What a concatenation is.                                                  *)
LEMMA ConcatFacts ==
  ASSUME NEW S, NEW a \in Seq(S), NEW b \in Seq(S)
  PROVE  /\ a \o b \in Seq(S) /\ Len(a) \in Nat /\ Len(b) \in Nat /\ Len(a \o b) = Len(a) + Len(b)
         /\ \A i \in 1 .. Len(a) : (a \o b)[i] = a[i]
         /\ \A i \in 1 .. Len(b) : (a \o b)[Len(a) + i] = b[i]
<1>1. /\ a \o b \in Seq(S) /\ Len(a) \in Nat /\ Len(b) \in Nat /\ Len(a \o b) = Len(a) + Len(b)
      /\ \A i \in 1 .. Len(a) + Len(b) : (a \o b)[i] = IF i <= Len(a) THEN a[i] ELSE b[i - Len(a)]
    BY ConcatProperties
<1>2. ASSUME NEW i \in 1 .. Len(a) PROVE (a \o b)[i] = a[i]
  <2>1. i \in 1 .. Len(a) + Len(b) /\ i <= Len(a)
      BY <1>1
  <2> QED BY <1>1, <2>1, Zenon
<1>3. ASSUME NEW i \in 1 .. Len(b) PROVE (a \o b)[Len(a) + i] = b[i]
  <2>1. Len(a) + i \in 1 .. Len(a) + Len(b) /\ ~(Len(a) + i <= Len(a)) /\ (Len(a) + i) - Len(a) = i
      BY <1>1
  <2> QED BY <1>1, <2>1, Zenon
<1> QED BY <1>1, <1>2, <1>3, Zenon

(* A place in the concatenation is in the one part or in the other.          *)
LEMMA SplitIndex ==
  ASSUME NEW m \in Nat, NEW n \in Nat, NEW i \in 1 .. m + n
  PROVE  i \in 1 .. m \/ \E j \in 1 .. n : i = m + j
<1>1. CASE i <= m
    BY <1>1
<1>2. CASE ~(i <= m)
  <2>1. i - m \in 1 .. n /\ i = m + (i - m)
      BY <1>2
  <2> QED BY <2>1
<1> QED BY <1>1, <1>2

(* Those(s, K) as a join: each member of s alone when it is picked.          *)
ThoseParts(s, K) == [k \in DOMAIN s |-> IF k \in K THEN << s[k] >> ELSE <<>>]

(* What those parts are.                                                     *)
LEMMA ThosePartsIn ==
  ASSUME NEW S, NEW s \in Seq(S), NEW K
  PROVE  /\ ThoseParts(s, K) \in Seq(Seq(S)) /\ Len(ThoseParts(s, K)) = Len(s)
         /\ \A k \in 1 .. Len(s) : ThoseParts(s, K)[k] = IF k \in K THEN << s[k] >> ELSE <<>>
<1>1. /\ Len(s) \in Nat /\ DOMAIN s = 1 .. Len(s) /\ \A i \in 1 .. Len(s) : s[i] \in S
    BY SeqFacts
<1> DEFINE f == ThoseParts(s, K)
<1>2. f = [k \in 1 .. Len(s) |-> IF k \in K THEN << s[k] >> ELSE <<>>]
    BY <1>1, Zenon DEF ThoseParts
<1> HIDE DEF f
<1>3. \A k \in 1 .. Len(s) : f[k] = IF k \in K THEN << s[k] >> ELSE <<>>
    BY <1>2, Zenon
<1>4. f = [k \in 1 .. Len(s) |-> f[k]]
    BY <1>2, Zenon
<1>5. \A x \in S : << x >> \in Seq(S)
    OBVIOUS
<1>6. <<>> \in Seq(S)
    OBVIOUS
<1>7. \A k \in 1 .. Len(s) : f[k] \in Seq(S)
    BY <1>1, <1>3, <1>5, <1>6, Zenon
<1>8. f \in Seq(Seq(S)) /\ Len(f) = Len(s)
  <2>1. f \in [1 .. Len(s) -> Seq(S)]
      BY <1>4, <1>7, Zenon
  <2> QED BY <1>1, <2>1
<1> QED BY <1>3, <1>8 DEF f

(* Picking keeps the order, drops nothing picked and adds nothing.           *)
LEMMA ThosePlaces ==
  ASSUME NEW S, NEW s \in Seq(S), NEW K
  PROVE  /\ Those(s, K) \in Seq(S)
         /\ \E f \in [1 .. Len(Those(s, K)) -> 1 .. Len(s)] :
              /\ \A x \in 1 .. Len(Those(s, K)) : f[x] \in K /\ Those(s, K)[x] = s[f[x]]
              /\ \A x \in 1 .. Len(Those(s, K)), y \in 1 .. Len(Those(s, K)) : x < y => f[x] < f[y]
              /\ \A k \in 1 .. Len(s) : k \in K => \E x \in 1 .. Len(Those(s, K)) : f[x] = k
<1> DEFINE p == ThoseParts(s, K)
           n == Len(Those(s, K))
           f == [x \in 1 .. n |-> CHOOSE i \in 1 .. Len(s) : i \in K /\ x = At(p, i, 1)]
<1>1. /\ p \in Seq(Seq(S)) /\ Len(p) = Len(s) /\ Those(s, K) = FlattenSeq(p)
      /\ \A k \in 1 .. Len(s) : p[k] = IF k \in K THEN << s[k] >> ELSE <<>>
    BY ThosePartsIn DEF Those, ThoseParts
<1>2. \A x : Len(<< x >>) = 1 /\ << x >>[1] = x /\ 1 \in 1 .. 1
    OBVIOUS
<1>3. Len(<<>>) = 0 /\ \A k \in 1 .. 0 : FALSE
    OBVIOUS
<1>4. \A k \in 1 .. 1 : k = 1
    OBVIOUS
<1> HIDE DEF p
<1>5. \A i \in 1 .. Len(s) : \A k \in 1 .. Len(p[i]) : i \in K /\ k = 1
    BY <1>1, <1>2, <1>3, <1>4, Zenon
<1>6. \A i \in 1 .. Len(s) : i \in K => 1 \in 1 .. Len(p[i]) /\ p[i][1] = s[i]
    BY <1>1, <1>2, Zenon
<1> DEFINE q == FlattenSeq(p)
<1>0. Those(s, K) = q /\ n = Len(q)
    BY <1>1, Zenon
<1>7. /\ \A i \in 1 .. Len(s) : \A k \in 1 .. Len(p[i]) :
              At(p, i, k) \in 1 .. Len(q) /\ q[At(p, i, k)] = p[i][k]
      /\ \A x \in 1 .. Len(q) : \E i \in 1 .. Len(s) : \E k \in 1 .. Len(p[i]) : x = At(p, i, k)
      /\ \A i \in 1 .. Len(s), j \in 1 .. Len(s) : \A k \in 1 .. Len(p[i]), l \in 1 .. Len(p[j]) :
              i < j => At(p, i, k) < At(p, j, l)
  <2>1. Len(p) = Len(s)
      BY <1>1
  <2>2. /\ \A i \in 1 .. Len(p) : \A k \in 1 .. Len(p[i]) :
                At(p, i, k) \in 1 .. Len(FlattenSeq(p)) /\ FlattenSeq(p)[At(p, i, k)] = p[i][k]
        /\ \A x \in 1 .. Len(FlattenSeq(p)) : \E i \in 1 .. Len(p) : \E k \in 1 .. Len(p[i]) : x = At(p, i, k)
        /\ \A i \in 1 .. Len(p), j \in 1 .. Len(p) : \A k \in 1 .. Len(p[i]), l \in 1 .. Len(p[j]) :
              i < j => At(p, i, k) < At(p, j, l)
      BY <1>1, FlatPlaces, Zenon
  <2> QED BY <2>1, <2>2, Zenon
<1> HIDE DEF n, q
<1>8. \A x \in 1 .. n : \E i \in 1 .. Len(s) : i \in K /\ x = At(p, i, 1)
  <2> SUFFICES ASSUME NEW x \in 1 .. n PROVE \E i \in 1 .. Len(s) : i \in K /\ x = At(p, i, 1)
      OBVIOUS
  <2>1. PICK i \in 1 .. Len(s) : \E k \in 1 .. Len(p[i]) : x = At(p, i, k)
      BY <1>0, <1>7, Zenon
  <2> QED BY <1>5, <2>1, Zenon
<1>9. f \in [1 .. n -> 1 .. Len(s)] /\ \A x \in 1 .. n : f[x] \in 1 .. Len(s) /\ f[x] \in K /\ x = At(p, f[x], 1)
    BY <1>8, Zenon
<1> HIDE DEF f
<1>10. Those(s, K) \in Seq(S)
    BY <1>1, FlatIn, Zenon
<1>11. \A x \in 1 .. n : f[x] \in K /\ Those(s, K)[x] = s[f[x]]
  <2> SUFFICES ASSUME NEW x \in 1 .. n PROVE f[x] \in K /\ Those(s, K)[x] = s[f[x]]
      OBVIOUS
  <2>1. f[x] \in 1 .. Len(s) /\ f[x] \in K /\ x = At(p, f[x], 1)
      BY <1>9, Zenon
  <2>2. 1 \in 1 .. Len(p[f[x]]) /\ p[f[x]][1] = s[f[x]]
      BY <1>6, <2>1, Zenon
  <2>3. q[At(p, f[x], 1)] = p[f[x]][1]
      BY <1>7, <2>1, <2>2, Zenon
  <2> QED BY <1>0, <2>1, <2>2, <2>3, Zenon
<1>12. n \in Nat /\ Len(s) \in Nat
    BY <1>10 DEF n
<1>13. ASSUME NEW x \in 1 .. n, NEW y \in 1 .. n, x < y PROVE f[x] < f[y]
  <2>1. f[x] = f[y] => x = y
      BY <1>9, Zenon
  <2>2. f[y] < f[x] => y < x
    <3>1. /\ f[x] \in 1 .. Len(s) /\ f[x] \in K /\ x = At(p, f[x], 1)
          /\ f[y] \in 1 .. Len(s) /\ f[y] \in K /\ y = At(p, f[y], 1)
        BY <1>1, <1>9, Zenon
    <3>2. 1 \in 1 .. Len(p[f[x]]) /\ 1 \in 1 .. Len(p[f[y]])
        BY <1>1, <1>6, <3>1, Zenon
    <3>3. f[y] < f[x] => At(p, f[y], 1) < At(p, f[x], 1)
        BY <1>7, <3>1, <3>2, Zenon
    <3> QED BY <3>1, <3>3, Zenon
  <2>3. x # y /\ ~(y < x)
      BY <1>12, <1>13
  <2>4. f[x] \in 1 .. Len(s) /\ f[y] \in 1 .. Len(s)
      BY <1>9, Zenon
  <2> QED BY <1>12, <2>1, <2>2, <2>3, <2>4
<1>14. ASSUME NEW k \in 1 .. Len(s), k \in K PROVE \E x \in 1 .. n : f[x] = k
  <2> DEFINE x == At(p, k, 1)
  <2>1. x \in 1 .. n
      BY <1>0, <1>6, <1>7, <1>14, Zenon
  <2>2. f[x] < k => At(p, f[x], 1) < At(p, k, 1)
      BY <1>1, <1>6, <1>7, <1>9, <1>14, <2>1, ZenonT(60)
  <2>3. k < f[x] => At(p, k, 1) < At(p, f[x], 1)
      BY <1>1, <1>6, <1>7, <1>9, <1>14, <2>1, Zenon
  <2>4. x = At(p, f[x], 1) /\ f[x] \in 1 .. Len(s)
      BY <1>9, <2>1, Zenon
  <2>5. x = At(p, k, 1)
      OBVIOUS
  <2> HIDE DEF x
  <2>6. ~(x < x)
      BY <1>12, <2>1
  <2>7. ~(f[x] < k) /\ ~(k < f[x])
      BY <2>2, <2>3, <2>4, <2>5, <2>6, Zenon
  <2> QED BY <1>12, <2>1, <2>4, <2>7
<1> QED BY <1>9, <1>10, <1>11, <1>13, <1>14, Zenon DEF n

(* Picking every place is the identity.                                      *)
LEMMA ThoseAll ==
  ASSUME NEW S, NEW s \in Seq(S), NEW K, \A k \in 1 .. Len(s) : k \in K
  PROVE  Those(s, K) = s
<1>1. DOMAIN s = 1 .. Len(s)
    OBVIOUS
<1>2. ThoseParts(s, K) = [i \in DOMAIN s |-> << s[i] >>]
    BY <1>1, Zenon DEF ThoseParts
<1>3. FlattenSeq([i \in DOMAIN s |-> << s[i] >>]) = s
    BY FlatSingles, Zenon
<1> QED BY <1>2, <1>3, Zenon DEF Those, ThoseParts

(* Picking none leaves nothing.                                              *)
LEMMA ThoseNone ==
  ASSUME NEW S, NEW s \in Seq(S), NEW K, \A k \in 1 .. Len(s) : k \notin K
  PROVE  Those(s, K) = <<>>
<1> DEFINE p == ThoseParts(s, K)
<1>1. p \in Seq(Seq(S)) /\ Len(p) = Len(s) /\ \A k \in 1 .. Len(s) : p[k] = <<>>
    BY ThosePartsIn
<1>2. Those(s, K) = FlattenSeq(p)
    BY DEF Those, ThoseParts
<1> HIDE DEF p
<1>3. Len(s) \in Nat /\ p = [i \in 1 .. Len(s) |-> p[i]]
    BY <1>1
<1>4. p \in Seq({<<>>})
  <2>1. p \in [1 .. Len(s) -> {<<>>}]
      BY <1>1, <1>3, Zenon
  <2> QED BY <1>3, <2>1
<1>5. {<<>>} \subseteq Seq(S) /\ <<>> \in {<<>>}
    OBVIOUS
<1>6. \A a, b \in {<<>>} : a \o b \in {<<>>}
    OBVIOUS
<1>7. FlattenSeq(p) \in {<<>>}
    BY <1>4, <1>5, <1>6, FlatClosed, Zenon
<1> QED BY <1>2, <1>7

(* Histories that are paired stay so one after the other.                    *)
LEMMA PairedConcat ==
  ASSUME NEW S, \A x \in S : x.calls \in Seq(CallType), NEW a \in Seq(S), NEW b \in Seq(S), Paired(a), Paired(b)
  PROVE  Paired(a \o b)
<1> DEFINE m == Len(a)
           n == Len(b)
           c == a \o b
<1>1. /\ c \in Seq(S) /\ m \in Nat /\ n \in Nat /\ Len(c) = m + n
      /\ \A i \in 1 .. m : c[i] = a[i]
      /\ \A i \in 1 .. n : c[m + i] = b[i]
    BY ConcatFacts
<1>2. DOMAIN a = 1 .. m /\ DOMAIN b = 1 .. n /\ DOMAIN c = 1 .. m + n
    BY <1>1
<1>3. /\ \A h \in 1 .. m : \A k \in DOMAIN a[h].calls :
           h + k \in 1 .. m /\ a[h + k].role = "tool" /\ a[h + k].for = a[h].calls[k].id
      /\ \A i \in 1 .. m : a[i].role = "tool" => \E h \in 1 .. i - 1 : i - h <= Len(a[h].calls)
    BY <1>2, Zenon DEF Paired
<1>4. /\ \A h \in 1 .. n : \A k \in DOMAIN b[h].calls :
           h + k \in 1 .. n /\ b[h + k].role = "tool" /\ b[h + k].for = b[h].calls[k].id
      /\ \A i \in 1 .. n : b[i].role = "tool" => \E h \in 1 .. i - 1 : i - h <= Len(b[h].calls)
    BY <1>2, Zenon DEF Paired
<1>5. \A x \in S : DOMAIN x.calls = 1 .. Len(x.calls)
    OBVIOUS
<1>6. (\A i \in 1 .. m : a[i] \in S) /\ (\A i \in 1 .. n : b[i] \in S)
    OBVIOUS
<1> HIDE DEF m, n, c
<1>7. ASSUME NEW h \in 1 .. m + n, NEW k \in DOMAIN c[h].calls
      PROVE  h + k \in 1 .. m + n /\ c[h + k].role = "tool" /\ c[h + k].for = c[h].calls[k].id
  <2>1. CASE h \in 1 .. m
    <3>1. k \in DOMAIN a[h].calls /\ c[h] = a[h]
        BY <1>1, <2>1, Zenon
    <3>2. h + k \in 1 .. m /\ a[h + k].role = "tool" /\ a[h + k].for = a[h].calls[k].id
        BY <1>3, <2>1, <3>1, Zenon
    <3>3. h + k \in 1 .. m + n
        BY <1>1, <3>2
    <3> QED BY <1>1, <3>1, <3>2, <3>3, Zenon
  <2>2. CASE \E j \in 1 .. n : h = m + j
    <3>1. PICK j \in 1 .. n : h = m + j
        BY <2>2
    <3>2. c[h] = b[j]
        BY <1>1, <3>1, Zenon
    <3>3. k \in DOMAIN b[j].calls
        BY <3>2, Zenon
    <3>4. j + k \in 1 .. n /\ b[j + k].role = "tool" /\ b[j + k].for = b[j].calls[k].id
        BY <1>4, <3>3, Zenon
    <3>5. k \in Nat
        BY <1>5, <1>6, <3>3
    <3>6. h + k = m + (j + k) /\ h + k \in 1 .. m + n
        BY <1>1, <3>1, <3>4, <3>5
    <3>7. c[m + (j + k)] = b[j + k]
        BY <1>1, <3>4, Zenon
    <3> QED BY <3>2, <3>4, <3>6, <3>7, Zenon
  <2> QED BY <1>1, <2>1, <2>2, SplitIndex
<1>8. ASSUME NEW i \in 1 .. m + n, c[i].role = "tool"
      PROVE  \E h \in 1 .. i - 1 : i - h <= Len(c[h].calls)
  <2>1. CASE i \in 1 .. m
    <3>1. a[i].role = "tool"
        BY <1>1, <1>8, <2>1, Zenon
    <3>2. PICK h \in 1 .. i - 1 : i - h <= Len(a[h].calls)
        BY <1>3, <2>1, <3>1, Zenon
    <3>3. h \in 1 .. m
        BY <1>1, <2>1
    <3>4. c[h] = a[h]
        BY <1>1, <3>3, Zenon
    <3> QED BY <3>2, <3>4, Zenon
  <2>2. CASE \E j \in 1 .. n : i = m + j
    <3>1. PICK j \in 1 .. n : i = m + j
        BY <2>2
    <3>2. b[j].role = "tool"
        BY <1>1, <1>8, <3>1, Zenon
    <3>3. PICK h \in 1 .. j - 1 : j - h <= Len(b[h].calls)
        BY <1>4, <3>2, Zenon
    <3>4. h \in 1 .. n /\ m + h \in 1 .. i - 1 /\ i - (m + h) = j - h
        BY <1>1, <3>1
    <3>5. c[m + h] = b[h]
        BY <1>1, <3>4, Zenon
    <3> QED BY <3>3, <3>4, <3>5, Zenon
  <2> QED BY <1>1, <2>1, <2>2, SplitIndex
<1> QED BY <1>2, <1>7, <1>8, Zenon DEF Paired, c

(* What a message is.                                                        *)
LEMMA MsgFacts ==
  ASSUME NEW m \in Msg
  PROVE  /\ m.calls \in Seq(CallType) /\ Len(m.calls) \in Nat /\ DOMAIN m.calls = 1 .. Len(m.calls)
         /\ \A k \in 1 .. Len(m.calls) : m.calls[k].id \in Word /\ m.calls[k].name \in Word
         /\ m.calls # <<>> => m.role = "assistant"
         /\ m.for \in Word /\ m.text \in Seq(Int) /\ m.think \in Seq(Int)
<1>1. m.calls \in Seq(CallType) /\ (m.calls # <<>> => m.role = "assistant")
      /\ m.for \in Word /\ m.text \in Seq(Int) /\ m.think \in Seq(Int)
    BY DEF Msg, MsgType
<1>2. \A c \in CallType : c.id \in Word /\ c.name \in Word
    BY DEF CallType
<1>3. Len(m.calls) \in Nat /\ DOMAIN m.calls = 1 .. Len(m.calls) /\ \A k \in 1 .. Len(m.calls) : m.calls[k] \in CallType
    BY <1>1, SeqFacts, Zenon
<1> QED BY <1>1, <1>2, <1>3, Zenon

(* A message that is no head of a batch has no call.                         *)
LEMMA NotHead ==
  ASSUME NEW m \in Msg, ~IsHead(m)
  PROVE  m.calls = <<>>
  BY MsgFacts DEF IsHead

-------------------------------------------------------------------------------
(* Cleaning a history                                                        *)

(* The calls of m that Pruned(m, K) keeps.                                   *)
Ours(m, K) == {k \in DOMAIN m.calls : m.calls[k].id \in K}

(* Pruning a message removes calls of it and nothing else.                   *)
LEMMA PrunedFacts ==
  ASSUME NEW m \in Msg, NEW K
  PROVE  /\ Pruned(m, K) \in Msg
         /\ Pruned(m, K).calls = Those(m.calls, Ours(m, K))
         /\ Pruned(m, K).role = m.role /\ Pruned(m, K).for = m.for
         /\ m.calls = <<>> => Pruned(m, K).calls = <<>>
<1> DEFINE c == Those(m.calls, Ours(m, K))
<1>0. m.calls \in Seq(CallType)
    BY MsgFacts
<1>1. c \in Seq(CallType)
    BY <1>0, ThosePlaces, Zenon
<1>2. m.calls = <<>> => c = <<>>
  <2> SUFFICES ASSUME m.calls = <<>> PROVE c = <<>>
      OBVIOUS
  <2>1. \A k \in 1 .. Len(m.calls) : k \notin Ours(m, K)
      BY DEF Ours
  <2> QED BY <1>0, <2>1, ThoseNone, Zenon
<1>3. Pruned(m, K) = [m EXCEPT !.calls = c]
    BY DEF Pruned, Ours
<1> HIDE DEF c
<1>4. m \in MsgType /\ (m.calls # <<>> => m.role = "assistant")
    BY Zenon DEF Msg
<1>5. [m EXCEPT !.calls = c] \in MsgType
    BY <1>1, <1>4 DEF MsgType
<1>6. /\ [m EXCEPT !.calls = c].calls = c /\ [m EXCEPT !.calls = c].role = m.role
      /\ [m EXCEPT !.calls = c].for = m.for
    BY <1>4 DEF MsgType
<1>7. Pruned(m, K) \in Msg
    BY <1>2, <1>3, <1>4, <1>5, <1>6, Zenon DEF Msg
<1> QED BY <1>2, <1>3, <1>6, <1>7, Zenon DEF c

(* The results that Clean(ms, K) drops, and Clean as a join.                 *)
Gone(m, K) == m.role = "tool" /\ m.for \notin K

CleanParts(ms, K) == [i \in DOMAIN ms |-> CleanOne(ms[i], K)]

(* A message is dropped or pruned.                                           *)
LEMMA CleanOneFacts ==
  ASSUME NEW m \in Msg, NEW K
  PROVE  /\ CleanOne(m, K) \in Seq(Msg)
         /\ CleanOne(m, K) = IF Gone(m, K) THEN <<>> ELSE << Pruned(m, K) >>
<1>1. <<>> \in Seq(Msg) /\ \A x \in Msg : << x >> \in Seq(Msg)
    OBVIOUS
<1>2. CleanOne(m, K) = IF Gone(m, K) THEN <<>> ELSE << Pruned(m, K) >>
    BY Zenon DEF CleanOne, Gone
<1> QED BY <1>1, <1>2, PrunedFacts, Zenon

(* What the parts of Clean are.                                              *)
LEMMA CleanPartsIn ==
  ASSUME NEW s \in Seq(Msg), NEW K
  PROVE  /\ CleanParts(s, K) \in Seq(Seq(Msg)) /\ Len(CleanParts(s, K)) = Len(s)
         /\ \A i \in 1 .. Len(s) : CleanParts(s, K)[i] = CleanOne(s[i], K)
         /\ Clean(s, K) = FlattenSeq(CleanParts(s, K))
<1>1. Len(s) \in Nat /\ DOMAIN s = 1 .. Len(s) /\ \A i \in 1 .. Len(s) : s[i] \in Msg
    BY SeqFacts, Zenon
<1>2. CleanParts(s, K) = [i \in 1 .. Len(s) |-> CleanOne(s[i], K)]
    BY <1>1, Zenon DEF CleanParts
<1>3. \A i \in 1 .. Len(s) : CleanOne(s[i], K) \in Seq(Msg)
    BY <1>1, CleanOneFacts, Zenon
<1>4. CleanParts(s, K) \in [1 .. Len(s) -> Seq(Msg)]
    BY <1>2, <1>3, Zenon
<1>5. CleanParts(s, K) \in Seq(Seq(Msg)) /\ Len(CleanParts(s, K)) = Len(s)
    BY <1>1, <1>4
<1>6. Clean(s, K) = FlattenSeq(CleanParts(s, K))
    BY Zenon DEF Clean, CleanParts
<1> QED BY <1>2, <1>5, <1>6, Zenon

(* Cleaning a history gives a history.                                       *)
LEMMA CleanIn ==
  ASSUME NEW s \in Seq(Msg), NEW K
  PROVE  Clean(s, K) \in Seq(Msg)
<1>1. CleanParts(s, K) \in Seq(Seq(Msg)) /\ Clean(s, K) = FlattenSeq(CleanParts(s, K))
    BY CleanPartsIn, Zenon
<1> QED BY <1>1, FlatIn, Zenon

(* Cleaning goes message by message, so the two parts of a history are       *)
(* cleaned apart.                                                            *)
LEMMA CleanConcat ==
  ASSUME NEW a \in Seq(Msg), NEW b \in Seq(Msg), NEW K
  PROVE  Clean(a \o b, K) = Clean(a, K) \o Clean(b, K)
<1> DEFINE p == CleanParts(a, K)
           q == CleanParts(b, K)
           r == CleanParts(a \o b, K)
<1>1. /\ a \o b \in Seq(Msg) /\ Len(a) \in Nat /\ Len(b) \in Nat /\ Len(a \o b) = Len(a) + Len(b)
      /\ \A i \in 1 .. Len(a) : (a \o b)[i] = a[i]
      /\ \A i \in 1 .. Len(b) : (a \o b)[Len(a) + i] = b[i]
    BY ConcatFacts
<1>2. /\ p \in Seq(Seq(Msg)) /\ Len(p) = Len(a) /\ Clean(a, K) = FlattenSeq(p)
      /\ \A i \in 1 .. Len(a) : p[i] = CleanOne(a[i], K)
    BY CleanPartsIn, Zenon
<1>3. /\ q \in Seq(Seq(Msg)) /\ Len(q) = Len(b) /\ Clean(b, K) = FlattenSeq(q)
      /\ \A i \in 1 .. Len(b) : q[i] = CleanOne(b[i], K)
    BY CleanPartsIn, Zenon
<1>4. /\ r \in Seq(Seq(Msg)) /\ Len(r) = Len(a \o b) /\ Clean(a \o b, K) = FlattenSeq(r)
      /\ \A i \in 1 .. Len(a \o b) : r[i] = CleanOne((a \o b)[i], K)
    BY <1>1, CleanPartsIn, Zenon
<1> HIDE DEF p, q, r
<1>5. /\ p \o q \in Seq(Seq(Msg)) /\ Len(p \o q) = Len(a) + Len(b)
      /\ \A i \in 1 .. Len(a) : (p \o q)[i] = p[i]
      /\ \A i \in 1 .. Len(b) : (p \o q)[Len(a) + i] = q[i]
  <2>1. /\ p \o q \in Seq(Seq(Msg)) /\ Len(p \o q) = Len(p) + Len(q)
        /\ \A i \in 1 .. Len(p) : (p \o q)[i] = p[i]
        /\ \A i \in 1 .. Len(q) : (p \o q)[Len(p) + i] = q[i]
    <3>1. p \in Seq(Seq(Msg)) /\ q \in Seq(Seq(Msg))
        BY <1>2, <1>3
    <3>2. /\ p \o q \in Seq(Seq(Msg)) /\ Len(p) \in Nat /\ Len(q) \in Nat /\ Len(p \o q) = Len(p) + Len(q)
          /\ \A i \in 1 .. Len(p) : (p \o q)[i] = p[i]
          /\ \A i \in 1 .. Len(q) : (p \o q)[Len(p) + i] = q[i]
        BY <3>1, ConcatFacts
    <3> QED BY <3>2, Zenon
  <2>2. Len(p) = Len(a) /\ Len(q) = Len(b)
      BY <1>2, <1>3
  <2> QED BY <2>1, <2>2
<1>6. ASSUME NEW i \in 1 .. Len(a) + Len(b) PROVE r[i] = (p \o q)[i]
  <2>1. CASE i \in 1 .. Len(a)
      BY <1>1, <1>2, <1>4, <1>5, <2>1, Zenon
  <2>2. CASE \E j \in 1 .. Len(b) : i = Len(a) + j
    <3>1. PICK j \in 1 .. Len(b) : i = Len(a) + j
        BY <2>2
    <3>2. (a \o b)[i] = b[j] /\ (p \o q)[i] = q[j]
        BY <1>1, <1>5, <3>1, Zenon
    <3>3. r[i] = CleanOne((a \o b)[i], K)
        BY <1>1, <1>4, Zenon
    <3> QED BY <1>3, <3>2, <3>3, Zenon
  <2> QED BY <1>1, <2>1, <2>2, SplitIndex
<1>7. r = p \o q
  <2>1. Len(r) = Len(p \o q) /\ \A i \in 1 .. Len(r) : r[i] = (p \o q)[i]
      BY <1>1, <1>4, <1>5, <1>6, Zenon
  <2> QED BY <1>4, <1>5, <2>1, SeqEqual, Zenon
<1>8. FlattenSeq(p \o q) = FlattenSeq(p) \o FlattenSeq(q)
    BY <1>2, <1>3, FlatConcat, Zenon
<1> QED BY <1>2, <1>3, <1>4, <1>7, <1>8, Zenon

(* Cleaning no message, and one.                                             *)
LEMMA CleanSmall ==
  ASSUME NEW K
  PROVE  /\ Clean(<<>>, K) = <<>>
         /\ \A m \in Msg : Clean(<< m >>, K) = CleanOne(m, K)
<1>1. Clean(<<>>, K) = <<>>
  <2>1. CleanParts(<<>>, K) = <<>>
      BY DEF CleanParts
  <2> QED BY <2>1, FlatEmpty, Zenon DEF Clean, CleanParts
<1>2. ASSUME NEW m \in Msg PROVE Clean(<< m >>, K) = CleanOne(m, K)
  <2>1. CleanParts(<< m >>, K) = << CleanOne(m, K) >>
      BY DEF CleanParts
  <2>2. FlattenSeq(<< CleanOne(m, K) >>) = CleanOne(m, K)
      BY CleanOneFacts, FlatOne, Zenon
  <2> QED BY <2>1, <2>2, Zenon DEF Clean, CleanParts
<1> QED BY <1>1, <1>2

(* What is left of a cleaned history is a pruned message of it that is not   *)
(* gone.                                                                     *)
LEMMA CleanFrom ==
  ASSUME NEW s \in Seq(Msg), NEW K
  PROVE  \A x \in 1 .. Len(Clean(s, K)) : \E i \in 1 .. Len(s) :
           ~Gone(s[i], K) /\ Clean(s, K)[x] = Pruned(s[i], K)
<1> DEFINE p == CleanParts(s, K)
<1>1. /\ p \in Seq(Seq(Msg)) /\ Len(p) = Len(s) /\ Clean(s, K) = FlattenSeq(p)
      /\ \A i \in 1 .. Len(s) : p[i] = CleanOne(s[i], K)
    BY CleanPartsIn, Zenon
<1>2. \A i \in 1 .. Len(s) : s[i] \in Msg
    BY SeqFacts, Zenon
<1> HIDE DEF p
<1>3. \A i \in 1 .. Len(s) : p[i] = IF Gone(s[i], K) THEN <<>> ELSE << Pruned(s[i], K) >>
    BY <1>1, <1>2, CleanOneFacts, Zenon
<1>4. \A i \in 1 .. Len(s) : \A k \in 1 .. Len(p[i]) : ~Gone(s[i], K) /\ p[i][k] = Pruned(s[i], K)
  <2> SUFFICES ASSUME NEW i \in 1 .. Len(s), NEW k \in 1 .. Len(p[i]) PROVE ~Gone(s[i], K) /\ p[i][k] = Pruned(s[i], K)
      OBVIOUS
  <2>1. \A z : \A j \in 1 .. Len(<< z >>) : << z >>[j] = z
      OBVIOUS
  <2>2. \A j \in 1 .. Len(<<>>) : FALSE
      OBVIOUS
  <2> QED BY <1>3, <2>1, <2>2, Zenon
<1> SUFFICES ASSUME NEW x \in 1 .. Len(FlattenSeq(p))
             PROVE  \E i \in 1 .. Len(s) : ~Gone(s[i], K) /\ FlattenSeq(p)[x] = Pruned(s[i], K)
    BY <1>1, Zenon
<1>5. PICK i \in 1 .. Len(p) : \E k \in 1 .. Len(p[i]) : x = At(p, i, k)
    BY <1>1, FlatPlaces, Zenon
<1>6. PICK k \in 1 .. Len(p[i]) : x = At(p, i, k)
    BY <1>5
<1>7. FlattenSeq(p)[x] = p[i][k]
    BY <1>1, <1>6, FlatPlaces, Zenon
<1> QED BY <1>1, <1>4, <1>7, ZenonT(60)

(* An id is kept when it is not empty, a result and a call have it, and      *)
(* every call that has it is named.                                          *)
LEMMA KeptFacts ==
  ASSUME NEW s \in Seq(Msg)
  PROVE  \A x : x \in Kept(s) <=>
           /\ x # ""
           /\ \E i \in 1 .. Len(s) : s[i].role = "tool" /\ s[i].for = x
           /\ \E h \in 1 .. Len(s) : \E k \in DOMAIN s[h].calls : s[h].calls[k].id = x
           /\ \A h \in 1 .. Len(s) : \A k \in DOMAIN s[h].calls : s[h].calls[k].id = x => s[h].calls[k].name # ""
<1>1. DOMAIN s = 1 .. Len(s)
    OBVIOUS
<1> DEFINE calls == UNION {{s[i].calls[k] : k \in DOMAIN s[i].calls} : i \in DOMAIN s}
<1>2. \A c : c \in calls <=> \E h \in 1 .. Len(s) : \E k \in DOMAIN s[h].calls : c = s[h].calls[k]
    BY <1>1
<1>3. Kept(s) = ({c.id : c \in calls} \cap ResultIds(s)) \ {c.id : c \in {d \in calls : d.name = ""}}
    BY Zenon DEF Kept
<1>4. \A x : x \in ResultIds(s) <=> x # "" /\ \E i \in 1 .. Len(s) : s[i].role = "tool" /\ s[i].for = x
    BY <1>1, Zenon DEF ResultIds
<1> HIDE DEF calls
<1>5. \A x : x \in {c.id : c \in calls} <=> \E h \in 1 .. Len(s) : \E k \in DOMAIN s[h].calls : s[h].calls[k].id = x
    BY <1>2
<1>6. \A x : x \in {c.id : c \in {d \in calls : d.name = ""}} <=>
             \E h \in 1 .. Len(s) : \E k \in DOMAIN s[h].calls : s[h].calls[k].id = x /\ s[h].calls[k].name = ""
  <2> SUFFICES ASSUME NEW x
               PROVE x \in {c.id : c \in {d \in calls : d.name = ""}} <=>
             \E h \in 1 .. Len(s) : \E k \in DOMAIN s[h].calls : s[h].calls[k].id = x /\ s[h].calls[k].name = ""
      OBVIOUS
  <2>1. ASSUME NEW c \in calls, c.name = "", c.id = x
        PROVE \E h \in 1 .. Len(s) : \E k \in DOMAIN s[h].calls : s[h].calls[k].id = x /\ s[h].calls[k].name = ""
    <3>1. PICK h \in 1 .. Len(s) : \E k \in DOMAIN s[h].calls : c = s[h].calls[k]
        BY <1>2, Zenon
    <3>2. PICK k \in DOMAIN s[h].calls : c = s[h].calls[k]
        BY <3>1
    <3>3. s[h].calls[k].id = x /\ s[h].calls[k].name = ""
        BY <2>1, <3>2
    <3> QED BY <3>3, Zenon
  <2>2. ASSUME NEW h \in 1 .. Len(s), NEW k \in DOMAIN s[h].calls, s[h].calls[k].id = x, s[h].calls[k].name = ""
        PROVE x \in {c.id : c \in {d \in calls : d.name = ""}}
    <3>1. s[h].calls[k] \in calls
        BY <1>2, Zenon
    <3> QED BY <2>2, <3>1
  <2> QED BY <2>1, <2>2
<1> DEFINE A == {c.id : c \in calls}
           B == {c.id : c \in {d \in calls : d.name = ""}}
           C == ResultIds(s)
<1>7. Kept(s) = (A \cap C) \ B
    BY <1>3
<1>8. \A x : x \in Kept(s) <=> x \in C /\ x \in A /\ x \notin B
  <2> HIDE DEF A, B, C
  <2> QED BY <1>7
<1> SUFFICES ASSUME NEW x
             PROVE x \in Kept(s) <=>
           /\ x # ""
           /\ \E i \in 1 .. Len(s) : s[i].role = "tool" /\ s[i].for = x
           /\ \E h \in 1 .. Len(s) : \E k \in DOMAIN s[h].calls : s[h].calls[k].id = x
           /\ \A h \in 1 .. Len(s) : \A k \in DOMAIN s[h].calls : s[h].calls[k].id = x => s[h].calls[k].name # ""
    OBVIOUS
<1>9. x \in C <=> x # "" /\ \E i \in 1 .. Len(s) : s[i].role = "tool" /\ s[i].for = x
    BY <1>4, Zenon
<1>10. x \in A <=> \E h \in 1 .. Len(s) : \E k \in DOMAIN s[h].calls : s[h].calls[k].id = x
    BY <1>5, Zenon
<1>11. x \in B <=> \E h \in 1 .. Len(s) : \E k \in DOMAIN s[h].calls : s[h].calls[k].id = x /\ s[h].calls[k].name = ""
  <2>1. \A y : y \in B <=> \E h \in 1 .. Len(s) : \E k \in DOMAIN s[h].calls : s[h].calls[k].id = y /\ s[h].calls[k].name = ""
      BY <1>6
  <2> HIDE DEF B
  <2> QED BY <2>1, ZenonT(60)
<1> HIDE DEF A, B, C
<1> QED BY <1>8, <1>9, <1>10, <1>11, Zenon

-------------------------------------------------------------------------------
(* Repacking: the results of a batch are moved behind its head               *)

(* Between a message and the next head there is no head.                     *)
LEMMA NextHeadFacts ==
  ASSUME NEW f \in Seq(Msg), NEW i \in 1 .. Len(f)
  PROVE  /\ NextHead(f, i) \in i + 1 .. Len(f) + 1
         /\ \A j \in i + 1 .. NextHead(f, i) - 1 : j \in 1 .. Len(f) /\ ~IsHead(f[j])
         /\ NextHead(f, i) <= Len(f) => IsHead(f[NextHead(f, i)])
<1> DEFINE later == {j \in i + 1 .. Len(f) : IsHead(f[j])}
<1>0. Len(f) \in Nat
    OBVIOUS
<1>1. CASE later = {}
  <2>1. NextHead(f, i) = Len(f) + 1
      BY <1>1, Zenon DEF NextHead
  <2>2. \A j \in i + 1 .. Len(f) : ~IsHead(f[j])
      BY <1>1, Zenon
  <2> QED BY <1>0, <2>1, <2>2
<1>2. CASE later # {}
  <2>1. later \subseteq Nat
      BY <1>0
  <2>2. \E x \in later : \A y \in later : x <= y
      BY <1>2, <2>1, LeastNumber, Zenon
  <2>3. NextHead(f, i) = CHOOSE x \in later : \A y \in later : x <= y
      BY <1>2, Zenon DEF NextHead
  <2>4. NextHead(f, i) \in later /\ \A y \in later : NextHead(f, i) <= y
      BY <2>2, <2>3, Zenon
  <2>5. NextHead(f, i) \in i + 1 .. Len(f) /\ IsHead(f[NextHead(f, i)])
      BY <2>4, Zenon
  <2>6. ASSUME NEW j \in i + 1 .. NextHead(f, i) - 1 PROVE j \in 1 .. Len(f) /\ ~IsHead(f[j])
    <3>1. j \in i + 1 .. Len(f) /\ j \in 1 .. Len(f) /\ ~(NextHead(f, i) <= j)
        BY <1>0, <2>5
    <3> QED BY <2>4, <3>1, Zenon
  <2> QED BY <1>0, <2>5, <2>6
<1> QED BY <1>1, <1>2

(* What repacking looks at behind the message at i: up to the next head.     *)
Window(f, i) == SubSeq(f, i + 1, NextHead(f, i) - 1)

(* The places of a window in the history.                                    *)
LEMMA WindowFacts ==
  ASSUME NEW f \in Seq(Msg), NEW i \in 1 .. Len(f)
  PROVE  /\ Window(f, i) \in Seq(Msg) /\ Len(Window(f, i)) = NextHead(f, i) - 1 - i
         /\ \A k \in 1 .. Len(Window(f, i)) : i + k \in i + 1 .. NextHead(f, i) - 1 /\ Window(f, i)[k] = f[i + k]
         /\ \A j \in i + 1 .. NextHead(f, i) - 1 : j - i \in 1 .. Len(Window(f, i)) /\ i + (j - i) = j
<1> DEFINE e == NextHead(f, i) - 1
<1>1. Len(f) \in Nat /\ i + 1 \in Int /\ e \in i .. Len(f) /\ i + 1 \in 1 .. Len(f) + 1
    BY NextHeadFacts
<1> HIDE DEF e
<1>2. /\ SubSeq(f, i + 1, e) \in Seq(Msg) /\ Len(SubSeq(f, i + 1, e)) = e - i
      /\ \A k \in 1 .. e - i : SubSeq(f, i + 1, e)[k] = f[i + k]
  <2>1. e \in i + 1 - 1 .. Len(f) /\ \A k \in 1 .. e - i : i + 1 + k - 1 = i + k
      BY <1>1
  <2>2. SubSeq(f, i + 1, e) = [k \in 1 .. e - i |-> f[i + k]]
      BY <1>1, <2>1
  <2>3. \A k \in 1 .. e - i : f[i + k] \in Msg
      BY <1>1
  <2> QED BY <1>1, <2>2, <2>3
<1>3. \A k \in 1 .. e - i : i + k \in i + 1 .. e
    BY <1>1
<1>4. \A j \in i + 1 .. e : j - i \in 1 .. e - i /\ i + (j - i) = j
    BY <1>1
<1> QED BY <1>2, <1>3, <1>4 DEF Window, e

(* The best result is one of the candidates.                                 *)
LEMMA BestIn ==
  ASSUME NEW s \in Seq(Msg), s # <<>>
  PROVE  \E x \in 1 .. Len(s) : BestResult(s) = s[x]
<1> DEFINE K == {k \in DOMAIN s : ~NoText(s[k])}
           t == Those(s, K)
<1>1. Len(s) \in Nat /\ 1 \in 1 .. Len(s)
    BY EmptySeq
<1>3. BestResult(s) = Head(t \o s)
    BY Zenon DEF BestResult
<1> HIDE DEF K
<1>2. t \in Seq(Msg) /\ \E g \in [1 .. Len(t) -> 1 .. Len(s)] : \A x \in 1 .. Len(t) : g[x] \in K /\ t[x] = s[g[x]]
    BY ThosePlaces
<1> HIDE DEF t
<1>4. Head(t \o s) = (t \o s)[1]
    BY <1>1, <1>2
<1>5. CASE t = <<>>
  <2>1. (t \o s)[1] = s[1]
      BY <1>1, <1>5
  <2> QED BY <1>1, <1>3, <1>4, <2>1, Zenon
<1>6. CASE t # <<>>
  <2>1. 1 \in 1 .. Len(t)
      BY <1>2, <1>6, EmptySeq
  <2>2. (t \o s)[1] = t[1]
      BY <1>2, <2>1, ConcatFacts
  <2>3. PICK g \in [1 .. Len(t) -> 1 .. Len(s)] : \A x \in 1 .. Len(t) : g[x] \in K /\ t[x] = s[g[x]]
      BY <1>2
  <2>4. t[1] = s[g[1]] /\ g[1] \in 1 .. Len(s)
      BY <2>1, <2>3, Zenon
  <2> QED BY <1>3, <1>4, <2>2, <2>4, Zenon
<1> QED BY <1>5, <1>6

(* The results found for an id are those of the window that answer m, and    *)
(* some are found when there are any.                                        *)
LEMMA ResultsFacts ==
  ASSUME NEW m, NEW w \in Seq(Msg), NEW id
  PROVE  /\ ResultsOf(m, w, id) \in Seq(Msg)
         /\ \A x \in 1 .. Len(ResultsOf(m, w, id)) : \E j \in 1 .. Len(w) :
              ResultsOf(m, w, id)[x] = w[j] /\ Answers(m, w[j]) /\ w[j].for = id
         /\ (\E j \in 1 .. Len(w) : Answers(m, w[j]) /\ w[j].for = id) => ResultsOf(m, w, id) # <<>>
<1> DEFINE K == {k \in DOMAIN w : Answers(m, w[k]) /\ w[k].for = id}
           r == Those(w, K)
<1>0. DOMAIN w = 1 .. Len(w)
    OBVIOUS
<1>1. ResultsOf(m, w, id) = r
    BY Zenon DEF ResultsOf
<1>2. \A k : k \in K <=> k \in 1 .. Len(w) /\ Answers(m, w[k]) /\ w[k].for = id
    BY <1>0, Zenon
<1> HIDE DEF K
<1>3. /\ r \in Seq(Msg)
      /\ \E g \in [1 .. Len(r) -> 1 .. Len(w)] :
           /\ \A x \in 1 .. Len(r) : g[x] \in K /\ r[x] = w[g[x]]
           /\ \A k \in 1 .. Len(w) : k \in K => \E x \in 1 .. Len(r) : g[x] = k
    BY ThosePlaces
<1> HIDE DEF r
<1>4. PICK g \in [1 .. Len(r) -> 1 .. Len(w)] :
           /\ \A x \in 1 .. Len(r) : g[x] \in K /\ r[x] = w[g[x]]
           /\ \A k \in 1 .. Len(w) : k \in K => \E x \in 1 .. Len(r) : g[x] = k
    BY <1>3
<1>5. ASSUME NEW x \in 1 .. Len(r) PROVE \E j \in 1 .. Len(w) : r[x] = w[j] /\ Answers(m, w[j]) /\ w[j].for = id
    BY <1>2, <1>4, Zenon
<1>6. ASSUME NEW j \in 1 .. Len(w), Answers(m, w[j]), w[j].for = id PROVE r # <<>>
  <2>1. PICK x \in 1 .. Len(r) : g[x] = j
      BY <1>2, <1>4, <1>6, Zenon
  <2>2. \A y \in 1 .. Len(<<>>) : FALSE
      OBVIOUS
  <2> QED BY <2>1, <2>2, Zenon
<1> QED BY <1>1, <1>3, <1>5, <1>6, ZenonT(60)

(* A call gets one result of its id or none, and gets one when it is the     *)
(* last call of that id and the window answers it.                           *)
LEMMA ChosenFacts ==
  ASSUME NEW m, NEW w \in Seq(Msg), NEW k
  PROVE  /\ \/ Chosen(m, w, k) = <<>>
            \/ \E j \in 1 .. Len(w) : /\ Chosen(m, w, k) = << w[j] >>
                                      /\ Answers(m, w[j]) /\ w[j].for = m.calls[k].id
         /\ (IsLast(m.calls, k) /\ \E j \in 1 .. Len(w) : Answers(m, w[j]) /\ w[j].for = m.calls[k].id)
              => Chosen(m, w, k) # <<>>
         /\ Chosen(m, w, k) \in Seq(Msg)
<1> DEFINE r == ResultsOf(m, w, m.calls[k].id)
<1>1. /\ r \in Seq(Msg)
      /\ \A x \in 1 .. Len(r) : \E j \in 1 .. Len(w) :
              r[x] = w[j] /\ Answers(m, w[j]) /\ w[j].for = m.calls[k].id
      /\ (\E j \in 1 .. Len(w) : Answers(m, w[j]) /\ w[j].for = m.calls[k].id) => r # <<>>
  <2> DEFINE id == m.calls[k].id
             q == ResultsOf(m, w, id)
  <2>1. /\ q \in Seq(Msg)
        /\ \A x \in 1 .. Len(q) : \E j \in 1 .. Len(w) :
              q[x] = w[j] /\ Answers(m, w[j]) /\ w[j].for = id
        /\ (\E j \in 1 .. Len(w) : Answers(m, w[j]) /\ w[j].for = id) => q # <<>>
    <3> HIDE DEF id
    <3> QED BY ResultsFacts, ZenonT(60)
  <2> QED BY <2>1 DEF q
<1>2. Chosen(m, w, k) = IF IsLast(m.calls, k) /\ r # <<>> THEN << BestResult(r) >> ELSE <<>>
    BY Zenon DEF Chosen
<1> HIDE DEF r
<1>3. r # <<>> => \E j \in 1 .. Len(w) : BestResult(r) = w[j] /\ Answers(m, w[j]) /\ w[j].for = m.calls[k].id
  <2> SUFFICES ASSUME r # <<>>
               PROVE  \E j \in 1 .. Len(w) : BestResult(r) = w[j] /\ Answers(m, w[j]) /\ w[j].for = m.calls[k].id
      OBVIOUS
  <2>1. PICK x \in 1 .. Len(r) : BestResult(r) = r[x]
      BY <1>1, BestIn, Zenon
  <2> QED BY <1>1, <2>1, Zenon
<1>4. \A z : << z >> # <<>>
    OBVIOUS
<1>5. <<>> \in Seq(Msg) /\ \A j \in 1 .. Len(w) : << w[j] >> \in Seq(Msg)
    OBVIOUS
<1> QED BY <1>1, <1>2, <1>3, <1>4, <1>5, Zenon

(* Gathered(m, w) is the chosen results, call by call, then the others.      *)
ChosenParts(m, w) == [k \in DOMAIN m.calls |-> Chosen(m, w, k)]
Others(m, w) == Those(w, {k \in DOMAIN w : ~Answers(m, w[k])})

(* What the two parts of a gathered window are.                              *)
LEMMA GatheredFacts ==
  ASSUME NEW m \in Msg, NEW w \in Seq(Msg)
  PROVE  /\ ChosenParts(m, w) \in Seq(Seq(Msg)) /\ Len(ChosenParts(m, w)) = Len(m.calls)
         /\ \A k \in 1 .. Len(m.calls) : ChosenParts(m, w)[k] = Chosen(m, w, k)
         /\ Others(m, w) \in Seq(Msg)
         /\ \A x \in 1 .. Len(Others(m, w)) : \E j \in 1 .. Len(w) : Others(m, w)[x] = w[j] /\ ~Answers(m, w[j])
         /\ Gathered(m, w) = FlattenSeq(ChosenParts(m, w)) \o Others(m, w)
<1>1. Len(m.calls) \in Nat /\ DOMAIN m.calls = 1 .. Len(m.calls) /\ DOMAIN w = 1 .. Len(w)
    BY MsgFacts
<1>2. ChosenParts(m, w) = [k \in 1 .. Len(m.calls) |-> Chosen(m, w, k)]
    BY <1>1, Zenon DEF ChosenParts
<1>3. \A k \in 1 .. Len(m.calls) : Chosen(m, w, k) \in Seq(Msg)
    BY ChosenFacts, Zenon
<1>4. ChosenParts(m, w) \in [1 .. Len(m.calls) -> Seq(Msg)]
    BY <1>2, <1>3, Zenon
<1>5. ChosenParts(m, w) \in Seq(Seq(Msg)) /\ Len(ChosenParts(m, w)) = Len(m.calls)
    BY <1>1, <1>4
<1>6. Gathered(m, w) = FlattenSeq(ChosenParts(m, w)) \o Others(m, w)
    BY Zenon DEF Gathered, ChosenParts, Others
<1> DEFINE K == {k \in DOMAIN w : ~Answers(m, w[k])}
           o == Those(w, K)
<1>7. \A k \in K : k \in 1 .. Len(w) /\ ~Answers(m, w[k])
    BY <1>1, Zenon
<1> HIDE DEF K
<1>8. /\ o \in Seq(Msg)
      /\ \E g \in [1 .. Len(o) -> 1 .. Len(w)] : \A x \in 1 .. Len(o) : g[x] \in K /\ o[x] = w[g[x]]
    BY ThosePlaces
<1>9. \A x \in 1 .. Len(o) : \E j \in 1 .. Len(w) : o[x] = w[j] /\ ~Answers(m, w[j])
  <2> HIDE DEF o
  <2>1. PICK g \in [1 .. Len(o) -> 1 .. Len(w)] : \A x \in 1 .. Len(o) : g[x] \in K /\ o[x] = w[g[x]]
      BY <1>8
  <2> QED BY <1>7, <2>1, Zenon
<1>10. Others(m, w) = o
    BY Zenon DEF Others, K
<1> HIDE DEF o
<1> QED BY <1>2, <1>5, <1>6, <1>8, <1>9, <1>10, Zenon

(* The messages a are the results of the calls b, one each, in their order.  *)
Match(a, b) == Len(a) = Len(b) /\ \A x \in 1 .. Len(a) : a[x].role = "tool" /\ a[x].for = b[x].id

(* Matching goes part by part.                                               *)
LEMMA MatchConcat ==
  ASSUME NEW a \in Seq(Msg), NEW b \in Seq(Msg), NEW c \in Seq(CallType), NEW d \in Seq(CallType),
         Match(a, c), Match(b, d)
  PROVE  Match(a \o b, c \o d)
<1>1. /\ Len(a) \in Nat /\ Len(b) \in Nat /\ Len(a \o b) = Len(a) + Len(b)
      /\ \A i \in 1 .. Len(a) : (a \o b)[i] = a[i]
      /\ \A i \in 1 .. Len(b) : (a \o b)[Len(a) + i] = b[i]
    BY ConcatFacts
<1>2. /\ Len(c \o d) = Len(c) + Len(d)
      /\ \A i \in 1 .. Len(c) : (c \o d)[i] = c[i]
      /\ \A i \in 1 .. Len(d) : (c \o d)[Len(c) + i] = d[i]
    BY ConcatFacts
<1>3. Len(a) = Len(c) /\ Len(b) = Len(d)
    BY DEF Match
<1>4. ASSUME NEW x \in 1 .. Len(a) + Len(b)
      PROVE  (a \o b)[x].role = "tool" /\ (a \o b)[x].for = (c \o d)[x].id
  <2>1. CASE x \in 1 .. Len(a)
      BY <1>1, <1>2, <1>3, <2>1, Zenon DEF Match
  <2>2. CASE \E j \in 1 .. Len(b) : x = Len(a) + j
    <3>1. PICK j \in 1 .. Len(b) : x = Len(a) + j
        BY <2>2
    <3>2. (a \o b)[x] = b[j] /\ (c \o d)[x] = d[j]
        BY <1>1, <1>2, <1>3, <3>1, Zenon
    <3> QED BY <3>2, Zenon DEF Match
  <2> QED BY <1>1, <2>1, <2>2, SplitIndex
<1>5. Len(a \o b) = Len(c \o d)
    BY <1>1, <1>2, <1>3, Zenon
<1> QED BY <1>1, <1>4, <1>5, Zenon DEF Match

(* A head followed by the results that match its calls is paired.            *)
LEMMA PairedHead ==
  ASSUME NEW m \in Msg, m.role # "tool", NEW a \in Seq(Msg), Match(a, m.calls)
  PROVE  << m >> \o a \in Seq(Msg) /\ Paired(<< m >> \o a)
<1> DEFINE c == << m >> \o a
           n == Len(a)
<1>1. << m >> \in Seq(Msg) /\ Len(<< m >>) = 1 /\ << m >>[1] = m /\ 1 \in 1 .. 1
    OBVIOUS
<1>2. /\ c \in Seq(Msg) /\ n \in Nat /\ Len(c) = 1 + n
      /\ \A i \in 1 .. Len(<< m >>) : c[i] = << m >>[i]
      /\ \A i \in 1 .. n : c[Len(<< m >>) + i] = a[i]
    BY <1>1, ConcatFacts
<1> HIDE DEF c
<1>3. c[1] = m /\ (\A i \in 1 .. n : c[1 + i] = a[i]) /\ DOMAIN c = 1 .. 1 + n
    BY <1>1, <1>2
<1>4. n = Len(m.calls) /\ DOMAIN m.calls = 1 .. n /\ \A x \in 1 .. n : a[x].role = "tool" /\ a[x].for = m.calls[x].id
    BY MsgFacts DEF Match
<1>5. \A x \in 1 .. n : a[x] \in Msg
    OBVIOUS
<1> HIDE DEF n
<1>6. \A x \in 1 .. n : a[x].calls = <<>>
  <2>1. "tool" # "assistant"
      OBVIOUS
  <2> QED BY <1>4, <1>5, <2>1, MsgFacts, Zenon
<1>7. ASSUME NEW h \in 1 .. 1 + n, NEW k \in DOMAIN c[h].calls
      PROVE  h + k \in 1 .. 1 + n /\ c[h + k].role = "tool" /\ c[h + k].for = c[h].calls[k].id
  <2>1. CASE h = 1
    <3>1. k \in 1 .. n
        BY <1>3, <1>4, <2>1, Zenon
    <3>2. 1 + k \in 1 .. 1 + n
        BY <1>2, <3>1
    <3> QED BY <1>3, <1>4, <2>1, <3>1, <3>2, ZenonT(60)
  <2>2. CASE h # 1
    <3>1. h - 1 \in 1 .. n /\ h = 1 + (h - 1)
        BY <1>2, <2>2
    <3>2. c[h].calls = <<>>
        BY <1>3, <1>6, <3>1, Zenon
    <3>3. \A j \in DOMAIN <<>> : FALSE
        OBVIOUS
    <3> QED BY <3>2, <3>3, Zenon
  <2> QED BY <2>1, <2>2
<1>8. ASSUME NEW i \in 1 .. 1 + n, c[i].role = "tool"
      PROVE  \E h \in 1 .. i - 1 : i - h <= Len(c[h].calls)
  <2>1. i # 1
      BY <1>3, <1>8
  <2>2. 1 \in 1 .. i - 1 /\ i - 1 <= n
      BY <1>2, <2>1
  <2> QED BY <1>3, <1>4, <2>2, Zenon
<1>9. Paired(c)
    BY <1>3, <1>7, <1>8, Zenon DEF Paired
<1> QED BY <1>2, <1>9 DEF c

(* A history with neither calls nor results is paired.                       *)
LEMMA PairedPlain ==
  ASSUME NEW s \in Seq(Msg), \A i \in 1 .. Len(s) : s[i].calls = <<>> /\ s[i].role # "tool"
  PROVE  Paired(s)
<1>1. DOMAIN s = 1 .. Len(s)
    OBVIOUS
<1>2. \A j \in DOMAIN <<>> : FALSE
    OBVIOUS
<1> QED BY <1>1, <1>2, Zenon DEF Paired

(* Every id of K is one of a call and of a result of f.                      *)
Backed(f, K) ==
  \A x \in K : /\ x # ""
               /\ \E i \in 1 .. Len(f) : f[i].role = "tool" /\ f[i].for = x
               /\ \E h \in 1 .. Len(f) : \E k \in DOMAIN f[h].calls : f[h].calls[k].id = x

(* In a history that is in time an id is called once, and its result comes   *)
(* behind the call and before the next head.                                 *)
LEMMA InTimeFacts ==
  ASSUME NEW f \in Seq(Msg), InTime(f)
  PROVE  /\ \A h, g \in 1 .. Len(f) : \A k \in DOMAIN f[h].calls, j \in DOMAIN f[g].calls :
              f[h].calls[k].id = f[g].calls[j].id => h = g /\ k = j
         /\ \A i, h \in 1 .. Len(f) : \A k \in DOMAIN f[h].calls :
              (f[i].role = "tool" /\ f[i].for = f[h].calls[k].id /\ f[i].for # "") =>
                /\ IsHead(f[h]) /\ f[i].for \in Ids(f[h])
                /\ h < i /\ \A g \in h + 1 .. i - 1 : ~IsHead(f[g])
<1>1. DOMAIN f = 1 .. Len(f) /\ \A i \in 1 .. Len(f) : f[i] \in Msg
    BY SeqFacts, Zenon
<1>2. \A h, g \in 1 .. Len(f) : \A k \in DOMAIN f[h].calls, j \in DOMAIN f[g].calls :
              f[h].calls[k].id = f[g].calls[j].id => h = g /\ k = j
    BY <1>1, Zenon DEF InTime
<1>3. ASSUME NEW i \in 1 .. Len(f), NEW h \in 1 .. Len(f), NEW k \in DOMAIN f[h].calls,
             f[i].role = "tool", f[i].for = f[h].calls[k].id, f[i].for # ""
      PROVE  /\ IsHead(f[h]) /\ f[i].for \in Ids(f[h])
             /\ h < i /\ \A g \in h + 1 .. i - 1 : ~IsHead(f[g])
  <2>1. f[h].calls # <<>>
      OBVIOUS
  <2>2. IsHead(f[h])
      BY <1>1, <2>1, MsgFacts, Zenon DEF IsHead
  <2>3. f[i].for \in Ids(f[h])
      BY <1>3, Zenon DEF Ids
  <2> QED BY <1>1, <1>3, <2>2, <2>3, Zenon DEF InTime
<1> QED BY <1>2, <1>3, Zenon

(* The message at j is a result of call k of the message at i.               *)
Result(f, i, k, j) == f[j].role = "tool" /\ f[j].for = f[i].calls[k].id /\ f[j].for # ""

(* In a history that is in time a result of a call is in the window of the   *)
(* call and answers its head.                                                *)
LEMMA ResultNear ==
  ASSUME NEW f \in Seq(Msg), InTime(f), NEW i \in 1 .. Len(f), NEW k \in DOMAIN f[i].calls,
         NEW j \in 1 .. Len(f), Result(f, i, k, j)
  PROVE  \E x \in 1 .. Len(Window(f, i)) : j = i + x /\ Window(f, i)[x] = f[j] /\ Answers(f[i], f[j])
<1> DEFINE nh == NextHead(f, i)
<1>0. Len(f) \in Nat
    BY SeqFacts, Zenon
<1>1. /\ IsHead(f[i]) /\ f[j].for \in Ids(f[i])
      /\ i < j /\ \A g \in i + 1 .. j - 1 : ~IsHead(f[g])
    BY InTimeFacts, Zenon DEF Result
<1>2. nh \in i + 1 .. Len(f) + 1 /\ (nh <= Len(f) => IsHead(f[nh]))
    BY NextHeadFacts, Zenon
<1>3. ~IsHead(f[j])
    BY DEF IsHead, Result
<1> HIDE DEF nh
<1>4. nh # j
    BY <1>0, <1>2, <1>3
<1>5. ~(nh < j)
  <2> SUFFICES ASSUME nh < j PROVE FALSE
      OBVIOUS
  <2>1. nh \in i + 1 .. j - 1 /\ nh <= Len(f)
      BY <1>0, <1>2
  <2> QED BY <1>1, <1>2, <2>1, Zenon
<1>6. j \in i + 1 .. nh - 1
    BY <1>0, <1>1, <1>2, <1>4, <1>5
<1>7. j - i \in 1 .. Len(Window(f, i)) /\ i + (j - i) = j
    BY <1>6, WindowFacts, Zenon DEF nh
<1>8. Window(f, i)[j - i] = f[i + (j - i)]
    BY <1>7, WindowFacts, Zenon
<1>9. Answers(f[i], f[j])
    BY <1>1, Zenon DEF Answers, Result
<1> QED BY <1>7, <1>8, <1>9, Zenon

(* In a history that is in time every call is the last one of its id.        *)
LEMMA CallsOnce ==
  ASSUME NEW f \in Seq(Msg), InTime(f), NEW i \in 1 .. Len(f), NEW k \in DOMAIN f[i].calls
  PROVE  IsLast(f[i].calls, k)
<1>1. \A j \in DOMAIN f[i].calls : f[i].calls[j].id = f[i].calls[k].id => j = k
    BY InTimeFacts, Zenon
<1>2. f[i] \in Msg
    OBVIOUS
<1>3. DOMAIN f[i].calls = 1 .. Len(f[i].calls)
    BY <1>2, MsgFacts, Zenon
<1>4. k <= k
    BY <1>3
<1> QED BY <1>1, <1>4, Zenon DEF IsLast

(* What cleaning leaves of the result chosen for a call matches what it      *)
(* leaves of the call. This is where the order of the passes matters: the    *)
(* ids are kept for the whole history, the result is chosen in one window.   *)
LEMMA ChosenMatches ==
  ASSUME NEW f \in Seq(Msg), InTime(f), NEW K, Backed(f, K), NEW i \in 1 .. Len(f), NEW k \in DOMAIN f[i].calls
  PROVE  Match(Clean(Chosen(f[i], Window(f, i), k), K),
               IF k \in Ours(f[i], K) THEN << f[i].calls[k] >> ELSE <<>>)
<1> DEFINE m == f[i]
           w == Window(f, i)
           id == m.calls[k].id
           c == Chosen(m, w, k)
<1>1. w \in Seq(Msg)
    BY WindowFacts, Zenon
<1>2. \/ c = <<>>
      \/ \E j \in 1 .. Len(w) : c = << w[j] >> /\ Answers(m, w[j]) /\ w[j].for = id
    BY <1>1, ChosenFacts, Zenon
<1>3. (\E j \in 1 .. Len(w) : Answers(m, w[j]) /\ w[j].for = id) => c # <<>>
    BY <1>1, ChosenFacts, CallsOnce, ZenonT(60)
<1>4. k \in Ours(m, K) <=> id \in K
    BY Zenon DEF Ours
<1>5. id \in K => c # <<>>
  <2> SUFFICES ASSUME id \in K PROVE c # <<>>
      OBVIOUS
  <2>1. PICK j \in 1 .. Len(f) : f[j].role = "tool" /\ f[j].for = id
      BY Zenon DEF Backed
  <2>2. f[j].for # ""
      BY <2>1, Zenon DEF Backed
  <2>3. \E x \in 1 .. Len(w) : j = i + x /\ w[x] = f[j] /\ Answers(m, f[j])
      BY <2>1, <2>2, ResultNear, Zenon DEF Result
  <2> QED BY <1>3, <2>1, <2>3, Zenon
<1> HIDE DEF w, c
<1>6. Match(<<>>, <<>>)
    BY DEF Match
<1>7. CASE c = <<>>
  <2>1. k \notin Ours(m, K)
      BY <1>4, <1>5, <1>7, Zenon
  <2>2. Clean(c, K) = <<>>
      BY <1>7, CleanSmall, Zenon
  <2> HIDE DEF m
  <2> QED BY <1>6, <2>1, <2>2, Zenon DEF m, w, c
<1>8. CASE \E j \in 1 .. Len(w) : c = << w[j] >> /\ Answers(m, w[j]) /\ w[j].for = id
  <2>1. PICK j \in 1 .. Len(w) : c = << w[j] >> /\ Answers(m, w[j]) /\ w[j].for = id
      BY <1>8
  <2>2. w[j] \in Msg /\ w[j].role = "tool"
      BY <1>1, <2>1 DEF Answers
  <2>3. Clean(c, K) = IF Gone(w[j], K) THEN <<>> ELSE << Pruned(w[j], K) >>
      BY <2>1, <2>2, CleanSmall, CleanOneFacts, Zenon
  <2>4. Gone(w[j], K) <=> id \notin K
      BY <2>1, <2>2, Zenon DEF Gone
  <2>5. Pruned(w[j], K).role = "tool" /\ Pruned(w[j], K).for = id
      BY <2>1, <2>2, PrunedFacts, Zenon
  <2>6. \A x, y : (x.role = "tool" /\ x.for = y.id) => Match(<< x >>, << y >>)
      BY DEF Match
  <2>7. CASE id \in K
    <3>1. k \in Ours(m, K) /\ Clean(c, K) = << Pruned(w[j], K) >>
        BY <1>4, <2>3, <2>4, <2>7, Zenon
    <3>2. Match(<< Pruned(w[j], K) >>, << m.calls[k] >>)
        BY <2>5, <2>6, Zenon
    <3> QED BY <3>1, <3>2, Zenon DEF w, c
  <2>8. CASE id \notin K
    <3>1. k \notin Ours(m, K) /\ Clean(c, K) = <<>>
        BY <1>4, <2>3, <2>4, <2>8, Zenon
    <3> QED BY <1>6, <3>1, Zenon DEF w, c
  <2> QED BY <2>7, <2>8
<1> QED BY <1>2, <1>7, <1>8, Zenon

(* The same for all the calls of a head.                                     *)
LEMMA AllChosenMatch ==
  ASSUME NEW f \in Seq(Msg), InTime(f), NEW K, Backed(f, K), NEW i \in 1 .. Len(f)
  PROVE  Match(Clean(FlattenSeq(ChosenParts(f[i], Window(f, i))), K), Pruned(f[i], K).calls)
<1> DEFINE m == f[i]
           w == Window(f, i)
           p == ChosenParts(m, w)
           q == ThoseParts(m.calls, Ours(m, K))
           n == Len(m.calls)
           N == {x \in Nat : x <= n => Match(Clean(Pre(p, x), K), Pre(q, x))}
<1>1. m \in Msg /\ w \in Seq(Msg)
    BY WindowFacts
<1>2. n \in Nat /\ DOMAIN m.calls = 1 .. n /\ m.calls \in Seq(CallType)
    BY <1>1, MsgFacts, Zenon
<1>3. /\ p \in Seq(Seq(Msg)) /\ Len(p) = n
      /\ \A k \in 1 .. n : p[k] = Chosen(m, w, k)
    BY <1>1, GatheredFacts, Zenon
<1>4. /\ q \in Seq(Seq(CallType)) /\ Len(q) = n
      /\ \A k \in 1 .. n : q[k] = IF k \in Ours(m, K) THEN << m.calls[k] >> ELSE <<>>
    BY <1>2, ThosePartsIn
<1>5. \A k \in 1 .. n : Match(Clean(Chosen(m, w, k), K), IF k \in Ours(m, K) THEN << m.calls[k] >> ELSE <<>>)
    BY <1>2, ChosenMatches, Zenon
<1>6. Pruned(m, K).calls = FlattenSeq(q)
    BY <1>1, PrunedFacts, Zenon DEF Those, ThoseParts
<1> HIDE DEF p, q, w, m, n
<1>7. \A k \in 1 .. n : Match(Clean(p[k], K), q[k])
    BY <1>3, <1>4, <1>5, Zenon
<1>8. /\ FlattenSeq(p) = Pre(p, n) /\ Pre(p, 0) = <<>> /\ \A k \in 1 .. n : Pre(p, k) = Pre(p, k - 1) \o p[k]
      /\ FlattenSeq(q) = Pre(q, n) /\ Pre(q, 0) = <<>> /\ \A k \in 1 .. n : Pre(q, k) = Pre(q, k - 1) \o q[k]
    BY <1>3, <1>4, FlatNext, Zenon
<1>9. (\A k \in 0 .. n : Pre(p, k) \in Seq(Msg)) /\ (\A k \in 0 .. n : Pre(q, k) \in Seq(CallType))
    BY <1>3, <1>4, FlatIn, Zenon
<1>10. 0 \in N
  <2>1. Match(<<>>, <<>>)
      BY DEF Match
  <2> QED BY <1>8, <2>1, CleanSmall, Zenon
<1>11. ASSUME NEW x \in Nat, x \in N PROVE x + 1 \in N
  <2> SUFFICES ASSUME x + 1 <= n PROVE Match(Clean(Pre(p, x + 1), K), Pre(q, x + 1))
      OBVIOUS
  <2>1. x + 1 \in 1 .. n /\ (x + 1) - 1 = x /\ x <= n /\ x \in 0 .. n
      BY <1>2
  <2>2. Pre(p, x + 1) = Pre(p, x) \o p[x + 1] /\ Pre(q, x + 1) = Pre(q, x) \o q[x + 1]
      BY <1>8, <2>1
  <2>3. /\ Pre(p, x) \in Seq(Msg) /\ Pre(q, x) \in Seq(CallType)
        /\ p[x + 1] \in Seq(Msg) /\ q[x + 1] \in Seq(CallType)
    <3>1. p[x + 1] \in Seq(Msg)
        BY <1>3, <2>1
    <3>2. q[x + 1] \in Seq(CallType)
        BY <1>4, <2>1
    <3> QED BY <1>9, <2>1, <3>1, <3>2, Zenon
  <2>4. Match(Clean(Pre(p, x), K), Pre(q, x)) /\ Match(Clean(p[x + 1], K), q[x + 1])
      BY <1>7, <1>11, <2>1
  <2>5. Clean(Pre(p, x) \o p[x + 1], K) = Clean(Pre(p, x), K) \o Clean(p[x + 1], K)
      BY <2>3, CleanConcat, ZenonT(60)
  <2>6. Clean(Pre(p, x), K) \in Seq(Msg) /\ Clean(p[x + 1], K) \in Seq(Msg)
      BY <2>3, CleanIn, Zenon
  <2>7. Match(Clean(Pre(p, x), K) \o Clean(p[x + 1], K), Pre(q, x) \o q[x + 1])
      BY <2>3, <2>4, <2>6, MatchConcat, Zenon
  <2> QED BY <2>2, <2>5, <2>7, Zenon
<1> HIDE DEF N
<1>12. \A x \in Nat : x \in N
    BY <1>10, <1>11, SetInduction
<1>13. Match(Clean(Pre(p, n), K), Pre(q, n))
    BY <1>2, <1>12 DEF N
<1> QED BY <1>6, <1>8, <1>13, Zenon DEF m, w, p

(* What cleaning leaves of the rest of a window is neither call nor result.  *)
LEMMA OthersPlain ==
  ASSUME NEW f \in Seq(Msg), InTime(f), NEW K, Backed(f, K), NEW i \in 1 .. Len(f), IsHead(f[i])
  PROVE  Paired(Clean(Others(f[i], Window(f, i)), K))
<1> DEFINE m == f[i]
           w == Window(f, i)
           o == Others(m, w)
<1>0. Len(f) \in Nat /\ m \in Msg
    OBVIOUS
<1>1. /\ w \in Seq(Msg)
      /\ \A k \in 1 .. Len(w) : i + k \in i + 1 .. NextHead(f, i) - 1 /\ w[k] = f[i + k]
    BY WindowFacts, Zenon
<1>2. o \in Seq(Msg) /\ \A x \in 1 .. Len(o) : \E j \in 1 .. Len(w) : o[x] = w[j] /\ ~Answers(m, w[j])
    BY <1>0, <1>1, GatheredFacts, Zenon
<1>3. ASSUME NEW x \in 1 .. Len(o), ~Gone(o[x], K)
      PROVE  o[x].calls = <<>> /\ o[x].role # "tool"
  <2>1. PICK k \in 1 .. Len(w) : o[x] = w[k] /\ ~Answers(m, w[k])
      BY <1>2, Zenon
  <2>2. i + k \in i + 1 .. NextHead(f, i) - 1 /\ o[x] = f[i + k]
      BY <1>1, <2>1, Zenon
  <2>3. i + k \in 1 .. Len(f) /\ ~IsHead(f[i + k])
      BY <2>2, NextHeadFacts, Zenon
  <2>4. o[x].calls = <<>>
      BY <1>2, <2>2, <2>3, NotHead
  <2>5. ASSUME o[x].role = "tool" PROVE FALSE
    <3>1. o[x].for \in K
        BY <1>3, <2>5, Zenon DEF Gone
    <3>2. PICK h \in 1 .. Len(f) : \E c \in DOMAIN f[h].calls : f[h].calls[c].id = o[x].for
        BY <3>1, Zenon DEF Backed
    <3>3. o[x].for # ""
        BY <3>1, Zenon DEF Backed
    <3>4. /\ IsHead(f[h]) /\ o[x].for \in Ids(f[h])
          /\ h < i + k /\ \A g \in h + 1 .. (i + k) - 1 : ~IsHead(f[g])
        BY <2>2, <2>3, <2>5, <3>2, <3>3, InTimeFacts, Zenon
    <3>5. k \in Nat /\ i < i + k
        BY <1>1, <2>2
    <3>6. h # i
        BY <2>1, <2>2, <2>5, <3>4, Zenon DEF Answers
    <3>7. ~(h < i)
      <4> SUFFICES ASSUME h < i PROVE FALSE
          OBVIOUS
      <4>1. i \in h + 1 .. (i + k) - 1
          BY <1>0, <2>3, <3>5
      <4> QED BY <3>4, <4>1, Zenon
    <3>8. h \in i + 1 .. NextHead(f, i) - 1
        BY <1>0, <2>2, <2>3, <3>4, <3>6, <3>7, NextHeadFacts, SMTT(30)
    <3> QED BY <3>4, <3>8, NextHeadFacts, Zenon
  <2> QED BY <2>4, <2>5, Zenon
<1> HIDE DEF o
<1>4. Clean(o, K) \in Seq(Msg)
    BY <1>2, CleanIn, Zenon
<1>5. ASSUME NEW x \in 1 .. Len(Clean(o, K)) PROVE Clean(o, K)[x].calls = <<>> /\ Clean(o, K)[x].role # "tool"
  <2>1. PICK j \in 1 .. Len(o) : ~Gone(o[j], K) /\ Clean(o, K)[x] = Pruned(o[j], K)
      BY <1>2, CleanFrom, Zenon
  <2>2. o[j].calls = <<>> /\ o[j].role # "tool"
      BY <1>3, <2>1, Zenon
  <2>3. o[j] \in Msg
      BY <1>2
  <2> QED BY <2>1, <2>2, <2>3, PrunedFacts
<1>6. Paired(Clean(o, K))
    BY <1>4, <1>5, PairedPlain, Zenon
<1> QED BY <1>6 DEF o

(* What repacking makes of one message, once cleaned, is paired.             *)
LEMMA PartPaired ==
  ASSUME NEW f \in Seq(Msg), InTime(f), NEW K, Backed(f, K), NEW i \in 1 .. Len(f)
  PROVE  Part(f, i) \in Seq(Msg) /\ Paired(Clean(Part(f, i), K))
<1> DEFINE m == f[i]
           w == Window(f, i)
           g == FlattenSeq(ChosenParts(m, w))
           o == Others(m, w)
<1>0. m \in Msg /\ << m >> \in Seq(Msg) /\ <<>> \in Seq(Msg)
    OBVIOUS
<1>1. Paired(<<>>)
    BY DEF Paired
<1>2. CASE IsHead(m)
  <2>1. w \in Seq(Msg)
      BY WindowFacts, Zenon
  <2>2. /\ ChosenParts(m, w) \in Seq(Seq(Msg)) /\ o \in Seq(Msg)
        /\ Gathered(m, w) = g \o o
      BY <1>0, <2>1, GatheredFacts, Zenon
  <2>3. g \in Seq(Msg)
      BY <2>2, FlatIn, Zenon
  <2>4. Part(f, i) = << m >> \o Gathered(m, w)
      BY <1>2, Zenon DEF Part, Window
  <2>5. Match(Clean(g, K), Pruned(m, K).calls)
      BY AllChosenMatch, Zenon
  <2>6. Paired(Clean(o, K))
      BY <1>2, OthersPlain, Zenon
  <2>7. m.role = "assistant"
      BY <1>2, Zenon DEF IsHead
  <2> HIDE DEF m, w, g, o
  <2>8. Clean(<< m >>, K) = << Pruned(m, K) >> /\ Pruned(m, K) \in Msg /\ Pruned(m, K).role # "tool"
    <3>1. "tool" # "assistant"
        OBVIOUS
    <3>2. ~Gone(m, K)
        BY <2>7, <3>1, Zenon DEF Gone
    <3>3. Pruned(m, K) \in Msg /\ Pruned(m, K).role = m.role
        BY <1>0, PrunedFacts, Zenon
    <3> QED BY <1>0, <2>7, <3>1, <3>2, <3>3, CleanSmall, CleanOneFacts, Zenon
  <2>9. Clean(g, K) \in Seq(Msg) /\ Clean(o, K) \in Seq(Msg)
      BY <2>2, <2>3, CleanIn, Zenon
  <2>10. << Pruned(m, K) >> \o Clean(g, K) \in Seq(Msg) /\ Paired(<< Pruned(m, K) >> \o Clean(g, K))
      BY <2>5, <2>8, <2>9, PairedHead, Zenon
  <2>11. \A x \in Msg : x.calls \in Seq(CallType)
      BY MsgFacts, Zenon
  <2>12. Paired((<< Pruned(m, K) >> \o Clean(g, K)) \o Clean(o, K))
      BY <2>6, <2>9, <2>10, <2>11, PairedConcat
  <2>13. << m >> \o (g \o o) = (<< m >> \o g) \o o /\ << m >> \o g \in Seq(Msg) /\ (<< m >> \o g) \o o \in Seq(Msg)
      BY <1>0, <2>2, <2>3, SMTT(30)
  <2>14. Clean(<< m >> \o g, K) = Clean(<< m >>, K) \o Clean(g, K)
    <3> DEFINE z == << m >>
    <3>1. z \in Seq(Msg)
        BY <1>0
    <3> HIDE DEF z
    <3>2. Clean(z \o g, K) = Clean(z, K) \o Clean(g, K)
        BY <2>3, <3>1, CleanConcat, Zenon
    <3> QED BY <3>2 DEF z
  <2>15. Clean((<< m >> \o g) \o o, K) = Clean(<< m >> \o g, K) \o Clean(o, K)
      BY <2>2, <2>13, CleanConcat, ZenonT(60)
  <2>16. Part(f, i) = (<< m >> \o g) \o o
      BY <2>2, <2>4, <2>13
  <2>17. Clean(Part(f, i), K) = (<< Pruned(m, K) >> \o Clean(g, K)) \o Clean(o, K)
      BY <2>8, <2>14, <2>15, <2>16
  <2> QED BY <2>12, <2>13, <2>16, <2>17
<1>3. CASE ~IsHead(m) /\ \E h \in 1 .. i - 1 : IsHead(f[h])
  <2>1. Part(f, i) = <<>>
      BY <1>3, Zenon DEF Part
  <2> QED BY <1>0, <1>1, <2>1, CleanSmall, Zenon
<1>4. CASE ~IsHead(m) /\ ~(\E h \in 1 .. i - 1 : IsHead(f[h]))
  <2>1. Part(f, i) = << m >>
      BY <1>4, Zenon DEF Part
  <2>2. Clean(<< m >>, K) = CleanOne(m, K)
      BY <1>0, CleanSmall, Zenon
  <2>3. CASE Gone(m, K)
    <3>1. CleanOne(m, K) = <<>>
        BY <1>0, <2>3, CleanOneFacts, Zenon
    <3> QED BY <1>0, <1>1, <2>1, <2>2, <3>1, Zenon
  <2>4. CASE ~Gone(m, K)
    <3>1. CleanOne(m, K) = << Pruned(m, K) >>
        BY <1>0, <2>4, CleanOneFacts, Zenon
    <3>2. m.calls = <<>>
        BY <1>0, <1>4, NotHead, Zenon
    <3>3. ASSUME m.role = "tool" PROVE FALSE
      <4>1. m.for \in K
          BY <2>4, <3>3, Zenon DEF Gone
      <4>2. PICK h \in 1 .. Len(f) : \E c \in DOMAIN f[h].calls : f[h].calls[c].id = m.for
          BY <4>1, Zenon DEF Backed
      <4>3. m.for # ""
          BY <4>1, Zenon DEF Backed
      <4>4. IsHead(f[h]) /\ h < i
          BY <3>3, <4>2, <4>3, InTimeFacts, Zenon
      <4>5. h \in 1 .. i - 1
          BY <4>4
      <4> QED BY <1>4, <4>4, <4>5, Zenon
    <3>4. Pruned(m, K) \in Msg /\ Pruned(m, K).calls = <<>> /\ Pruned(m, K).role # "tool"
        BY <1>0, <3>2, <3>3, PrunedFacts, Zenon
    <3>5. << Pruned(m, K) >> \in Seq(Msg) /\ \A x \in 1 .. Len(<< Pruned(m, K) >>) : << Pruned(m, K) >>[x] = Pruned(m, K)
        BY <3>4
    <3>6. Paired(<< Pruned(m, K) >>)
        BY <3>4, <3>5, PairedPlain, Zenon
    <3> QED BY <1>0, <2>1, <2>2, <3>1, <3>6, Zenon
  <2> QED BY <2>3, <2>4
<1> QED BY <1>2, <1>3, <1>4, Zenon

(* Repack as a join of the parts of the messages.                            *)
RepackParts(f) == [i \in DOMAIN f |-> Part(f, i)]

(* What those parts are.                                                     *)
LEMMA RepackPartsIn ==
  ASSUME NEW f \in Seq(Msg), NEW S, \A i \in 1 .. Len(f) : Part(f, i) \in S
  PROVE  /\ RepackParts(f) \in Seq(S) /\ Len(RepackParts(f)) = Len(f)
         /\ \A i \in 1 .. Len(f) : RepackParts(f)[i] = Part(f, i)
<1>1. Len(f) \in Nat /\ DOMAIN f = 1 .. Len(f)
    BY SeqFacts, Zenon
<1>2. RepackParts(f) = [i \in 1 .. Len(f) |-> Part(f, i)]
    BY <1>1, Zenon DEF RepackParts
<1>3. RepackParts(f) \in [1 .. Len(f) -> S]
    BY <1>2, Zenon
<1>4. RepackParts(f) \in Seq(S) /\ Len(RepackParts(f)) = Len(f)
    BY <1>1, <1>3
<1> QED BY <1>2, <1>4, Zenon

(* The join of all the parts, once cleaned, is paired.                       *)
LEMMA PartsPaired ==
  ASSUME NEW f \in Seq(Msg), InTime(f), NEW K, Backed(f, K)
  PROVE  Paired(Clean(FlattenSeq(RepackParts(f)), K))
<1> DEFINE T == {q \in Seq(Msg) : Paired(Clean(q, K))}
<1>1. <<>> \in T
  <2>1. Paired(<<>>) /\ <<>> \in Seq(Msg)
      BY DEF Paired
  <2> QED BY <2>1, CleanSmall, Zenon
<1>2. ASSUME NEW a \in T, NEW b \in T PROVE a \o b \in T
  <2>1. a \in Seq(Msg) /\ b \in Seq(Msg) /\ Paired(Clean(a, K)) /\ Paired(Clean(b, K))
      BY Zenon
  <2>2. Clean(a \o b, K) = Clean(a, K) \o Clean(b, K)
      BY <2>1, CleanConcat, ZenonT(60)
  <2>3. Clean(a, K) \in Seq(Msg) /\ Clean(b, K) \in Seq(Msg)
      BY <2>1, CleanIn, Zenon
  <2>4. \A x \in Msg : x.calls \in Seq(CallType)
      BY MsgFacts, Zenon
  <2>5. Paired(Clean(a, K) \o Clean(b, K))
      BY <2>1, <2>3, <2>4, PairedConcat
  <2>6. a \o b \in Seq(Msg)
      BY <2>1
  <2> QED BY <2>2, <2>5, <2>6, Zenon
<1>3. \A i \in 1 .. Len(f) : Part(f, i) \in T
    BY PartPaired, Zenon
<1>4. T \subseteq Seq(Msg)
    BY Zenon
<1> HIDE DEF T
<1>5. RepackParts(f) \in Seq(T)
    BY <1>3, RepackPartsIn, Zenon
<1>6. FlattenSeq(RepackParts(f)) \in T
    BY <1>1, <1>2, <1>4, <1>5, FlatClosed, Zenon
<1> QED BY <1>6 DEF T

(* The messages of f.                                                        *)
Of(f) == {f[i] : i \in 1 .. Len(f)}

(* Repacking one message moves messages of the history and makes none.       *)
LEMMA PartFrom ==
  ASSUME NEW f \in Seq(Msg), NEW i \in 1 .. Len(f)
  PROVE  Part(f, i) \in Seq(Of(f))
<1> DEFINE m == f[i]
           w == Window(f, i)
           S == Of(f)
<1>0. m \in Msg /\ Len(f) \in Nat
    OBVIOUS
<1>1. m \in S
    BY Zenon DEF Of
<1> HIDE DEF S
<1>2. << m >> \in Seq(S) /\ <<>> \in Seq(S)
    BY <1>1
<1>3. w \in Seq(Msg) /\ \A k \in 1 .. Len(w) : i + k \in i + 1 .. NextHead(f, i) - 1 /\ w[k] = f[i + k]
    BY WindowFacts, Zenon
<1>4. \A k \in 1 .. Len(w) : w[k] \in S
    BY <1>3, NextHeadFacts, Zenon DEF S, Of
<1>5. /\ ChosenParts(m, w) \in Seq(Seq(Msg)) /\ Len(ChosenParts(m, w)) = Len(m.calls)
      /\ \A k \in 1 .. Len(m.calls) : ChosenParts(m, w)[k] = Chosen(m, w, k)
      /\ Others(m, w) \in Seq(Msg)
      /\ \A x \in 1 .. Len(Others(m, w)) : \E j \in 1 .. Len(w) : Others(m, w)[x] = w[j]
      /\ Gathered(m, w) = FlattenSeq(ChosenParts(m, w)) \o Others(m, w)
    BY <1>0, <1>3, GatheredFacts, Zenon
<1>6. \A k \in 1 .. Len(m.calls) : Chosen(m, w, k) \in Seq(S)
  <2> SUFFICES ASSUME NEW k \in 1 .. Len(m.calls) PROVE Chosen(m, w, k) \in Seq(S)
      OBVIOUS
  <2>1. Chosen(m, w, k) = <<>> \/ \E j \in 1 .. Len(w) : Chosen(m, w, k) = << w[j] >>
    <3>1. \/ Chosen(m, w, k) = <<>>
          \/ \E j \in 1 .. Len(w) : Chosen(m, w, k) = << w[j] >> /\ Answers(m, w[j]) /\ w[j].for = m.calls[k].id
        BY <1>3, ChosenFacts, Zenon
    <3> QED BY <3>1, Zenon
  <2>2. \A z \in S : << z >> \in Seq(S)
      OBVIOUS
  <2> QED BY <1>2, <1>4, <2>1, <2>2, Zenon
<1> DEFINE p == ChosenParts(m, w)
           o == Others(m, w)
<1>7. p \in Seq(Seq(Msg)) /\ \A k \in 1 .. Len(p) : p[k] \in Seq(S)
    BY <1>5, <1>6, Zenon
<1>8. o \in Seq(Msg) /\ \A x \in 1 .. Len(o) : o[x] \in S
    BY <1>4, <1>5, Zenon
<1> HIDE DEF p, o
<1>9. \A X, Y : \A s \in Seq(X) : (\A k \in 1 .. Len(s) : s[k] \in Y) => s \in Seq(Y)
  <2> SUFFICES ASSUME NEW X, NEW Y, NEW s \in Seq(X), \A k \in 1 .. Len(s) : s[k] \in Y PROVE s \in Seq(Y)
      OBVIOUS
  <2>1. Len(s) \in Nat /\ s = [k \in 1 .. Len(s) |-> s[k]]
      OBVIOUS
  <2>2. s \in [1 .. Len(s) -> Y]
      BY <2>1, Zenon
  <2> QED BY <2>1, <2>2
<1>10. p \in Seq(Seq(S)) /\ o \in Seq(S)
    BY <1>7, <1>8, <1>9, Zenon
<1>11. FlattenSeq(p) \in Seq(S)
    BY <1>10, FlatIn, Zenon
<1>12. << m >> \o (FlattenSeq(p) \o o) \in Seq(S)
    BY <1>2, <1>10, <1>11
<1>13. CASE IsHead(m)
  <2>1. Part(f, i) = << m >> \o Gathered(m, w)
      BY <1>13, Zenon DEF Part, Window
  <2>2. Gathered(m, w) = FlattenSeq(p) \o o
      BY <1>5, Zenon DEF p, o
  <2> QED BY <1>12, <2>1, <2>2, Zenon DEF S
<1>14. CASE ~IsHead(m)
  <2>1. Part(f, i) = <<>> \/ Part(f, i) = << m >>
      BY <1>14, Zenon DEF Part
  <2> QED BY <1>2, <2>1, Zenon DEF S
<1> QED BY <1>13, <1>14

(* Nor does repacking all of them.                                           *)
LEMMA PartsFrom ==
  ASSUME NEW f \in Seq(Msg)
  PROVE  /\ RepackParts(f) \in Seq(Seq(Msg)) /\ RepackParts(f) \in Seq(Seq(Of(f)))
         /\ FlattenSeq(RepackParts(f)) \in Seq(Msg) /\ FlattenSeq(RepackParts(f)) \in Seq(Of(f))
<1>1. \A i \in 1 .. Len(f) : Part(f, i) \in Seq(Of(f))
    BY PartFrom, Zenon
<1>2. Of(f) \subseteq Msg
    BY DEF Of
<1>3. \A i \in 1 .. Len(f) : Part(f, i) \in Seq(Msg)
    BY <1>1, <1>2, SeqMonotonic, Zenon
<1>4. RepackParts(f) \in Seq(Seq(Msg)) /\ RepackParts(f) \in Seq(Seq(Of(f)))
    BY <1>1, <1>3, RepackPartsIn, Zenon
<1> QED BY <1>4, FlatIn, Zenon

(* The ids kept of a repacked history have a call and a result in the        *)
(* history before.                                                           *)
LEMMA KeptBacked ==
  ASSUME NEW f \in Seq(Msg), NEW r \in Seq(Msg), r \in Seq(Of(f))
  PROVE  Backed(f, Kept(r))
<1>1. \A i \in 1 .. Len(r) : \E j \in 1 .. Len(f) : r[i] = f[j]
  <2>1. \A i \in 1 .. Len(r) : r[i] \in Of(f)
      OBVIOUS
  <2> QED BY <2>1, Zenon DEF Of
<1>2. ASSUME NEW x \in Kept(r)
      PROVE  /\ x # ""
             /\ \E i \in 1 .. Len(f) : f[i].role = "tool" /\ f[i].for = x
             /\ \E h \in 1 .. Len(f) : \E k \in DOMAIN f[h].calls : f[h].calls[k].id = x
  <2>1. /\ x # ""
        /\ \E i \in 1 .. Len(r) : r[i].role = "tool" /\ r[i].for = x
        /\ \E h \in 1 .. Len(r) : \E k \in DOMAIN r[h].calls : r[h].calls[k].id = x
      BY KeptFacts, Zenon
  <2>2. \E i \in 1 .. Len(f) : f[i].role = "tool" /\ f[i].for = x
    <3>1. PICK i \in 1 .. Len(r) : r[i].role = "tool" /\ r[i].for = x
        BY <2>1
    <3>2. PICK j \in 1 .. Len(f) : r[i] = f[j]
        BY <1>1
    <3> QED BY <3>1, <3>2, Zenon
  <2>3. \E h \in 1 .. Len(f) : \E k \in DOMAIN f[h].calls : f[h].calls[k].id = x
    <3>1. PICK i \in 1 .. Len(r) : \E k \in DOMAIN r[i].calls : r[i].calls[k].id = x
        BY <2>1
    <3>2. PICK j \in 1 .. Len(f) : r[i] = f[j]
        BY <1>1
    <3> QED BY <3>1, <3>2, Zenon
  <2> QED BY <2>1, <2>2, <2>3
<1> QED BY <1>2, Zenon DEF Backed

(* A cleaned history none of whose results is kept has no call left either.  *)
LEMMA NoResults ==
  ASSUME NEW f \in Seq(Msg), NEW K, Backed(f, K), \A i \in 1 .. Len(f) : f[i].role = "tool" => f[i].for \notin K
  PROVE  Paired(Clean(f, K))
<1>1. \A x : x \notin K
    BY Zenon DEF Backed
<1>2. Clean(f, K) \in Seq(Msg)
    BY CleanIn, Zenon
<1>3. ASSUME NEW x \in 1 .. Len(Clean(f, K)) PROVE Clean(f, K)[x].calls = <<>> /\ Clean(f, K)[x].role # "tool"
  <2>1. PICK i \in 1 .. Len(f) : ~Gone(f[i], K) /\ Clean(f, K)[x] = Pruned(f[i], K)
      BY CleanFrom, Zenon
  <2>2. f[i] \in Msg
      OBVIOUS
  <2>3. f[i].role # "tool"
      BY <2>1, Zenon DEF Gone
  <2>4. Those(f[i].calls, Ours(f[i], K)) = <<>>
    <3>1. f[i].calls \in Seq(CallType) /\ \A k \in 1 .. Len(f[i].calls) : k \notin Ours(f[i], K)
        BY <1>1, <2>2, MsgFacts, Zenon DEF Ours
    <3> QED BY <3>1, ThoseNone, Zenon
  <2>5. Pruned(f[i], K).role = f[i].role /\ Pruned(f[i], K).calls = Those(f[i].calls, Ours(f[i], K))
      BY <2>2, PrunedFacts, Zenon
  <2> QED BY <2>1, <2>3, <2>4, <2>5, Zenon
<1> QED BY <1>2, <1>3, PairedPlain, Zenon

(* In a history that is in time two calls of one message differ in their     *)
(* ids.                                                                      *)
LEMMA CallSame ==
  ASSUME NEW f \in Seq(Msg), InTime(f), NEW i \in 1 .. Len(f), NEW k \in DOMAIN f[i].calls,
         NEW j \in DOMAIN f[i].calls, f[i].calls[k].id = f[i].calls[j].id
  PROVE  k = j
<1>1. \A x, y \in DOMAIN f[i].calls : f[i].calls[x].id = f[i].calls[y].id => x = y
    BY InTimeFacts, ZenonT(60)
<1> QED BY <1>1, Zenon

(* A history of two messages.                                                *)
LEMMA PairSeq ==
  ASSUME NEW f \in Seq(Msg), Len(f) = 2
  PROVE  f = << f[1] >> \o << f[2] >> /\ << f[1] >> \in Seq(Msg) /\ << f[2] >> \in Seq(Msg)
<1> DEFINE x == << f[1] >>
           y == << f[2] >>
<1>1. x \in Seq(Msg) /\ y \in Seq(Msg) /\ Len(x) = 1 /\ Len(y) = 1 /\ x[1] = f[1] /\ y[1] = f[2] /\ 1 \in 1 .. 1
  <2>1. f[1] \in Msg /\ f[2] \in Msg
    <3>1. 1 \in 1 .. Len(f) /\ 2 \in 1 .. Len(f)
        OBVIOUS
    <3>2. \A i \in 1 .. Len(f) : f[i] \in Msg
        BY SMTT(30)
    <3> QED BY <3>1, <3>2
  <2> QED BY <2>1
<1>2. /\ x \o y \in Seq(Msg) /\ Len(x) \in Nat /\ Len(y) \in Nat /\ Len(x \o y) = Len(x) + Len(y)
      /\ \A i \in 1 .. Len(x) : (x \o y)[i] = x[i]
      /\ \A i \in 1 .. Len(y) : (x \o y)[Len(x) + i] = y[i]
    BY <1>1, ConcatFacts
<1> HIDE DEF x, y
<1>3. (x \o y)[1] = f[1] /\ (x \o y)[2] = f[2] /\ Len(x \o y) = 2
    BY <1>1, <1>2
<1>4. \A i \in 1 .. Len(f) : f[i] = (x \o y)[i]
    BY <1>3
<1>5. f = x \o y
    BY <1>2, <1>3, <1>4, SeqEqual, Zenon
<1> QED BY <1>1, <1>5 DEF x, y

(* Picking one place gives its member.                                       *)
LEMMA OnlyOne ==
  ASSUME NEW S, NEW s \in Seq(S), NEW O, NEW k \in O, k \in 1 .. Len(s), \A x \in O : x = k
  PROVE  Len(Those(s, O)) = 1 /\ Those(s, O)[1] = s[k]
<1> DEFINE t == Those(s, O)
           n == Len(s)
<1>0. /\ t \in Seq(S)
      /\ \E g \in [1 .. Len(t) -> 1 .. n] :
              /\ \A x \in 1 .. Len(t) : g[x] \in O /\ t[x] = s[g[x]]
              /\ \A x \in 1 .. Len(t), y \in 1 .. Len(t) : x < y => g[x] < g[y]
              /\ \A y \in 1 .. n : y \in O => \E x \in 1 .. Len(t) : g[x] = y
    BY ThosePlaces
<1> HIDE DEF t, n
<1>1. PICK g \in [1 .. Len(t) -> 1 .. n] :
              /\ \A x \in 1 .. Len(t) : g[x] \in O /\ t[x] = s[g[x]]
              /\ \A x \in 1 .. Len(t), y \in 1 .. Len(t) : x < y => g[x] < g[y]
              /\ \A y \in 1 .. n : y \in O => \E x \in 1 .. Len(t) : g[x] = y
    BY <1>0
<1>2. t \in Seq(S) /\ Len(t) \in Nat
    BY <1>0
<1>3. k \in Nat /\ k \in 1 .. n
    BY DEF n
<1>4. \A x \in 1 .. Len(t) : g[x] = k
    BY <1>1, Zenon
<1>5. PICK x \in 1 .. Len(t) : g[x] = k
    BY <1>1, <1>3, Zenon
<1>6. ~(Len(t) >= 2)
  <2> SUFFICES ASSUME Len(t) >= 2 PROVE FALSE
      OBVIOUS
  <2>1. 1 \in 1 .. Len(t) /\ 2 \in 1 .. Len(t) /\ 1 < 2
      BY <1>2
  <2>2. g[1] < g[2] /\ g[1] = k /\ g[2] = k
      BY <1>1, <1>4, <2>1, Zenon
  <2>3. k < k
      BY <2>2, Zenon
  <2> QED BY <1>3, <2>3
<1>7. Len(t) = 1 /\ 1 \in 1 .. Len(t)
  <2>1. \A z \in Nat : \A y \in 1 .. z : ~(z >= 2) => z = 1 /\ 1 \in 1 .. z
      OBVIOUS
  <2> QED BY <1>2, <1>5, <1>6, <2>1, Zenon
<1>8. Len(t) = 1 /\ t[1] = s[k]
    BY <1>1, <1>4, <1>7, Zenon
<1> QED BY <1>8, Zenon DEF t

(* Picking one call of a message gives that call.                            *)
LEMMA OneCall ==
  ASSUME NEW m \in Msg, NEW O, NEW k \in O, k \in 1 .. Len(m.calls), \A x \in O : x = k
  PROVE  Len(Those(m.calls, O)) = 1 /\ Those(m.calls, O)[1] = m.calls[k]
<1>1. m.calls \in Seq(CallType)
    BY MsgFacts, Zenon
<1> QED BY <1>1, OnlyOne, Zenon

(* A history of two messages whose second is a result that is kept.          *)
Second(f, K) == Len(f) = 2 /\ f[2].role = "tool" /\ f[2].for \in K

(* Repacking leaves a history of two messages alone (tool_repair.py); what  *)
(* cleaning makes of it is paired all the same.                              *)
LEMMA TwoMessages ==
  ASSUME NEW f \in Seq(Msg), InTime(f), NEW K, Backed(f, K), Second(f, K)
  PROVE  Paired(Clean(f, K))
<1> DEFINE a == f[1]
           b == f[2]
           t == Those(a.calls, Ours(a, K))
<1>a. Len(f) = 2
    BY DEF Second
<1>b. b.role = "tool" /\ b.for \in K
    BY DEF Second
<1>0. a \in Msg /\ b \in Msg /\ f = << a >> \o << b >> /\ << a >> \in Seq(Msg) /\ << b >> \in Seq(Msg)
  <2>1. 1 \in 1 .. Len(f) /\ 2 \in 1 .. Len(f)
      BY <1>a
  <2>2. a \in Msg /\ b \in Msg
      BY <2>1
  <2> QED BY <1>a, <2>2, PairSeq, Zenon
<1>1. PICK h \in 1 .. Len(f) : \E k \in DOMAIN f[h].calls : f[h].calls[k].id = b.for
    BY <1>b, Zenon DEF Backed
<1>2. b.for # ""
    BY <1>b, Zenon DEF Backed
<1>3. 1 \in 1 .. Len(f) /\ 2 \in 1 .. Len(f) /\ \A j \in 1 .. Len(f) : j = 1 \/ j = 2
    BY <1>a
<1>4. IsHead(f[h]) /\ h < 2
    BY <1>1, <1>2, <1>3, <1>b, InTimeFacts, Zenon
<1>5. h = 1
    BY <1>4
<1>6. PICK k \in DOMAIN a.calls : a.calls[k].id = b.for
    BY <1>1, <1>5
<1>7. a.role = "assistant" /\ a.role # "tool"
    BY <1>4, <1>5 DEF IsHead
<1>8. ASSUME NEW x \in Ours(a, K) PROVE x = k
  <2>1. x \in DOMAIN a.calls /\ a.calls[x].id \in K
      BY Zenon DEF Ours
  <2>2. PICK j \in 1 .. Len(f) : f[j].role = "tool" /\ f[j].for = a.calls[x].id
      BY <2>1, Zenon DEF Backed
  <2>3. j = 2
      BY <1>3, <1>7, <2>2, Zenon
  <2>4. a.calls[x].id = a.calls[k].id
      BY <1>6, <2>2, <2>3, Zenon
  <2>5. 1 \in 1 .. Len(f)
      BY <1>3
  <2>6. x \in DOMAIN f[1].calls /\ k \in DOMAIN f[1].calls /\ f[1].calls[x].id = f[1].calls[k].id
      BY <2>1, <2>4
  <2> QED BY <2>5, <2>6, CallSame, Zenon
<1>9. k \in Ours(a, K)
    BY <1>6, <1>b, Zenon DEF Ours
<1>10. a.calls \in Seq(CallType) /\ DOMAIN a.calls = 1 .. Len(a.calls) /\ Len(a.calls) \in Nat
    BY <1>0, MsgFacts, Zenon
<1>11. Len(t) = 1 /\ t[1] = a.calls[k]
  <2> DEFINE O == Ours(a, K)
  <2>1. a \in Msg /\ k \in O /\ k \in 1 .. Len(a.calls) /\ \A x \in O : x = k
      BY <1>0, <1>8, <1>9, <1>10, Zenon
  <2> HIDE DEF O, a, b, t
  <2>2. Len(Those(a.calls, O)) = 1 /\ Those(a.calls, O)[1] = a.calls[k]
      BY <2>1, OneCall, Zenon
  <2> QED BY <2>2, Zenon DEF O, t
<1>12. Pruned(a, K).calls = t
    BY <1>0, PrunedFacts, Zenon
<1>13. Len(t) = 1 /\ t[1].id = b.for
    BY <1>6, <1>11, Zenon
<1>14. Clean(f, K) = << Pruned(a, K) >> \o << Pruned(b, K) >>
  <2>1. Clean(f, K) = Clean(<< a >>, K) \o Clean(<< b >>, K)
    <3> DEFINE x == << a >>
               y == << b >>
    <3>1. x \in Seq(Msg) /\ y \in Seq(Msg) /\ f = x \o y
        BY <1>0, Zenon
    <3> HIDE DEF x, y
    <3>2. Clean(x \o y, K) = Clean(x, K) \o Clean(y, K)
      <4>1. x \in Seq(Msg) /\ y \in Seq(Msg)
          BY <3>1
      <4> QED BY <4>1, CleanConcat, ZenonT(60)
    <3> QED BY <3>1, <3>2 DEF x, y
  <2>2. ~Gone(a, K) /\ ~Gone(b, K)
      BY <1>7, <1>b, Zenon DEF Gone
  <2>3. Clean(<< a >>, K) = << Pruned(a, K) >> /\ Clean(<< b >>, K) = << Pruned(b, K) >>
      BY <1>0, <2>2, CleanSmall, CleanOneFacts, Zenon
  <2> QED BY <2>1, <2>3, Zenon
<1>15. /\ Pruned(a, K) \in Msg /\ Pruned(a, K).role # "tool"
       /\ Pruned(b, K) \in Msg /\ Pruned(b, K).role = "tool" /\ Pruned(b, K).for = b.for
    BY <1>0, <1>7, <1>b, PrunedFacts, Zenon
<1> HIDE DEF a, b, t
<1>16. Match(<< Pruned(b, K) >>, t)
    BY <1>13, <1>15 DEF Match
<1>17. << Pruned(b, K) >> \in Seq(Msg)
    BY <1>15
<1> QED BY <1>12, <1>14, <1>15, <1>16, <1>17, PairedHead, Zenon

(* A history that is in time is paired once it is repacked and cleaned.      *)
LEMMA RepackPaired ==
  ASSUME NEW f \in Seq(Msg), InTime(f)
  PROVE  Repack(f) \in Seq(Msg) /\ Paired(Cleanup(Repack(f)))
<1>1. CASE Len(f) < 3
  <2>1. Repack(f) = f
      BY <1>1, Zenon DEF Repack
  <2>2. f \in Seq(Of(f))
    <3>1. f = [i \in 1 .. Len(f) |-> f[i]] /\ Len(f) \in Nat
        OBVIOUS
    <3>2. f \in [1 .. Len(f) -> Of(f)]
        BY <3>1, Zenon DEF Of
    <3> QED BY <3>1, <3>2
  <2> DEFINE K == Kept(f)
  <2>3. Backed(f, K)
      BY <2>2, KeptBacked, Zenon
  <2> HIDE DEF K
  <2>4. CASE \A i \in 1 .. Len(f) : f[i].role = "tool" => f[i].for \notin K
      BY <2>1, <2>3, <2>4, NoResults, Zenon DEF Cleanup, K
  <2>5. CASE \E i \in 1 .. Len(f) : f[i].role = "tool" /\ f[i].for \in K
    <3>1. PICK i \in 1 .. Len(f) : f[i].role = "tool" /\ f[i].for \in K
        BY <2>5
    <3>2. PICK h \in 1 .. Len(f) : \E k \in DOMAIN f[h].calls : f[h].calls[k].id = f[i].for
        BY <2>3, <3>1, Zenon DEF Backed
    <3>3. f[i].for # ""
        BY <2>3, <3>1, Zenon DEF Backed
    <3>4. h < i
        BY <3>1, <3>2, <3>3, InTimeFacts, Zenon
    <3>5. Len(f) \in Nat
        BY SeqFacts, Zenon
    <3>6. i = 2 /\ Len(f) = 2
      <4>1. \A n \in Nat : \A x, y \in 1 .. n : (n < 3 /\ x < y) => y = 2 /\ n = 2
          OBVIOUS
      <4> QED BY <1>1, <3>4, <3>5, <4>1, Zenon
    <3>7. Paired(Clean(f, K))
      <4>1. Second(f, K)
          BY <3>1, <3>6, Zenon DEF Second
      <4> QED BY <2>3, <4>1, TwoMessages, Zenon
    <3> QED BY <2>1, <3>7, Zenon DEF Cleanup, K
  <2> QED BY <2>4, <2>5, Zenon
<1>2. CASE ~(Len(f) < 3)
  <2> DEFINE r == FlattenSeq(RepackParts(f))
  <2>1. Repack(f) = r
      BY <1>2, Zenon DEF Repack, RepackParts
  <2>2. r \in Seq(Msg) /\ r \in Seq(Of(f))
      BY PartsFrom, Zenon
  <2>3. Backed(f, Kept(r))
      BY <2>2, KeptBacked, Zenon
  <2>4. Paired(Clean(r, Kept(r)))
      BY <2>3, PartsPaired, Zenon
  <2> QED BY <2>1, <2>2, <2>4, Zenon DEF Cleanup
<1> QED BY <1>1, <1>2

-------------------------------------------------------------------------------
(* Filling: stubs for the calls without a result                             *)

(* A record with the fields of a message is one.                             *)
LEMMA MessageType ==
  ASSUME NEW r \in {"user", "assistant", "tool", "system"}, NEW b \in BOOLEAN, NEW t \in Seq(Int), NEW k \in Seq(Int),
         NEW c \in Seq(CallType), NEW f \in Word
  PROVE  [role |-> r, text |-> t, img |-> b, think |-> k, calls |-> c, for |-> f] \in MsgType
  BY DEF MsgType

(* A fresh message.                                                          *)
LEMMA MessageFacts ==
  ASSUME NEW r \in {"user", "assistant", "tool", "system"}
  PROVE  Message(r) \in Msg /\ Message(r).role = r /\ Message(r).calls = <<>>
<1>1. FALSE \in BOOLEAN /\ "" \in Word
  <2>1. FALSE \in BOOLEAN
      BY Zenon
  <2>2. "" \in Word
      BY DEF Word
  <2> QED BY <2>1, <2>2
<1>2. <<>> \in Seq(Int) /\ <<>> \in Seq(CallType)
    OBVIOUS
<1>3. Message(r) \in MsgType
    BY <1>1, <1>2, MessageType, Zenon DEF Message
<1>4. Message(r).role = r /\ Message(r).calls = <<>>
    BY Zenon DEF Message
<1> QED BY <1>3, <1>4, Zenon DEF Msg

(* A message given its text and the id it answers.                           *)
LEMMA MsgUpdate ==
  ASSUME NEW r \in MsgType, NEW u \in Seq(Int), NEW id \in Word
  PROVE  /\ [r EXCEPT !.text = u, !.for = id] \in MsgType
         /\ [r EXCEPT !.text = u, !.for = id].role = r.role
         /\ [r EXCEPT !.text = u, !.for = id].calls = r.calls
         /\ [r EXCEPT !.text = u, !.for = id].for = id
  BY DEF MsgType

(* A stub is a result of its id.                                             *)
LEMMA StubFacts ==
  ASSUME NEW id \in Word
  PROVE  Stub(id) \in Msg /\ Stub(id).role = "tool" /\ Stub(id).calls = <<>> /\ Stub(id).for = id
<1>1. << Placeholder >> \in Seq(Int)
    BY DEF Placeholder
<1>2. Message("tool") \in Msg /\ Message("tool").role = "tool" /\ Message("tool").calls = <<>>
  <2>1. "tool" \in {"user", "assistant", "tool", "system"}
      OBVIOUS
  <2> QED BY <2>1, MessageFacts, Zenon
<1> DEFINE r == Message("tool")
           u == << Placeholder >>
<1>3. Stub(id) = [r EXCEPT !.text = u, !.for = id]
    BY Zenon DEF Stub
<1>4. r \in MsgType /\ u \in Seq(Int)
    BY <1>1, <1>2, Zenon DEF Msg
<1> HIDE DEF u, r
<1>5. /\ Stub(id) \in MsgType
      /\ Stub(id).role = r.role /\ Stub(id).calls = r.calls /\ Stub(id).for = id
  <2>1. /\ [r EXCEPT !.text = u, !.for = id] \in MsgType
        /\ [r EXCEPT !.text = u, !.for = id].role = r.role
        /\ [r EXCEPT !.text = u, !.for = id].calls = r.calls
        /\ [r EXCEPT !.text = u, !.for = id].for = id
      BY <1>4, MsgUpdate
  <2> HIDE DEF MsgType
  <2> QED BY <1>3, <2>1
<1>6. Stub(id).role = "tool" /\ Stub(id).calls = <<>>
    BY <1>2, <1>5, Zenon DEF r
<1> QED BY <1>5, <1>6, Zenon DEF Msg

(* A stub: a result made up for a call of m that none of have answers. *)
StubOf(m, have, s) ==
  /\ s \in Msg /\ s.role = "tool" /\ s.calls = <<>> /\ s.for # "" /\ s.for \notin have
  /\ \E k \in DOMAIN m.calls : m.calls[k].id = s.for

(* The stubs made for a head are for its calls that have no result.          *)
LEMMA MissingFacts ==
  ASSUME NEW m \in Msg, NEW have
  PROVE  /\ Missing(m, have) \in Seq(Msg)
         /\ \A x \in 1 .. Len(Missing(m, have)) : StubOf(m, have, Missing(m, have)[x])
<1> DEFINE K == {k \in DOMAIN m.calls : m.calls[k].id \notin have \cup {""}}
           t == Those(m.calls, K)
           q == Missing(m, have)
<1>1. m.calls \in Seq(CallType)
    BY MsgFacts, Zenon
<1>2. /\ t \in Seq(CallType)
      /\ \E g \in [1 .. Len(t) -> 1 .. Len(m.calls)] :
              \A x \in 1 .. Len(t) : g[x] \in K /\ t[x] = m.calls[g[x]]
  <2> DEFINE s == m.calls
  <2>1. s \in Seq(CallType)
      BY <1>1
  <2> HIDE DEF s, K
  <2>2. /\ Those(s, K) \in Seq(CallType)
        /\ \E g \in [1 .. Len(Those(s, K)) -> 1 .. Len(s)] :
              \A x \in 1 .. Len(Those(s, K)) : g[x] \in K /\ Those(s, K)[x] = s[g[x]]
      BY <2>1, ThosePlaces, SMTT(30)
  <2> QED BY <2>2, Zenon DEF s
<1>3. q = [x \in DOMAIN t |-> Stub(t[x].id)]
    BY Zenon DEF Missing
<1>4. PICK g \in [1 .. Len(t) -> 1 .. Len(m.calls)] : \A x \in 1 .. Len(t) : g[x] \in K /\ t[x] = m.calls[g[x]]
    BY <1>2, Zenon
<1>5. DOMAIN t = 1 .. Len(t) /\ Len(t) \in Nat
    BY <1>2, SeqFacts, Zenon
<1>6. ASSUME NEW x \in 1 .. Len(t) PROVE StubOf(m, have, Stub(t[x].id))
  <2>1. g[x] \in DOMAIN m.calls /\ m.calls[g[x]].id \notin have /\ m.calls[g[x]].id # "" /\ t[x].id = m.calls[g[x]].id
      BY <1>4, Zenon
  <2>2. t[x].id \in Word
      BY <2>1, MsgFacts, Zenon
  <2> HIDE DEF t, K, q
  <2>3. Stub(t[x].id) \in Msg /\ Stub(t[x].id).role = "tool" /\ Stub(t[x].id).calls = <<>> /\ Stub(t[x].id).for = t[x].id
      BY <2>2, StubFacts, Zenon
  <2> QED BY <2>1, <2>3, Zenon DEF StubOf
<1> HIDE DEF t, K, q
<1>7. \A x \in 1 .. Len(t) : Stub(t[x].id) \in Msg
    BY <1>6, Zenon DEF StubOf
<1>8. q = [x \in 1 .. Len(t) |-> Stub(t[x].id)]
    BY <1>3, <1>5, Zenon
<1>9. q \in Seq(Msg) /\ Len(q) = Len(t)
  <2>1. \A x \in 1 .. Len(t) : q[x] = Stub(t[x].id)
      BY <1>8, Zenon
  <2> QED BY <1>5, <1>7, <1>8
<1>10. \A x \in 1 .. Len(q) : StubOf(m, have, q[x])
    BY <1>6, <1>8, <1>9, Zenon
<1> QED BY <1>9, <1>10 DEF q

(* Stubs go behind the run of results that follows the head.                 *)
LEMMA RunEndFacts ==
  ASSUME NEW f \in Seq(Msg), NEW h \in 1 .. Len(f)
  PROVE  RunEnd(f, h) \in h .. Len(f) /\ InRun(f, h, RunEnd(f, h))
<1> DEFINE n == Len(f)
           Good(e) == InRun(f, h, e) /\ (e = n \/ ~InRun(f, h, e + 1))
           T == {d \in Nat : h + d <= n => InRun(f, h, h + d)}
<1>1. n \in Nat /\ h \in Nat /\ h <= n
    OBVIOUS
<1>2. SUFFICES ASSUME \A e \in h .. n : ~Good(e) PROVE FALSE
    BY Zenon DEF RunEnd
<1> HIDE DEF n
<1>3. 0 \in T
  <2>1. h + 1 .. h + 0 = {}
      BY <1>1
  <2> QED BY <2>1, Zenon DEF InRun
<1>4. ASSUME NEW d \in Nat, d \in T PROVE d + 1 \in T
  <2> SUFFICES ASSUME h + (d + 1) <= n PROVE InRun(f, h, h + (d + 1))
      OBVIOUS
  <2>1. h + d \in h .. n /\ h + d # n /\ h + (d + 1) = (h + d) + 1 /\ h + d <= n
      BY <1>1
  <2>2. InRun(f, h, h + d)
      BY <1>4, <2>1
  <2> QED BY <1>2, <2>1, <2>2, Zenon
<1> HIDE DEF T
<1>5. \A d \in Nat : d \in T
    BY <1>3, <1>4, SetInduction, Zenon
<1>6. n - h \in Nat /\ h + (n - h) = n /\ h + (n - h) <= n /\ n \in h .. n
    BY <1>1
<1>7. n - h \in T
    BY <1>5, <1>6
<1>8. InRun(f, h, n)
  <2>1. InRun(f, h, h + (n - h))
      BY <1>6, <1>7 DEF T
  <2> QED BY <1>6, <2>1
<1> QED BY <1>2, <1>6, <1>8, Zenon

(* Fill as a join: every message, and the stubs behind it.                   *)
FillParts(f) == [i \in DOMAIN f |-> << f[i] >> \o Behind(f, i, ResultIds(f))]

(* The stubs behind i are for the calls of a head whose run ends at i. *)
StubAt(f, i, s) == \E h \in 1 .. Len(f) : IsHead(f[h]) /\ RunEnd(f, h) = i /\ StubOf(f[h], ResultIds(f), s)

(* What goes behind a message is stubs of a run that ends there.             *)
LEMMA BehindFacts ==
  ASSUME NEW f \in Seq(Msg), NEW i \in 1 .. Len(f)
  PROVE  /\ Behind(f, i, ResultIds(f)) \in Seq(Msg)
         /\ \A x \in 1 .. Len(Behind(f, i, ResultIds(f))) : StubAt(f, i, Behind(f, i, ResultIds(f))[x])
<1> DEFINE have == ResultIds(f)
           heads == {h \in DOMAIN f : IsHead(f[h]) /\ RunEnd(f, h) = i}
           b == Behind(f, i, have)
<1>1. CASE heads = {}
  <2>1. b = <<>>
      BY <1>1, Zenon DEF Behind
  <2> HIDE DEF b
  <2>2. b \in Seq(Msg) /\ 1 .. Len(b) = {}
      BY <2>1
  <2> QED BY <2>2, Zenon DEF b
<1>2. CASE heads # {}
  <2> DEFINE h == CHOOSE x \in heads : TRUE
  <2>1. h \in heads
      BY <1>2, Zenon
  <2>2. h \in 1 .. Len(f) /\ IsHead(f[h]) /\ RunEnd(f, h) = i
      BY <2>1
  <2>3. b = Missing(f[h], have)
      BY <1>2, Zenon DEF Behind
  <2> HIDE DEF h, b, have, heads
  <2>4. f[h] \in Msg
      BY <2>2
  <2>5. b \in Seq(Msg) /\ \A x \in 1 .. Len(b) : StubOf(f[h], have, b[x])
      BY <2>3, <2>4, MissingFacts, Zenon
  <2>6. \A x \in 1 .. Len(b) : StubAt(f, i, b[x])
      BY <2>2, <2>5, Zenon DEF StubAt, have
  <2> QED BY <2>5, <2>6, Zenon DEF b, have
<1> QED BY <1>1, <1>2

(* What those parts are.                                                     *)
LEMMA FillPartsIn ==
  ASSUME NEW f \in Seq(Msg)
  PROVE  /\ FillParts(f) \in Seq(Seq(Msg)) /\ Len(FillParts(f)) = Len(f)
         /\ \A i \in 1 .. Len(f) :
              /\ 1 \in 1 .. Len(FillParts(f)[i]) /\ FillParts(f)[i][1] = f[i]
              /\ \A k \in 1 .. Len(FillParts(f)[i]) : k # 1 => k > 1 /\ StubAt(f, i, FillParts(f)[i][k])
         /\ Fill(f) = FlattenSeq(FillParts(f)) /\ Fill(f) \in Seq(Msg)
<1> DEFINE p == FillParts(f)
           B(i) == Behind(f, i, ResultIds(f))
<1>1. Len(f) \in Nat /\ DOMAIN f = 1 .. Len(f) /\ \A i \in 1 .. Len(f) : f[i] \in Msg
    BY SeqFacts, Zenon
<1>2. p = [i \in 1 .. Len(f) |-> << f[i] >> \o B(i)]
    BY <1>1, Zenon DEF FillParts
<1>3. ASSUME NEW i \in 1 .. Len(f)
      PROVE  /\ << f[i] >> \o B(i) \in Seq(Msg)
             /\ 1 \in 1 .. Len(<< f[i] >> \o B(i)) /\ (<< f[i] >> \o B(i))[1] = f[i]
             /\ \A k \in 1 .. Len(<< f[i] >> \o B(i)) : k # 1 => k > 1 /\ StubAt(f, i, (<< f[i] >> \o B(i))[k])
  <2> DEFINE x == << f[i] >>
             y == B(i)
  <2>1. y \in Seq(Msg) /\ \A k \in 1 .. Len(y) : StubAt(f, i, y[k])
      BY BehindFacts, Zenon
  <2>2. x \in Seq(Msg) /\ Len(x) = 1 /\ x[1] = f[i]
      BY <1>1
  <2> HIDE DEF x, y
  <2>7. x \in Seq(Msg) /\ y \in Seq(Msg)
      BY <2>1, <2>2
  <2>3. /\ x \o y \in Seq(Msg) /\ Len(x) \in Nat /\ Len(y) \in Nat /\ Len(x \o y) = Len(x) + Len(y)
        /\ \A k \in 1 .. Len(x) : (x \o y)[k] = x[k]
        /\ \A k \in 1 .. Len(y) : (x \o y)[Len(x) + k] = y[k]
      BY <2>7, ConcatFacts
  <2>4. 1 \in 1 .. Len(x \o y) /\ (x \o y)[1] = x[1]
      BY <2>2, <2>3
  <2>5. ASSUME NEW k \in 1 .. Len(x \o y), k # 1 PROVE k > 1 /\ StubAt(f, i, (x \o y)[k])
    <3>1. k - 1 \in 1 .. Len(y) /\ Len(x) + (k - 1) = k /\ k > 1
        BY <2>2, <2>3, <2>5
    <3>2. (x \o y)[Len(x) + (k - 1)] = y[k - 1]
        BY <2>3, <3>1, Zenon
    <3>3. (x \o y)[k] = y[k - 1]
        BY <3>1, <3>2
    <3> QED BY <2>1, <3>1, <3>3, Zenon
  <2>6. (x \o y)[1] = f[i]
      BY <2>2, <2>4
  <2> QED BY <2>3, <2>4, <2>5, <2>6, Zenon DEF x, y
<1> HIDE DEF p, B
<1>4. \A i \in 1 .. Len(f) : p[i] = << f[i] >> \o B(i)
    BY <1>2, Zenon
<1>5. p \in Seq(Seq(Msg)) /\ Len(p) = Len(f)
  <2> DEFINE S == Seq(Msg)
  <2>1. \A i \in 1 .. Len(f) : p[i] \in S
      BY <1>3, <1>4, Zenon
  <2> HIDE DEF S
  <2>2. p \in [1 .. Len(f) -> S]
      BY <1>2, <1>4, <2>1, Zenon
  <2>3. p \in Seq(S) /\ Len(p) = Len(f)
      BY <1>1, <2>2
  <2> QED BY <2>3 DEF S
<1>6. FlattenSeq(p) \in Seq(Msg)
    BY <1>5, FlatIn, Zenon
<1>7. Fill(f) = FlattenSeq(p)
    BY Zenon DEF Fill, p, FillParts
<1>8. \A i \in 1 .. Len(f) :
              /\ 1 \in 1 .. Len(p[i]) /\ p[i][1] = f[i]
              /\ \A k \in 1 .. Len(p[i]) : k # 1 => k > 1 /\ StubAt(f, i, p[i][k])
    BY <1>3, <1>4, Zenon
<1>9. Fill(f) \in Seq(Msg)
    BY <1>6, <1>7, Zenon
<1> QED BY <1>5, <1>7, <1>8, <1>9 DEF p

(* Where the messages of a history are in the filled one: each at its spot, stubs behind it and before the next. *)
Spot(f, i) == At(FillParts(f), i, 1)
Stays(f, i, x)   == x = Spot(f, i) /\ Fill(f)[x] = f[i]
Follows(f, i, x) == /\ Spot(f, i) < x /\ StubAt(f, i, Fill(f)[x])
                    /\ \A j \in 1 .. Len(f) : i < j => x < Spot(f, j)

(* Every message of the filled history is one of the old, in its order, or a *)
(* stub.                                                                     *)
LEMMA FillPlaces ==
  ASSUME NEW f \in Seq(Msg)
  PROVE  /\ \A i \in 1 .. Len(f) : Spot(f, i) \in 1 .. Len(Fill(f)) /\ Fill(f)[Spot(f, i)] = f[i]
         /\ \A i, j \in 1 .. Len(f) : i < j => Spot(f, i) < Spot(f, j)
         /\ \A x \in 1 .. Len(Fill(f)) : \E i \in 1 .. Len(f) : Stays(f, i, x) \/ Follows(f, i, x)
<1> DEFINE p == FillParts(f)
           F == Fill(f)
           n == Len(f)
<1>1. p \in Seq(Seq(Msg)) /\ Len(p) = n /\ F = FlattenSeq(p)
    BY FillPartsIn, Zenon
<1>2. \A i \in 1 .. n :
              /\ 1 \in 1 .. Len(p[i]) /\ p[i][1] = f[i]
              /\ \A k \in 1 .. Len(p[i]) : k # 1 => k > 1 /\ StubAt(f, i, p[i][k])
    BY FillPartsIn, Zenon
<1>3. \A i \in 1 .. n : Spot(f, i) = At(p, i, 1)
    BY Zenon DEF Spot
<1> HIDE DEF p, F, n
<1>4. /\ \A i \in 1 .. n : \A k \in 1 .. Len(p[i]) : At(p, i, k) \in 1 .. Len(F) /\ F[At(p, i, k)] = p[i][k]
      /\ \A x \in 1 .. Len(F) : \E i \in 1 .. n : \E k \in 1 .. Len(p[i]) : x = At(p, i, k)
      /\ \A i \in 1 .. n, j \in 1 .. n : \A k \in 1 .. Len(p[i]), l \in 1 .. Len(p[j]) :
              i < j => At(p, i, k) < At(p, j, l)
  <2>1. p \in Seq(Seq(Msg))
      BY <1>1
  <2>2. /\ \A i \in 1 .. Len(p) : \A k \in 1 .. Len(p[i]) :
              At(p, i, k) \in 1 .. Len(FlattenSeq(p)) /\ FlattenSeq(p)[At(p, i, k)] = p[i][k]
        /\ \A x \in 1 .. Len(FlattenSeq(p)) :
              \E i \in 1 .. Len(p) : \E k \in 1 .. Len(p[i]) : x = At(p, i, k)
        /\ \A i \in 1 .. Len(p), j \in 1 .. Len(p) : \A k \in 1 .. Len(p[i]), l \in 1 .. Len(p[j]) :
              i < j => At(p, i, k) < At(p, j, l)
      BY <2>1, FlatPlaces, Zenon
  <2> QED BY <1>1, <2>2, Zenon
<1>5. ASSUME NEW i \in 1 .. n PROVE Spot(f, i) \in 1 .. Len(F) /\ F[Spot(f, i)] = f[i]
  <2>1. 1 \in 1 .. Len(p[i]) /\ p[i][1] = f[i]
      BY <1>2, Zenon
  <2>2. At(p, i, 1) \in 1 .. Len(F) /\ F[At(p, i, 1)] = p[i][1]
      BY <1>4, <2>1, Zenon
  <2>3. Spot(f, i) = At(p, i, 1)
      BY <1>3, Zenon
  <2> QED BY <2>1, <2>2, <2>3
<1>6. ASSUME NEW i \in 1 .. n, NEW j \in 1 .. n, i < j PROVE Spot(f, i) < Spot(f, j)
  <2>1. 1 \in 1 .. Len(p[i]) /\ 1 \in 1 .. Len(p[j])
      BY <1>2, Zenon
  <2>2. At(p, i, 1) < At(p, j, 1)
      BY <1>4, <1>6, <2>1, Zenon
  <2> QED BY <1>3, <2>2, Zenon
<1>7. ASSUME NEW x \in 1 .. Len(F) PROVE \E i \in 1 .. n : Stays(f, i, x) \/ Follows(f, i, x)
  <2>1. PICK i \in 1 .. n : \E k \in 1 .. Len(p[i]) : x = At(p, i, k)
      BY <1>4, Zenon
  <2>2. PICK k \in 1 .. Len(p[i]) : x = At(p, i, k)
      BY <2>1, Zenon
  <2>3. F[x] = p[i][k]
      BY <1>4, <2>2, Zenon
  <2>4. CASE k = 1
    <3>1. Stays(f, i, x)
        BY <1>2, <1>3, <2>2, <2>3, <2>4, Zenon DEF Stays, F
    <3> QED BY <3>1, Zenon
  <2>5. CASE k # 1
    <3>1. k > 1 /\ StubAt(f, i, F[x])
        BY <1>2, <2>3, <2>5, Zenon
    <3>2. ASSUME NEW j \in 1 .. n, i < j PROVE x < Spot(f, j)
      <4>1. 1 \in 1 .. Len(p[j])
          BY <1>2, Zenon
      <4>2. At(p, i, k) < At(p, j, 1)
          BY <1>4, <3>2, <4>1, Zenon
      <4> QED BY <1>3, <2>2, <4>2, Zenon
    <3>3. Spot(f, i) < x
      <4> DEFINE a == Len(Pre(p, i - 1))
      <4>1. a \in Nat
        <5>1. \A m \in 0 .. Len(p) : Len(Pre(p, m)) \in Nat
            BY <1>1, FlatLen, Zenon
        <5>2. i - 1 \in 0 .. n
          <6>1. n \in Nat
              BY DEF n
          <6> QED BY <6>1
        <5> QED BY <1>1, <5>1, <5>2, Zenon
      <4>2. Spot(f, i) = a + 1 /\ x = a + k
          BY <1>3, <2>2, Zenon DEF At
      <4> HIDE DEF a
      <4>3. k \in Int
          OBVIOUS
      <4> QED BY <3>1, <4>1, <4>2, <4>3
    <3> QED BY <3>1, <3>2, <3>3, Zenon DEF Follows, F, n
  <2> QED BY <2>4, <2>5
<1> QED BY <1>5, <1>6, <1>7 DEF F, n

(* A message with calls is none of the stubs.                                *)
LEMMA CallsStay ==
  ASSUME NEW f \in Seq(Msg), NEW x \in 1 .. Len(Fill(f)), Fill(f)[x].calls # <<>>
  PROVE  \E i \in 1 .. Len(f) : x = Spot(f, i) /\ Fill(f)[x] = f[i]
<1>1. PICK i \in 1 .. Len(f) : Stays(f, i, x) \/ Follows(f, i, x)
    BY FillPlaces, Zenon
<1>2. ~Follows(f, i, x)
    BY Zenon DEF Follows, StubAt, StubOf
<1> QED BY <1>1, <1>2, Zenon DEF Stays

(* Filling a history that is in time leaves it in time: a stub stands behind *)
(* the call it is for and before the next head.                              *)
LEMMA FillInTime ==
  ASSUME NEW f \in Seq(Msg), InTime(f)
  PROVE  Fill(f) \in Seq(Msg) /\ InTime(Fill(f))
<1> DEFINE F == Fill(f)
<1>1. F \in Seq(Msg) /\ DOMAIN F = 1 .. Len(F) /\ Len(F) \in Nat
  <2>1. F \in Seq(Msg)
      BY FillPartsIn, Zenon
  <2> HIDE DEF F
  <2> QED BY <2>1, SeqFacts, Zenon
<1> HIDE DEF F
<1>2. ASSUME NEW h \in 1 .. Len(F), NEW g \in 1 .. Len(F), NEW k \in DOMAIN F[h].calls, NEW j \in DOMAIN F[g].calls,
             F[h].calls[k].id = F[g].calls[j].id
      PROVE  h = g /\ k = j
  <2>1. \A x \in 1 .. Len(F) : \A z \in DOMAIN F[x].calls : F[x].calls # <<>>
      OBVIOUS
  <2>2. PICK a \in 1 .. Len(f) : h = Spot(f, a) /\ F[h] = f[a]
      BY <2>1, CallsStay, Zenon DEF F
  <2>3. PICK b \in 1 .. Len(f) : g = Spot(f, b) /\ F[g] = f[b]
      BY <2>1, CallsStay, Zenon DEF F
  <2>4. a = b /\ k = j
    <3>1. k \in DOMAIN f[a].calls /\ j \in DOMAIN f[b].calls /\ f[a].calls[k].id = f[b].calls[j].id
        BY <1>2, <2>2, <2>3
    <3>2. \A x, y \in 1 .. Len(f) : \A z \in DOMAIN f[x].calls, w \in DOMAIN f[y].calls :
              f[x].calls[z].id = f[y].calls[w].id => x = y /\ z = w
        BY InTimeFacts, Zenon
    <3>3. a = b
        BY <3>1, <3>2, Zenon
    <3> QED BY <3>1, <3>2
  <2> QED BY <2>2, <2>3, <2>4
<1>3. ASSUME NEW i \in 1 .. Len(F), NEW h \in 1 .. Len(F), F[i].role = "tool", IsHead(F[h]), F[i].for \in Ids(F[h])
      PROVE  h < i /\ \A g \in h + 1 .. i - 1 : ~IsHead(F[g])
  <2>1. PICK a \in 1 .. Len(f) : h = Spot(f, a) /\ F[h] = f[a]
    <3>1. F[h].calls # <<>>
        BY <1>3, Zenon DEF IsHead
    <3> QED BY <3>1, CallsStay, Zenon DEF F
  <2>2. PICK b \in 1 .. Len(f) : Stays(f, b, i) \/ Follows(f, b, i)
      BY FillPlaces, Zenon DEF F
  <2>3. \A g \in h + 1 .. i - 1 : g \in 1 .. Len(F) /\ h < g /\ g < i
      BY <1>1
  <2>4. \A x, y \in 1 .. Len(f) : Spot(f, x) < Spot(f, y) => x < y
    <3>1. \A x, y \in 1 .. Len(f) : Spot(f, x) \in 1 .. Len(F) /\ (x < y => Spot(f, x) < Spot(f, y))
        BY FillPlaces, Zenon DEF F
    <3> QED BY <3>1
  <2>5. ASSUME Stays(f, b, i) PROVE h < i /\ \A g \in h + 1 .. i - 1 : ~IsHead(F[g])
    <3>1. i = Spot(f, b) /\ F[i] = f[b]
        BY <2>5, Zenon DEF Stays, F
    <3>2. a < b /\ \A c \in a + 1 .. b - 1 : ~IsHead(f[c])
      <4>1. f[b].role = "tool" /\ IsHead(f[a]) /\ f[b].for \in Ids(f[a])
          BY <1>3, <2>1, <3>1, Zenon
      <4>2. DOMAIN f = 1 .. Len(f)
          BY SeqFacts, Zenon
      <4> QED BY <4>1, <4>2, Zenon DEF InTime
    <3>3. h < i
        BY <2>1, <3>1, <3>2, FillPlaces, Zenon
    <3>4. ASSUME NEW g \in h + 1 .. i - 1, IsHead(F[g]) PROVE FALSE
      <4>1. F[g].calls # <<>>
          BY <3>4, Zenon DEF IsHead
      <4>2. PICK c \in 1 .. Len(f) : g = Spot(f, c) /\ F[g] = f[c]
          BY <2>3, <4>1, CallsStay, Zenon DEF F
      <4>3. a < c /\ c < b
          BY <2>1, <2>3, <2>4, <3>1, <4>2, Zenon
      <4>4. c \in a + 1 .. b - 1
          BY <4>3
      <4> QED BY <3>2, <3>4, <4>2, <4>4, Zenon
    <3> QED BY <3>3, <3>4, Zenon
  <2>6. ASSUME Follows(f, b, i) PROVE h < i /\ \A g \in h + 1 .. i - 1 : ~IsHead(F[g])
    <3>1. PICK e \in 1 .. Len(f) : IsHead(f[e]) /\ RunEnd(f, e) = b /\ StubOf(f[e], ResultIds(f), F[i])
        BY <2>6, Zenon DEF Follows, StubAt, F
    <3>2. PICK k \in DOMAIN f[e].calls : f[e].calls[k].id = F[i].for
        BY <3>1, Zenon DEF StubOf
    <3>3. PICK j \in DOMAIN f[a].calls : f[a].calls[j].id = F[i].for
        BY <1>3, <2>1, Zenon DEF Ids
    <3>4. e = a
      <4>1. f[e].calls[k].id = f[a].calls[j].id
          BY <3>2, <3>3, Zenon
      <4>2. \A x, y \in 1 .. Len(f) : \A z \in DOMAIN f[x].calls, w \in DOMAIN f[y].calls :
              f[x].calls[z].id = f[y].calls[w].id => x = y /\ z = w
          BY InTimeFacts, Zenon
      <4> QED BY <4>1, <4>2, Zenon
    <3>5. b \in a .. Len(f) /\ InRun(f, a, b)
        BY <3>1, <3>4, RunEndFacts, Zenon
    <3>6. Spot(f, b) < i /\ \A c \in 1 .. Len(f) : b < c => i < Spot(f, c)
        BY <2>6, Zenon DEF Follows
    <3>7. h < i
      <4>1. Spot(f, a) \in Int /\ Spot(f, b) \in Int /\ Spot(f, a) <= Spot(f, b)
        <5>1. \A x, y \in 1 .. Len(f) : Spot(f, x) \in 1 .. Len(F) /\ (x < y => Spot(f, x) < Spot(f, y))
            BY FillPlaces, Zenon DEF F
        <5>2. a = b \/ a < b
            BY <3>5
        <5> QED BY <5>1, <5>2
      <4> QED BY <2>1, <3>6, <4>1
    <3>8. ASSUME NEW g \in h + 1 .. i - 1, IsHead(F[g]) PROVE FALSE
      <4>1. F[g].calls # <<>>
          BY <3>8, Zenon DEF IsHead
      <4>2. PICK c \in 1 .. Len(f) : g = Spot(f, c) /\ F[g] = f[c]
          BY <2>3, <4>1, CallsStay, Zenon DEF F
      <4>3. a < c
          BY <2>1, <2>3, <2>4, <4>2, Zenon
      <4>4. ~(b < c)
        <5> SUFFICES ASSUME b < c PROVE FALSE
            OBVIOUS
        <5>1. i < g
            BY <3>6, <4>2, Zenon
        <5> QED BY <5>1
      <4>5. c \in a + 1 .. b
          BY <4>3, <4>4
      <4>6. f[c].role = "tool"
          BY <3>5, <4>5, Zenon DEF InRun
      <4>7. IsHead(f[c])
          BY <3>8, <4>2, Zenon
      <4> QED BY <4>6, <4>7 DEF IsHead
    <3> QED BY <3>7, <3>8, Zenon
  <2> QED BY <2>2, <2>5, <2>6, Zenon
<1>4. InTime(F)
    BY <1>1, <1>2, <1>3, Zenon DEF InTime
<1> QED BY <1>1, <1>4 DEF F

-------------------------------------------------------------------------------
(* Merging, and the four passes together                                     *)

(* A recursive function over 0 .. n, and its type.                           *)
RecIs(a, F, n, g) == g = [i \in 0 .. n |-> IF i = 0 THEN a ELSE F[i][g[i - 1]]]

(* It exists, and its values are in T when a and every step are.             *)
LEMMA RecExists ==
  ASSUME NEW T, NEW a \in T, NEW N \in Nat, NEW F, \A i \in 1 .. N : \A x \in T : F[i][x] \in T
  PROVE  \E g \in [0 .. N -> T] : RecIs(a, F, N, g)
<1> DEFINE I == {n \in Nat : n <= N => \E g \in [0 .. n -> T] : RecIs(a, F, n, g)}
<1>1. 0 \in I
  <2> DEFINE g == [i \in 0 .. 0 |-> a]
  <2>1. g \in [0 .. 0 -> T]
      OBVIOUS
  <2>2. \A i \in 0 .. 0 : i = 0
      OBVIOUS
  <2>3. RecIs(a, F, 0, g)
      BY <2>2, Zenon DEF RecIs
  <2> QED BY <2>1, <2>3
<1>2. ASSUME NEW n \in Nat, n \in I PROVE n + 1 \in I
  <2> SUFFICES ASSUME n + 1 <= N PROVE \E g \in [0 .. n + 1 -> T] : RecIs(a, F, n + 1, g)
      OBVIOUS
  <2>0. n <= N /\ n + 1 \in 1 .. N /\ n \in 0 .. n /\ (n + 1) - 1 = n /\ n + 1 # 0 /\ n + 1 \in 0 .. n + 1
      OBVIOUS
  <2>1. PICK g \in [0 .. n -> T] : RecIs(a, F, n, g)
      BY <1>2, <2>0, Zenon
  <2> DEFINE h == [i \in 0 .. n + 1 |-> IF i = n + 1 THEN F[i][g[n]] ELSE g[i]]
  <2>2. \A i \in 0 .. n : i \in 0 .. n + 1 /\ i # n + 1
      OBVIOUS
  <2>3. \A i \in 0 .. n : h[i] = g[i]
      BY <2>2, Zenon
  <2>4. \A i \in 0 .. n + 1 : i \in 0 .. n \/ i = n + 1
      OBVIOUS
  <2>5. \A i \in 0 .. n : i # 0 => i - 1 \in 0 .. n
      OBVIOUS
  <2>6. g[n] \in T /\ F[n + 1][g[n]] \in T
      BY <2>0, Zenon
  <2>7. h \in [0 .. n + 1 -> T]
    <3>1. \A i \in 0 .. n + 1 : (IF i = n + 1 THEN F[i][g[n]] ELSE g[i]) \in T
        BY <2>4, <2>6, Zenon
    <3> QED BY <3>1, Zenon
  <2>8. \A i \in 0 .. n : g[i] = IF i = 0 THEN a ELSE F[i][g[i - 1]]
      BY <2>1, Zenon DEF RecIs
  <2>9. h[n + 1] = F[n + 1][g[n]]
      BY <2>0, Zenon
  <2> HIDE DEF h
  <2>10. ASSUME NEW i \in 0 .. n + 1 PROVE h[i] = IF i = 0 THEN a ELSE F[i][h[i - 1]]
    <3>1. CASE i \in 0 .. n
        BY <2>3, <2>5, <2>8, <3>1, Zenon
    <3>2. CASE i = n + 1
        BY <2>0, <2>3, <2>9, <3>2, Zenon
    <3> QED BY <2>4, <3>1, <3>2
  <2>11. RecIs(a, F, n + 1, h)
    <3>1. h = [i \in 0 .. n + 1 |-> h[i]]
        BY <2>7, Zenon
    <3> QED BY <2>10, <3>1, Zenon DEF RecIs
  <2> QED BY <2>7, <2>11, Zenon
<1> HIDE DEF I
<1>3. N \in I
    BY <1>1, <1>2, SetInduction, Zenon
<1> QED BY <1>3 DEF I

(* The last of a sequence and those before it.                               *)
LEMMA LastFront ==
  ASSUME NEW S, NEW s \in Seq(S), s # <<>>
  PROVE  /\ Last(s) \in S /\ Front(s) \in Seq(S)
         /\ Last(s) = s[Len(s)] /\ Len(s) \in 1 .. Len(s) /\ Len(Front(s)) = Len(s) - 1
         /\ \A i \in 1 .. Len(s) - 1 : Front(s)[i] = s[i]
<1>1. Len(s) \in Nat /\ Len(s) # 0
    BY EmptySeq
<1>2. Len(s) \in 1 .. Len(s) /\ Len(s) - 1 \in Nat
    BY <1>1
<1>3. Last(s) = s[Len(s)] /\ s[Len(s)] \in S
    BY <1>2 DEF Last
<1>4. Front(s) = SubSeq(s, 1, Len(s) - 1)
    BY DEF Front
<1>5. SubSeq(s, 1, Len(s) - 1) \in Seq(S) /\ Len(SubSeq(s, 1, Len(s) - 1)) = Len(s) - 1
      /\ \A i \in 1 .. Len(s) - 1 : SubSeq(s, 1, Len(s) - 1)[i] = s[i]
  <2> DEFINE e == Len(s) - 1
  <2>1. e \in Nat /\ \A i \in 1 .. e : s[i] \in S
      BY <1>2
  <2> HIDE DEF e
  <2>2. SubSeq(s, 1, e) = [i \in 1 .. e |-> s[i]]
      BY <2>1
  <2>3. SubSeq(s, 1, e) \in [1 .. e -> S]
      BY <2>1, <2>2, Zenon
  <2>4. SubSeq(s, 1, e) \in Seq(S) /\ Len(SubSeq(s, 1, e)) = e
      BY <2>1, <2>3
  <2>5. \A i \in 1 .. e : SubSeq(s, 1, e)[i] = s[i]
      BY <2>2, Zenon
  <2> QED BY <2>4, <2>5 DEF e
<1> QED BY <1>2, <1>3, <1>4, <1>5, Zenon

(* Joining two messages gives a message.                                     *)
LEMMA JoinFacts ==
  ASSUME NEW p \in Msg, NEW m \in Msg, IsHead(p)
  PROVE  Join(p, m) \in Msg
<1> DEFINE c == p.calls \o m.calls
           k == p.think \o m.think
           t == IF m.calls = <<>> THEN m.text ELSE p.text
<1>1. p \in MsgType /\ m \in MsgType /\ p.role = "assistant"
    BY DEF Msg, IsHead
<1>2. c \in Seq(CallType) /\ k \in Seq(Int) /\ t \in Seq(Int)
  <2>1. p.calls \in Seq(CallType) /\ m.calls \in Seq(CallType)
      BY MsgFacts, Zenon
  <2>2. p.think \in Seq(Int) /\ m.think \in Seq(Int) /\ m.text \in Seq(Int) /\ p.text \in Seq(Int)
      BY MsgFacts, Zenon
  <2> QED BY <2>1, <2>2
<1>3. Join(p, m) = [p EXCEPT !.calls = c, !.think = k, !.text = t]
    BY Zenon DEF Join
<1> HIDE DEF c, k, t
<1>4. [p EXCEPT !.calls = c, !.think = k, !.text = t] \in MsgType
    BY <1>1, <1>2 DEF MsgType
<1>5. [p EXCEPT !.calls = c, !.think = k, !.text = t].role = p.role
    BY <1>1 DEF MsgType
<1> QED BY <1>1, <1>3, <1>4, <1>5, Zenon DEF Msg

(* A merge step gives a history.                                             *)
LEMMA MergeStepIn ==
  ASSUME NEW s \in Seq(Msg), NEW m \in Msg
  PROVE  MergeStep(s, m) \in Seq(Msg)
<1>1. CASE s # <<>> /\ Joins(Last(s), m)
  <2>1. Last(s) \in Msg /\ Front(s) \in Seq(Msg)
      BY <1>1, LastFront, Zenon
  <2>2. IsHead(Last(s))
      BY <1>1, Zenon DEF Joins
  <2>3. Join(Last(s), m) \in Msg
      BY <2>1, <2>2, JoinFacts, Zenon
  <2>4. MergeStep(s, m) = Append(Front(s), Join(Last(s), m))
      BY <1>1, Zenon DEF MergeStep
  <2> QED BY <2>1, <2>3, <2>4
<1>2. CASE ~(s # <<>> /\ Joins(Last(s), m))
  <2>1. MergeStep(s, m) = Append(s, m)
      BY <1>2, Zenon DEF MergeStep
  <2> QED BY <2>1
<1> QED BY <1>1, <1>2

(* The histories merged so far, one for each number of messages. *)
MergeIs(f, g) == g = [n \in 0 .. Len(f) |-> IF n = 0 THEN <<>> ELSE MergeStep(g[n - 1], f[n])]
Merging(f) == CHOOSE g : MergeIs(f, g)

(* Merge folds the merge step over the history.                              *)
LEMMA MergingFacts ==
  ASSUME NEW f \in Seq(Msg)
  PROVE  /\ Merge(f) = Merging(f)[Len(f)]
         /\ Merging(f)[0] = <<>>
         /\ \A n \in 1 .. Len(f) : Merging(f)[n] = MergeStep(Merging(f)[n - 1], f[n])
<1> DEFINE T == Seq(Msg)
           N == Len(f)
           F == [n \in 1 .. N |-> [s \in T |-> MergeStep(s, f[n])]]
<1>1. N \in Nat /\ <<>> \in T /\ \A n \in 1 .. N : f[n] \in Msg
    OBVIOUS
<1>2. \A n \in 1 .. N : \A s \in T : F[n][s] = MergeStep(s, f[n]) /\ F[n][s] \in T
    BY <1>1, MergeStepIn, Zenon
<1> HIDE DEF T, N, F
<1>3. \A n \in 1 .. N : \A s \in T : F[n][s] \in T
    BY <1>2, Zenon
<1>4. PICK g \in [0 .. N -> T] : RecIs(<<>>, F, N, g)
    BY <1>1, <1>3, RecExists, Zenon
<1>5. MergeIs(f, g)
  <2>1. g = [n \in 0 .. N |-> IF n = 0 THEN <<>> ELSE F[n][g[n - 1]]]
      BY <1>4, Zenon DEF RecIs
  <2>2. \A n \in 0 .. N : n # 0 => n \in 1 .. N /\ n - 1 \in 0 .. N
      BY <1>1
  <2>3. \A n \in 0 .. N : n # 0 => F[n][g[n - 1]] = MergeStep(g[n - 1], f[n])
      BY <1>2, <1>4, <2>2, Zenon
  <2>4. g = [n \in 0 .. N |-> IF n = 0 THEN <<>> ELSE MergeStep(g[n - 1], f[n])]
      BY <2>1, <2>3, Zenon
  <2> QED BY <2>4, Zenon DEF MergeIs, N
<1>6. MergeIs(f, Merging(f))
    BY <1>5, Zenon DEF Merging
<1>7. Merge(f) = Merging(f)[Len(f)]
    BY Zenon DEF Merge, Merging, MergeIs
<1> DEFINE c == Merging(f)
<1>8. c = [n \in 0 .. N |-> IF n = 0 THEN <<>> ELSE MergeStep(c[n - 1], f[n])]
    BY <1>6, Zenon DEF MergeIs, N
<1> HIDE DEF c
<1>9. 0 \in 0 .. N /\ \A n \in 1 .. N : n # 0 /\ n \in 0 .. N
    BY <1>1
<1>10. c[0] = <<>> /\ \A n \in 1 .. N : c[n] = MergeStep(c[n - 1], f[n])
    BY <1>8, <1>9, Zenon
<1> QED BY <1>7, <1>10 DEF c, N

(* Merging gives a history.                                                  *)
LEMMA MergeIn ==
  ASSUME NEW f \in Seq(Msg)
  PROVE  Merge(f) \in Seq(Msg)
<1> DEFINE c == Merging(f)
           N == Len(f)
           I == {n \in Nat : n <= N => c[n] \in Seq(Msg)}
<1>0. N \in Nat
    OBVIOUS
<1>1. Merge(f) = c[N] /\ c[0] = <<>> /\ \A n \in 1 .. N : c[n] = MergeStep(c[n - 1], f[n])
    BY MergingFacts, Zenon
<1>2. \A n \in 1 .. N : f[n] \in Msg
    OBVIOUS
<1> HIDE DEF c, N
<1>3. 0 \in I
  <2>1. c[0] = <<>>
      BY <1>1, Zenon
  <2>2. <<>> \in Seq(Msg) /\ 0 \in Nat
      OBVIOUS
  <2> QED BY <2>1, <2>2, Zenon
<1>4. ASSUME NEW n \in Nat, n \in I PROVE n + 1 \in I
  <2> SUFFICES ASSUME n + 1 <= N PROVE c[n + 1] \in Seq(Msg)
      OBVIOUS
  <2>1. n <= N /\ n + 1 \in 1 .. N /\ (n + 1) - 1 = n
      BY <1>0
  <2>2. c[n] \in Seq(Msg)
      BY <1>4, <2>1, Zenon
  <2>3. c[n + 1] = MergeStep(c[n], f[n + 1])
      BY <1>1, <2>1
  <2> QED BY <1>2, <2>1, <2>2, <2>3, MergeStepIn, Zenon
<1> HIDE DEF I
<1>5. N \in I
    BY <1>0, <1>3, <1>4, SetInduction, Zenon
<1> QED BY <1>0, <1>1, <1>5 DEF I

(* A history whose merged form is in time is paired once it is repaired.     *)
LEMMA RepairPaired ==
  ASSUME NEW f \in Seq(Msg), InTime(Merge(f))
  PROVE  Repair(f) \in Seq(Msg) /\ Paired(Repair(f))
<1> DEFINE m == Merge(f)
           l == Fill(m)
           r == Repack(l)
<1>1. m \in Seq(Msg) /\ InTime(m)
    BY MergeIn, Zenon
<1> HIDE DEF m
<1>2. l \in Seq(Msg) /\ InTime(l)
    BY <1>1, FillInTime, Zenon
<1> HIDE DEF l
<1>3. r \in Seq(Msg) /\ Paired(Cleanup(r))
    BY <1>2, RepackPaired, Zenon
<1> HIDE DEF r
<1>4. Cleanup(r) \in Seq(Msg)
    BY <1>3, CleanIn, Zenon DEF Cleanup
<1> QED BY <1>3, <1>4, Zenon DEF Repair, r, l, m

(* Repacking gives a history.                                                *)
LEMMA RepackIn ==
  ASSUME NEW f \in Seq(Msg)
  PROVE  Repack(f) \in Seq(Msg)
<1>1. CASE Len(f) < 3
    BY <1>1, Zenon DEF Repack
<1>2. CASE ~(Len(f) < 3)
  <2>1. Repack(f) = FlattenSeq(RepackParts(f))
      BY <1>2, Zenon DEF Repack, RepackParts
  <2> QED BY <2>1, PartsFrom, Zenon
<1> QED BY <1>1, <1>2

(* The history that cleaning, the last pass, sees.                           *)
Passed(f) == Repack(Fill(Merge(f)))

(* It is a history.                                                          *)
LEMMA PassedIn ==
  ASSUME NEW f \in Seq(Msg)
  PROVE  Passed(f) \in Seq(Msg)
<1>1. Merge(f) \in Seq(Msg)
    BY MergeIn, Zenon
<1>2. Fill(Merge(f)) \in Seq(Msg)
    BY <1>1, FillPartsIn, Zenon
<1>3. Repack(Fill(Merge(f))) \in Seq(Msg)
    BY <1>2, RepackIn, Zenon
<1> QED BY <1>3 DEF Passed

(* Every call has a name and an id.                                          *)
Named(f) == \A i \in DOMAIN f : \A k \in DOMAIN f[i].calls : f[i].calls[k].name # "" /\ f[i].calls[k].id # ""

(* Cleaning leaves no call without a name or an id, whatever it is given.    *)
LEMMA CleanupNamed ==
  ASSUME NEW s \in Seq(Msg)
  PROVE  Cleanup(s) \in Seq(Msg) /\ Named(Cleanup(s))
<1> DEFINE K == Kept(s)
           r == Cleanup(s)
<1>1. r = Clean(s, K)
    BY Zenon DEF Cleanup
<1> HIDE DEF r
<1>2. r \in Seq(Msg) /\ DOMAIN r = 1 .. Len(r)
  <2>1. r \in Seq(Msg)
      BY <1>1, CleanIn, Zenon
  <2> QED BY <2>1, SeqFacts, Zenon
<1>3. ASSUME NEW x \in 1 .. Len(r), NEW k \in DOMAIN r[x].calls PROVE r[x].calls[k].name # "" /\ r[x].calls[k].id # ""
  <2>1. PICK i \in 1 .. Len(s) : r[x] = Pruned(s[i], K)
      BY <1>1, CleanFrom, Zenon
  <2>2. s[i] \in Msg
      BY SeqFacts, Zenon
  <2> DEFINE c == s[i].calls
             t == Those(c, Ours(s[i], K))
  <2>3. r[x].calls = t /\ c \in Seq(CallType)
      BY <2>1, <2>2, PrunedFacts, MsgFacts, Zenon
  <2>4. PICK g \in [1 .. Len(t) -> 1 .. Len(c)] : \A y \in 1 .. Len(t) : g[y] \in Ours(s[i], K) /\ t[y] = c[g[y]]
    <3> DEFINE O == Ours(s[i], K)
    <3>1. c \in Seq(CallType)
        BY <2>3
    <3> HIDE DEF O, c
    <3>2. /\ Those(c, O) \in Seq(CallType)
          /\ \E g \in [1 .. Len(Those(c, O)) -> 1 .. Len(c)] :
               \A y \in 1 .. Len(Those(c, O)) : g[y] \in O /\ Those(c, O)[y] = c[g[y]]
        BY <3>1, ThosePlaces, SMTT(30)
    <3> QED BY <3>2, Zenon DEF O
  <2>5. t \in Seq(CallType)
      BY <2>3, ThosePlaces, Zenon
  <2>6. DOMAIN t = 1 .. Len(t)
      BY <2>5, SeqFacts, Zenon
  <2>7. k \in 1 .. Len(t)
      BY <2>3, <2>6, Zenon
  <2>8. g[k] \in DOMAIN c /\ c[g[k]].id \in K /\ r[x].calls[k] = c[g[k]]
    <3>1. g[k] \in Ours(s[i], K) /\ t[k] = c[g[k]]
        BY <2>4, <2>7, Zenon
    <3>2. g[k] \in DOMAIN c /\ c[g[k]].id \in K
        BY <3>1, Zenon DEF Ours
    <3> QED BY <2>3, <3>1, <3>2, Zenon
  <2>9. c[g[k]].id # "" /\ c[g[k]].name # ""
    <3> DEFINE j == g[k]
    <3>1. j \in DOMAIN s[i].calls /\ s[i].calls[j].id \in K
        BY <2>8
    <3> HIDE DEF j
    <3>2. s[i].calls[j].id # "" /\ s[i].calls[j].name # ""
      <4> DEFINE id == s[i].calls[j].id
      <4>1. id \in Kept(s)
          BY <3>1
      <4>2. id # "" /\ \A h \in 1 .. Len(s) : \A z \in DOMAIN s[h].calls : s[h].calls[z].id = id => s[h].calls[z].name # ""
          BY <4>1, KeptFacts, Zenon
      <4> QED BY <3>1, <4>2
    <3> QED BY <3>2 DEF j
  <2> QED BY <2>8, <2>9, Zenon
<1>4. Named(r)
    BY <1>2, <1>3, Zenon DEF Named
<1> QED BY <1>2, <1>4 DEF r

(* So it is for repair as a whole.                                           *)
LEMMA RepairNamed ==
  ASSUME NEW f \in Seq(Msg)
  PROVE  Repair(f) \in Seq(Msg) /\ Named(Repair(f))
<1>1. Passed(f) \in Seq(Msg)
    BY PassedIn, Zenon
<1>2. Repair(f) = Cleanup(Passed(f))
    BY Zenon DEF Repair, Passed
<1> QED BY <1>1, <1>2, CleanupNamed, Zenon

-------------------------------------------------------------------------------
(* The body made of a repaired history                                       *)

(* Two lists of messages with the same calls and results. *)
SameTraffic(a, b) ==
  /\ DOMAIN a = DOMAIN b
  /\ \A i \in DOMAIN a : a[i].role = b[i].role /\ a[i].calls = b[i].calls /\ a[i].for = b[i].for

(* Being paired and being named depend on calls and results alone.           *)
LEMMA TrafficPaired ==
  ASSUME NEW a, NEW b, NEW n \in Nat, DOMAIN a = 1 .. n, SameTraffic(a, b)
  PROVE  (Paired(a) => Paired(b)) /\ (Named(a) => Named(b))
<1>1. DOMAIN a = DOMAIN b /\ \A i \in DOMAIN b : a[i].role = b[i].role /\ a[i].calls = b[i].calls /\ a[i].for = b[i].for
    BY Zenon DEF SameTraffic
<1>2. ASSUME Paired(a) PROVE Paired(b)
  <2>1. ASSUME NEW h \in DOMAIN b, NEW k \in DOMAIN b[h].calls
        PROVE  h + k \in DOMAIN b /\ b[h + k].role = "tool" /\ b[h + k].for = b[h].calls[k].id
    <3>1. h \in DOMAIN a /\ k \in DOMAIN a[h].calls /\ a[h].calls = b[h].calls
        BY <1>1, Zenon
    <3>2. h + k \in DOMAIN a /\ a[h + k].role = "tool" /\ a[h + k].for = a[h].calls[k].id
        BY <1>2, <3>1, Zenon DEF Paired
    <3>3. h + k \in DOMAIN b /\ a[h + k].role = b[h + k].role /\ a[h + k].for = b[h + k].for
        BY <1>1, <3>2, Zenon
    <3> QED BY <3>1, <3>2, <3>3
  <2>2. ASSUME NEW i \in DOMAIN b, b[i].role = "tool" PROVE \E h \in 1 .. i - 1 : i - h <= Len(b[h].calls)
    <3>1. i \in DOMAIN a /\ a[i].role = "tool"
        BY <1>1, <2>2
    <3>2. PICK h \in 1 .. i - 1 : i - h <= Len(a[h].calls)
        BY <1>2, <3>1, Zenon DEF Paired
    <3>3. h \in DOMAIN a
      <4>1. i \in 1 .. n
          BY <3>1
      <4>2. h \in 1 .. n
          BY <4>1
      <4> QED BY <4>2
    <3>4. a[h].calls = b[h].calls
        BY <1>1, <3>3, Zenon
    <3> QED BY <3>2, <3>4
  <2> QED BY <2>1, <2>2, Zenon DEF Paired
<1>3. ASSUME Named(a) PROVE Named(b)
    BY <1>1, <1>3, Zenon DEF Named
<1> QED BY <1>2, <1>3

(* b is f with reasoning added.                                              *)
Thoughtful(f, b) == \E rc : b = [i \in DOMAIN f |-> Reasoned(f[i], rc[i])]

(* Backfilling the reasoning of WorkBuddy touches neither calls nor results. *)
LEMMA BackfillTraffic ==
  ASSUME NEW u, NEW e, NEW f \in Seq(Msg)
  PROVE  /\ Thoughtful(f, Backfill(u, f, e))
         /\ SameTraffic(f, Backfill(u, f, e)) /\ DOMAIN Backfill(u, f, e) = 1 .. Len(f)
<1> DEFINE Fills(m) == /\ m.role = "assistant"
                       /\ \/ u.family = "deepseek" /\ (e \/ HasTrace(f))
                          \/ u.family = "kimi" /\ m.calls # <<>>
           Rc(m)    == CASE m.think # <<>> -> "own"
                         [] m.think = <<>> /\ Fills(m)  -> "blank"
                         [] m.think = <<>> /\ ~Fills(m) -> "none"
           rc == [i \in DOMAIN f |-> Rc(f[i])]
<1>1. Backfill(u, f, e) = [i \in DOMAIN f |-> Reasoned(f[i], Rc(f[i]))]
    BY Zenon DEF Backfill
<1>2. \A i \in DOMAIN f : rc[i] = Rc(f[i])
    BY Zenon
<1> HIDE DEF rc, Rc
<1>3. Backfill(u, f, e) = [i \in DOMAIN f |-> Reasoned(f[i], rc[i])]
    BY <1>1, <1>2, Zenon
<1>4. DOMAIN f = 1 .. Len(f)
    BY SeqFacts, Zenon
<1>5. \A i \in DOMAIN f : Backfill(u, f, e)[i] = Reasoned(f[i], rc[i])
    BY <1>3, Zenon
<1>6. \A m, z : Reasoned(m, z).role = m.role /\ Reasoned(m, z).calls = m.calls /\ Reasoned(m, z).for = m.for
    BY Zenon DEF Reasoned
<1>7. SameTraffic(f, Backfill(u, f, e))
  <2>1. DOMAIN Backfill(u, f, e) = DOMAIN f
      BY <1>3, Zenon
  <2>2. ASSUME NEW i \in DOMAIN f
        PROVE  /\ f[i].role = Backfill(u, f, e)[i].role /\ f[i].calls = Backfill(u, f, e)[i].calls
               /\ f[i].for = Backfill(u, f, e)[i].for
    <3>1. Backfill(u, f, e)[i] = Reasoned(f[i], rc[i])
        BY <1>5
    <3> QED BY <1>6, <3>1, Zenon
  <2> QED BY <2>1, <2>2, Zenon DEF SameTraffic
<1>8. DOMAIN Backfill(u, f, e) = 1 .. Len(f)
    BY <1>4, <1>7, Zenon DEF SameTraffic
<1> QED BY <1>3, <1>7, <1>8, Zenon DEF Thoughtful

(* Nor does neutralising the names the agents give themselves.               *)
LEMMA NeutralTraffic ==
  ASSUME NEW f, NEW b, Thoughtful(f, b)
  PROVE  SameTraffic(b, Neutralized(b))
<1>0. PICK rc : b = [i \in DOMAIN f |-> Reasoned(f[i], rc[i])]
    BY Zenon DEF Thoughtful
<1> DEFINE N == Neutralized(b)
<1>1. N = [i \in DOMAIN b |-> IF b[i].role = "system" /\ b[i].text # <<>>
                               THEN [b[i] EXCEPT !.text = << Neutral >>] ELSE b[i]]
    BY Zenon DEF Neutralized
<1> HIDE DEF N
<1>2. DOMAIN N = DOMAIN b /\ DOMAIN b = DOMAIN f
    BY <1>0, <1>1, Zenon
<1>3. ASSUME NEW i \in DOMAIN b PROVE b[i].role = N[i].role /\ b[i].calls = N[i].calls /\ b[i].for = N[i].for
  <2>1. b[i] = Reasoned(f[i], rc[i])
      BY <1>0, <1>2, Zenon
  <2>2. N[i] = b[i] \/ N[i] = [b[i] EXCEPT !.text = << Neutral >>]
      BY <1>1, Zenon
  <2>3. CASE N[i] = b[i]
      BY <2>3, Zenon
  <2>4. CASE N[i] = [b[i] EXCEPT !.text = << Neutral >>]
    <3> DEFINE x == b[i]
    <3>1. x = [role |-> f[i].role, text |-> f[i].text, img |-> f[i].img, think |-> f[i].think,
               calls |-> f[i].calls, for |-> f[i].for, rc |-> rc[i]]
        BY <2>1, Zenon DEF Reasoned
    <3> HIDE DEF x
    <3>2. [x EXCEPT !.text = << Neutral >>].role = x.role
        BY <3>1
    <3>3. [x EXCEPT !.text = << Neutral >>].calls = x.calls
        BY <3>1
    <3>4. [x EXCEPT !.text = << Neutral >>].for = x.for
        BY <3>1
    <3>5. N[i] = [x EXCEPT !.text = << Neutral >>]
        BY <2>4 DEF x
    <3> QED BY <3>2, <3>3, <3>4, <3>5, Zenon DEF x
  <2> QED BY <2>2, <2>3, <2>4
<1>4. SameTraffic(b, N)
    BY <1>2, <1>3, Zenon DEF SameTraffic
<1> QED BY <1>4 DEF N

(* The system message put first.                                             *)
Greeting == Reasoned([Message("system") EXCEPT !.text = << Console >>], "none")

(* It has no call and is no result.                                          *)
LEMMA GreetingFacts ==
  Greeting.role = "system" /\ Greeting.calls = <<>> /\ Greeting.calls \in Seq(CallType)
<1> DEFINE m == Message("system")
           x == [m EXCEPT !.text = << Console >>]
<1>1. m \in Msg /\ m.role = "system" /\ m.calls = <<>>
  <2>1. "system" \in {"user", "assistant", "tool", "system"}
      OBVIOUS
  <2> QED BY <2>1, MessageFacts, Zenon
<1>2. x.role = m.role /\ x.calls = m.calls
  <2>1. m \in MsgType
      BY <1>1, Zenon DEF Msg
  <2> HIDE DEF m
  <2> QED BY <2>1 DEF MsgType
<1>3. Greeting.role = x.role /\ Greeting.calls = x.calls
    BY Zenon DEF Greeting, Reasoned
<1>4. <<>> \in Seq(CallType)
    OBVIOUS
<1> HIDE DEF m, x
<1>5. Greeting.role = "system" /\ Greeting.calls = <<>>
    BY <1>1, <1>2, <1>3, Zenon
<1> QED BY <1>4, <1>5

(* So the history behind it stays paired and named.                          *)
LEMMA GreetingFirst ==
  ASSUME NEW f \in Seq(Msg), NEW b, SameTraffic(f, b), b = [i \in DOMAIN b |-> b[i]]
  PROVE  /\ Paired(b) => Paired(<< Greeting >> \o b)
         /\ Named(b) => Named(<< Greeting >> \o b)
<1> DEFINE S == {Greeting} \cup {b[i] : i \in DOMAIN f}
           g == << Greeting >>
<1>1. DOMAIN f = 1 .. Len(f) /\ Len(f) \in Nat /\ DOMAIN b = DOMAIN f
    BY SeqFacts, Zenon DEF SameTraffic
<1>2. b \in Seq(S) /\ Len(b) = Len(f)
  <2>1. b \in [DOMAIN f -> S]
    <3>1. b = [i \in DOMAIN f |-> b[i]]
        BY <1>1
    <3>2. \A i \in DOMAIN f : b[i] \in S
        OBVIOUS
    <3> HIDE DEF S
    <3> QED BY <3>1, <3>2, Zenon
  <2> HIDE DEF S
  <2> QED BY <1>1, <2>1
<1>3. \A x \in S : x.calls \in Seq(CallType)
  <2>1. \A i \in DOMAIN f : b[i].calls = f[i].calls
      BY Zenon DEF SameTraffic
  <2>2. \A i \in DOMAIN f : f[i] \in Msg
      BY <1>1
  <2>3. \A i \in DOMAIN f : f[i].calls \in Seq(CallType)
      BY <2>2, MsgFacts, Zenon
  <2>4. \A i \in DOMAIN f : b[i].calls \in Seq(CallType)
      BY <2>1, <2>3, Zenon
  <2> QED BY <2>4, GreetingFacts, Zenon
<1>4. g \in Seq(S) /\ Len(g) = 1 /\ g[1] = Greeting
    OBVIOUS
<1> HIDE DEF S, g
<1>5. g[1].role = "system" /\ g[1].calls = <<>>
    BY <1>4, GreetingFacts, Zenon
<1>6. Paired(g)
  <2>1. \A h \in DOMAIN g : DOMAIN g[h].calls = {} /\ g[h].role # "tool"
    <3>1. \A h \in DOMAIN g : h = 1
        BY <1>4
    <3> QED BY <1>5, <3>1
  <2> QED BY <2>1, Zenon DEF Paired
<1>7. Paired(b) => Paired(g \o b)
    BY <1>2, <1>3, <1>4, <1>6, PairedConcat, Zenon
<1>8. ASSUME Named(b) PROVE Named(g \o b)
  <2>0. g \in Seq(S) /\ b \in Seq(S)
      BY <1>2, <1>4
  <2>1. /\ g \o b \in Seq(S) /\ Len(g) \in Nat /\ Len(b) \in Nat /\ Len(g \o b) = Len(g) + Len(b)
        /\ \A i \in 1 .. Len(g) : (g \o b)[i] = g[i]
        /\ \A i \in 1 .. Len(b) : (g \o b)[Len(g) + i] = b[i]
      BY <2>0, ConcatFacts
  <2>2. ASSUME NEW i \in DOMAIN (g \o b) PROVE \A k \in DOMAIN (g \o b)[i].calls : (g \o b)[i].calls[k].name # "" /\ (g \o b)[i].calls[k].id # ""
    <3>1. CASE i = 1
      <4>1. (g \o b)[i] = g[1]
          BY <1>4, <2>1, <3>1
      <4>2. DOMAIN (g \o b)[i].calls = {}
          BY <1>5, <4>1
      <4> QED BY <4>2, Zenon
    <3>2. CASE i # 1
      <4>1. i - 1 \in 1 .. Len(b) /\ Len(g) + (i - 1) = i
          BY <1>4, <2>1, <3>2
      <4>2. (g \o b)[Len(g) + (i - 1)] = b[i - 1]
          BY <2>1, <4>1, Zenon
      <4>3. (g \o b)[i] = b[i - 1] /\ i - 1 \in DOMAIN b
          BY <1>1, <1>2, <4>1, <4>2
      <4>4. \A k \in DOMAIN b[i - 1].calls : b[i - 1].calls[k].name # "" /\ b[i - 1].calls[k].id # ""
          BY <1>8, <4>3, Zenon DEF Named
      <4> QED BY <4>3, <4>4, Zenon
    <3> QED BY <3>1, <3>2
  <2> QED BY <2>2, Zenon DEF Named
<1> QED BY <1>7, <1>8 DEF g

(* The body for WorkBuddy is paired when the merged history is in time, and  *)
(* its calls are always named.                                               *)
LEMMA WbBodyHolds ==
  ASSUME NEW u, NEW e, NEW f \in Seq(Msg)
  PROVE  /\ InTime(Merge(f)) => Paired(WbBody(u, f, e))
         /\ Named(WbBody(u, f, e))
<1> DEFINE R == Repair(f)
           B == Backfill(u, R, e)
           N == Neutralized(B)
<1>1. R \in Seq(Msg) /\ Named(R) /\ (InTime(Merge(f)) => Paired(R))
    BY RepairNamed, RepairPaired, Zenon
<1>2. WbBody(u, f, e) = SystemFirst(u, N)
    BY Zenon DEF WbBody
<1> HIDE DEF R
<1>3. /\ Thoughtful(R, B)
      /\ SameTraffic(R, B) /\ DOMAIN B = 1 .. Len(R)
    BY <1>1, BackfillTraffic, Zenon
<1>4. DOMAIN R = 1 .. Len(R) /\ Len(R) \in Nat
    BY <1>1, SeqFacts, Zenon
<1> HIDE DEF B
<1>5. SameTraffic(B, N)
    BY <1>3, NeutralTraffic, Zenon
<1>6. N = [i \in DOMAIN N |-> N[i]]
    BY Zenon DEF Neutralized
<1>7. SystemFirst(u, N) = N \/ SystemFirst(u, N) = << Greeting >> \o N
    BY Zenon DEF SystemFirst, Greeting
<1> HIDE DEF N
<1>8. SameTraffic(R, N)
    BY <1>3, <1>5, Zenon DEF SameTraffic
<1>9. Named(N) /\ (InTime(Merge(f)) => Paired(N))
    BY <1>1, <1>4, <1>8, TrafficPaired, Zenon
<1>10. /\ Paired(N) => Paired(<< Greeting >> \o N)
       /\ Named(N) => Named(<< Greeting >> \o N)
    BY <1>1, <1>6, <1>8, GreetingFirst, Zenon
<1> QED BY <1>2, <1>7, <1>9, <1>10, Zenon

-------------------------------------------------------------------------------
(* Reading the requests of the three protocols                               *)

(* The roles, the protocols and the wires.                                   *)
Roles == {"user", "assistant", "tool", "system"}
Protos == {"chat", "anthropic", "responses"}
Wires == Seq([k : Kinds, glue : BOOLEAN])

(* A request as the agents write it. *)
Request(proto, w) == proto \in Protos /\ w \in Wires /\ Len(w) <= MaxPieces /\ Glued(proto, w)

(* What a wire is.                                                           *)
LEMMA WireFacts ==
  ASSUME NEW w \in Wires
  PROVE  Len(w) \in Nat /\ DOMAIN w = 1 .. Len(w) /\ \A i \in 1 .. Len(w) : w[i].k \in Kinds /\ w[i].glue \in BOOLEAN
<1> DEFINE P == [k : Kinds, glue : BOOLEAN]
<1>1. w \in Seq(P)
    BY DEF Wires
<1>2. \A p \in P : p.k \in Kinds /\ p.glue \in BOOLEAN
    BY Zenon
<1> HIDE DEF P
<1>3. Len(w) \in Nat /\ DOMAIN w = 1 .. Len(w) /\ \A i \in 1 .. Len(w) : w[i] \in P
    BY <1>1, SeqFacts, Zenon
<1> QED BY <1>2, <1>3, Zenon

(* A call is the assistant's, a result never is.                             *)
LEMMA SideFacts ==
  ASSUME NEW proto \in Protos, NEW a, a.k \in Kinds
  PROVE  /\ Side(proto, a) \in Roles
         /\ IsCall(a) => Side(proto, a) = "assistant" /\ ~IsResult(a)
         /\ IsResult(a) => Side(proto, a) # "assistant"
         /\ ~IsResult(a) => Side(proto, a) # "tool"
         /\ a.k = "think" => ~IsCall(a) /\ ~IsResult(a)
<1>1. IsCall(a) <=> a.k \in {"call1", "call2", "nameless", "noid"}
    BY DEF IsCall, Calls
<1>2. IsResult(a) <=> a.k \in {"res1", "res2", "void1", "stray"}
    BY DEF IsResult, Results
<1>3. a.k \in {"user", "say", "think", "system", "image"} \/ IsCall(a) \/ IsResult(a)
    BY <1>1, <1>2 DEF Kinds
<1>4. CASE IsCall(a)
    BY <1>1, <1>2, <1>4 DEF Side, Roles
<1>5. CASE IsResult(a)
    BY <1>1, <1>2, <1>5 DEF Side, Roles
<1>6. CASE a.k \in {"user", "say", "think", "system", "image"}
    BY <1>1, <1>2, <1>6 DEF Side, Roles
<1> QED BY <1>3, <1>4, <1>5, <1>6

(* An id read from the wire, or made up for the place, is a word.            *)
LEMMA IdFacts ==
  ASSUME NEW proto, NEW id \in Word, NEW i \in 1 .. MaxPieces
  PROVE  IdOf(proto, id, i) \in Word
<1>1. FreshIds[i] \in Word
  <2> DEFINE S == STRING \ {"", "c1", "c2"}
  <2>1. FreshIds \in Seq(S) /\ Len(FreshIds) >= MaxPieces /\ MaxPieces \in Nat
      BY ConvertAssumption
  <2>2. \A x \in S : x \in Word
      BY DEF Word
  <2> HIDE DEF S
  <2>3. FreshIds[i] \in S
      BY <2>1
  <2> QED BY <2>2, <2>3
<1> QED BY <1>1, Zenon DEF IdOf

(* The places of a wire are within the bound.                                *)
LEMMA PieceNumber ==
  ASSUME NEW w \in Wires, Len(w) <= MaxPieces, NEW i \in 1 .. Len(w)
  PROVE  i \in 1 .. MaxPieces
<1>1. MaxPieces \in Nat
    BY ConvertAssumption
<1>2. Len(w) \in Nat
    BY WireFacts
<1> QED BY <1>1, <1>2

(* A call piece is read as a call.                                           *)
LEMMA CallFacts ==
  ASSUME NEW proto, NEW w \in Wires, Len(w) <= MaxPieces, NEW i \in 1 .. Len(w), IsCall(w[i])
  PROVE  CallOf(proto, w, i) \in CallType
<1> DEFINE k == w[i].k
           c == Calls[k]
<1>1. k \in {"call1", "call2", "nameless", "noid"}
    BY DEF IsCall, Calls
<1>2. c \in CallType
  <2>1. "" \in Word /\ "c1" \in Word /\ "c2" \in Word /\ "Grep" \in Word /\ "Edit" \in Word
      BY DEF Word
  <2>2. \A x, y \in Word : [id |-> x, name |-> y] \in CallType
      BY DEF CallType
  <2>3. CASE k = "call1"
    <3>1. c = [id |-> "c1", name |-> "Grep"]
        BY <2>3 DEF Calls
    <3> QED BY <2>1, <2>2, <3>1, Zenon
  <2>4. CASE k = "call2"
    <3>1. c = [id |-> "c2", name |-> "Edit"]
        BY <2>4 DEF Calls
    <3> QED BY <2>1, <2>2, <3>1, Zenon
  <2>5. CASE k = "nameless"
    <3>1. c = [id |-> "c2", name |-> ""]
        BY <2>5 DEF Calls
    <3> QED BY <2>1, <2>2, <3>1, Zenon
  <2>6. CASE k = "noid"
    <3>1. c = [id |-> "", name |-> "Grep"]
        BY <2>6 DEF Calls
    <3> QED BY <2>1, <2>2, <3>1, Zenon
  <2> QED BY <1>1, <2>3, <2>4, <2>5, <2>6
<1>3. i \in 1 .. MaxPieces
    BY PieceNumber, Zenon
<1> DEFINE d == IdOf(proto, c.id, i)
<1>4. CallOf(proto, w, i) = [c EXCEPT !.id = d]
    BY Zenon DEF CallOf
<1> HIDE DEF c
<1>5. d \in Word
  <2>1. c.id \in Word
      BY <1>2 DEF CallType
  <2> QED BY <1>3, <2>1, IdFacts, Zenon
<1> HIDE DEF d
<1>6. [c EXCEPT !.id = d] \in CallType
    BY <1>2, <1>5 DEF CallType
<1> QED BY <1>4, <1>6

(* A result given its id and its text.                                       *)
LEMMA MsgUpdate2 ==
  ASSUME NEW r \in MsgType, NEW u \in Seq(Int), NEW id \in Word
  PROVE  /\ [r EXCEPT !.for = id, !.text = u] \in MsgType
         /\ [r EXCEPT !.for = id, !.text = u].role = r.role
         /\ [r EXCEPT !.for = id, !.text = u].calls = r.calls
  BY DEF MsgType

(* A result piece is read as a message.                                      *)
LEMMA ResultFacts ==
  ASSUME NEW proto, NEW w \in Wires, Len(w) <= MaxPieces, NEW i \in 1 .. Len(w), IsResult(w[i])
  PROVE  ResultOf(proto, w, i) \in Msg
<1> DEFINE r == Message("tool")
           id == IdOf(proto, Results[w[i].k], i)
           u == IF w[i].k = "void1" THEN <<>> ELSE << i >>
<1>1. r \in Msg /\ r.calls = <<>>
  <2>1. "tool" \in {"user", "assistant", "tool", "system"}
      OBVIOUS
  <2> QED BY <2>1, MessageFacts, Zenon
<1>2. i \in 1 .. MaxPieces
    BY PieceNumber, Zenon
<1>3. id \in Word
  <2>1. w[i].k \in {"res1", "res2", "void1", "stray"}
      BY DEF IsResult, Results
  <2>2. "" \in Word /\ "c1" \in Word /\ "c2" \in Word
      BY DEF Word
  <2>3. Results["res1"] = "c1" /\ Results["res2"] = "c2" /\ Results["void1"] = "c1" /\ Results["stray"] = ""
      BY DEF Results
  <2>4. Results[w[i].k] \in Word
    <3> DEFINE k == w[i].k
    <3>1. k = "res1" \/ k = "res2" \/ k = "void1" \/ k = "stray"
        BY <2>1
    <3> HIDE DEF k
    <3>2. Results[k] \in Word
        BY <2>2, <2>3, <3>1, Zenon
    <3> QED BY <3>2 DEF k
  <2> QED BY <1>2, <2>4, IdFacts, Zenon
<1>4. u \in Seq(Int)
  <2>1. <<>> \in Seq(Int) /\ << i >> \in Seq(Int)
      OBVIOUS
  <2> QED BY <2>1, Zenon
<1>5. ResultOf(proto, w, i) = [r EXCEPT !.for = id, !.text = u]
    BY Zenon DEF ResultOf
<1>6. r \in MsgType
    BY <1>1, Zenon DEF Msg
<1> HIDE DEF r, id, u
<1>7. /\ [r EXCEPT !.for = id, !.text = u] \in MsgType
      /\ [r EXCEPT !.for = id, !.text = u].role = r.role
      /\ [r EXCEPT !.for = id, !.text = u].calls = r.calls
    BY <1>3, <1>4, <1>6, MsgUpdate2
<1> DEFINE q == [r EXCEPT !.for = id, !.text = u]
<1> HIDE DEF MsgType
<1>8. q \in MsgType /\ q.calls = <<>>
    BY <1>1, <1>7
<1> HIDE DEF q
<1>9. q \in Msg
    BY <1>8, Zenon DEF Msg
<1> QED BY <1>5, <1>9 DEF q

(* The positions a .. b, and those of them that are picked. *)
Positions(a, b) == [k \in 1 .. b - a + 1 |-> a + k - 1]

PickedFrom(a, b, K, t) ==
  \A x \in 1 .. Len(t) : \E k \in 1 .. b - a + 1 : k \in K /\ a + k - 1 \in a .. b /\ t[x] = a + k - 1

(* The positions picked are positions between a and b.                       *)
LEMMA PickedFacts ==
  ASSUME NEW a \in Nat, NEW b \in Nat, a <= b, NEW K
  PROVE  Those(Positions(a, b), K) \in Seq(Int) /\ PickedFrom(a, b, K, Those(Positions(a, b), K))
<1> DEFINE s == Positions(a, b)
           n == b - a + 1
           t == Those(s, K)
<1>1. n \in Nat /\ \A k \in 1 .. n : a + k - 1 \in a .. b /\ a + k - 1 \in Int
    OBVIOUS
<1>2. s = [k \in 1 .. n |-> a + k - 1]
    BY Zenon DEF Positions
<1> HIDE DEF n
<1>3. s \in [1 .. n -> Int]
    BY <1>1, <1>2, Zenon
<1> HIDE DEF s
<1>4. s \in Seq(Int) /\ Len(s) = n
    BY <1>1, <1>3
<1>5. \A k \in 1 .. n : s[k] = a + k - 1
    BY <1>2, Zenon
<1>6. s \in Seq(Int)
    BY <1>4
<1>7. /\ Those(s, K) \in Seq(Int)
      /\ \E g \in [1 .. Len(Those(s, K)) -> 1 .. Len(s)] :
           \A x \in 1 .. Len(Those(s, K)) : g[x] \in K /\ Those(s, K)[x] = s[g[x]]
    BY <1>6, ThosePlaces
<1>8. PICK g \in [1 .. Len(t) -> 1 .. Len(s)] : \A x \in 1 .. Len(t) : g[x] \in K /\ t[x] = s[g[x]]
    BY <1>7, Zenon
<1>9. ASSUME NEW x \in 1 .. Len(t) PROVE \E k \in 1 .. n : k \in K /\ a + k - 1 \in a .. b /\ t[x] = a + k - 1
  <2>1. g[x] \in 1 .. n /\ g[x] \in K /\ t[x] = s[g[x]]
      BY <1>4, <1>8, Zenon
  <2>2. t[x] = a + g[x] - 1 /\ a + g[x] - 1 \in a .. b
    <3>1. s[g[x]] = a + g[x] - 1 /\ a + g[x] - 1 \in a .. b
        BY <1>1, <1>5, <2>1, Zenon
    <3> QED BY <2>1, <3>1
  <2> QED BY <2>1, <2>2, Zenon
<1> QED BY <1>7, <1>9 DEF s, t, n, PickedFrom

(* A message given its four fields.                                          *)
Filled(r, t, g, h, c) == [r EXCEPT !.text = t, !.img = g, !.think = h, !.calls = c]

(* It is a message of the same role, with those calls.                       *)
LEMMA MsgUpdate4 ==
  ASSUME NEW r \in MsgType, NEW t \in Seq(Int), NEW g \in BOOLEAN, NEW h \in Seq(Int), NEW c \in Seq(CallType)
  PROVE  /\ Filled(r, t, g, h, c) \in MsgType
         /\ Filled(r, t, g, h, c).role = r.role
         /\ Filled(r, t, g, h, c).calls = c
  BY DEF MsgType, Filled

(* The calls among the pieces a .. b of one message.                         *)
GroupCalls(w, a, b) == Those(Positions(a, b), {k \in 1 .. b - a + 1 : IsCall(w[a + k - 1])})
MadeCalls(proto, w, calls) == [k \in DOMAIN calls |-> CallOf(proto, w, calls[k])]

(* They are read as calls, and there is one only if a piece is one.          *)
LEMMA CallsOfGroup ==
  ASSUME NEW proto, NEW w \in Wires, Len(w) <= MaxPieces, NEW a \in 1 .. Len(w), NEW b \in a .. Len(w)
  PROVE  /\ MadeCalls(proto, w, GroupCalls(w, a, b)) \in Seq(CallType)
         /\ MadeCalls(proto, w, GroupCalls(w, a, b)) # <<>> => \E i \in a .. b : IsCall(w[i])
<1> DEFINE K == {k \in 1 .. b - a + 1 : IsCall(w[a + k - 1])}
           calls == GroupCalls(w, a, b)
           c == MadeCalls(proto, w, calls)
<1>1. a \in Nat /\ b \in Nat /\ a <= b /\ \A i \in a .. b : i \in 1 .. Len(w)
  <2>1. Len(w) \in Nat
      BY WireFacts
  <2> QED BY <2>1
<1>2. calls = Those(Positions(a, b), K)
    BY DEF GroupCalls
<1> HIDE DEF calls
<1>3. /\ calls \in Seq(Int)
      /\ \A x \in 1 .. Len(calls) : \E k \in 1 .. b - a + 1 :
              k \in K /\ a + k - 1 \in a .. b /\ calls[x] = a + k - 1
  <2> HIDE DEF K
  <2>1. Those(Positions(a, b), K) \in Seq(Int) /\ PickedFrom(a, b, K, Those(Positions(a, b), K))
      BY <1>1, PickedFacts, Zenon
  <2> QED BY <1>2, <2>1, Zenon DEF PickedFrom
<1>4. \A x \in 1 .. Len(calls) : calls[x] \in a .. b /\ IsCall(w[calls[x]])
  <2> TAKE x \in 1 .. Len(calls)
  <2>1. PICK k \in 1 .. b - a + 1 : k \in K /\ a + k - 1 \in a .. b /\ calls[x] = a + k - 1
      BY <1>3, Zenon
  <2> QED BY <2>1
<1>5. DOMAIN calls = 1 .. Len(calls) /\ Len(calls) \in Nat
    BY <1>3, SeqFacts, Zenon
<1>6. \A x \in 1 .. Len(calls) : CallOf(proto, w, calls[x]) \in CallType
    BY <1>1, <1>4, CallFacts, Zenon
<1>7. c \in [1 .. Len(calls) -> CallType]
    BY <1>5, <1>6, Zenon DEF MadeCalls
<1> HIDE DEF c
<1>8. c \in Seq(CallType) /\ Len(c) = Len(calls)
    BY <1>5, <1>7, FunSeq, Zenon
<1>9. ASSUME c # <<>> PROVE \E i \in a .. b : IsCall(w[i])
  <2>1. Len(c) # 0
      BY <1>8, <1>9, EmptySeq, Zenon
  <2>2. 1 \in 1 .. Len(calls)
      BY <1>5, <1>8, <2>1
  <2> QED BY <1>4, <2>2, Zenon
<1> QED BY <1>8, <1>9 DEF c, calls

(* The pieces of one side make one message.                                  *)
LEMMA GroupedIn ==
  ASSUME NEW proto, NEW role \in Roles, NEW w \in Wires, Len(w) <= MaxPieces,
         NEW a \in 1 .. Len(w), NEW b \in a .. Len(w),
         (\E i \in a .. b : IsCall(w[i])) => role = "assistant"
  PROVE  Grouped(proto, role, w, a, b) \in Msg /\ Grouped(proto, role, w, a, b).role = role
<1> DEFINE t == Those(Positions(a, b), {k \in 1 .. b - a + 1 : w[a + k - 1].k \in {"user", "say", "system"}})
           h == Those(Positions(a, b), {k \in 1 .. b - a + 1 : w[a + k - 1].k = "think"})
           g == \E i \in a .. b : w[i].k = "image"
           c == MadeCalls(proto, w, GroupCalls(w, a, b))
           r == Message(role)
<1>1. a \in Nat /\ b \in Nat /\ a <= b
  <2>1. Len(w) \in Nat
      BY WireFacts
  <2> QED BY <2>1
<1>2. t \in Seq(Int) /\ h \in Seq(Int)
    BY <1>1, PickedFacts, Zenon
<1>3. g \in BOOLEAN
    BY Zenon
<1>4. c \in Seq(CallType) /\ (c # <<>> => role = "assistant")
  <2>1. c \in Seq(CallType) /\ (c # <<>> => \E i \in a .. b : IsCall(w[i]))
    BY CallsOfGroup, Zenon
  <2> HIDE DEF c
  <2> QED BY <2>1
<1>5. r \in MsgType /\ r.role = role
    BY MessageFacts, Zenon DEF Msg, Roles
<1>6. Grouped(proto, role, w, a, b) = Filled(r, t, g, h, c)
    BY Zenon DEF Grouped, Pick, Positions, Filled, MadeCalls, GroupCalls
<1> HIDE DEF t, h, g, c, r
<1>7. /\ Filled(r, t, g, h, c) \in MsgType
      /\ Filled(r, t, g, h, c).role = r.role
      /\ Filled(r, t, g, h, c).calls = c
    BY <1>2, <1>3, <1>4, <1>5, MsgUpdate4, ZenonT(60)
<1> DEFINE q == Filled(r, t, g, h, c)
<1>8. q \in MsgType /\ q.role = role /\ q.calls = c
    BY <1>5, <1>7
<1> HIDE DEF q
<1>9. q \in Msg
    BY <1>4, <1>8, Zenon DEF Msg
<1> QED BY <1>6, <1>8, <1>9, Zenon DEF q

(* A group ends where the next piece is in a message of its own.             *)
LEMMA GroupEndFacts ==
  ASSUME NEW w \in Wires, NEW a \in 1 .. Len(w)
  PROVE  /\ GroupEnd(w, a) \in a .. Len(w) /\ \A i \in a + 1 .. GroupEnd(w, a) : w[i].glue
         /\ GroupEnd(w, a) = Len(w) \/ ~w[GroupEnd(w, a) + 1].glue
<1> DEFINE n == Len(w)
           Open(e) == \A i \in a + 1 .. e : w[i].glue
           Good(e) == Open(e) /\ (e = n \/ ~w[e + 1].glue)
           T == {d \in Nat : a + d <= n => Open(a + d)}
<1>1. n \in Nat /\ a \in Nat /\ a <= n
  <2>1. Len(w) \in Nat
      BY WireFacts
  <2> QED BY <2>1
<1>2. SUFFICES ASSUME \A e \in a .. n : ~Good(e) PROVE FALSE
    BY Zenon DEF GroupEnd
<1> HIDE DEF n
<1>3. 0 \in T
  <2>1. a + 1 .. a + 0 = {}
      BY <1>1
  <2> QED BY <2>1, Zenon
<1>4. ASSUME NEW d \in Nat, d \in T PROVE d + 1 \in T
  <2> SUFFICES ASSUME a + (d + 1) <= n PROVE Open(a + (d + 1))
      OBVIOUS
  <2>1. a + d \in a .. n /\ a + d # n /\ a + (d + 1) = (a + d) + 1 /\ a + d <= n
      BY <1>1
  <2>2. Open(a + d)
      BY <1>4, <2>1
  <2>3. w[a + d + 1].glue
      BY <1>2, <2>1, <2>2, Zenon
  <2>4. \A i \in a + 1 .. a + (d + 1) : i \in a + 1 .. a + d \/ i = a + d + 1
      BY <1>1
  <2> HIDE DEF T
  <2> QED BY <2>2, <2>3, <2>4, Zenon
<1> HIDE DEF T
<1>5. \A d \in Nat : d \in T
    BY <1>3, <1>4, SetInduction, Zenon
<1>6. n - a \in Nat /\ a + (n - a) = n /\ a + (n - a) <= n /\ n \in a .. n
    BY <1>1
<1>7. n - a \in T
    BY <1>5, <1>6
<1> HIDE DEF Open
<1>8. Open(n)
  <2>1. Open(a + (n - a))
      BY <1>6, <1>7 DEF T
  <2> QED BY <1>6, <2>1
<1> QED BY <1>2, <1>6, <1>8, Zenon

(* The pieces of one message are of one side. *)
LEMMA SameSide ==
  ASSUME NEW proto, NEW w \in Wires, Glued(proto, w), NEW a \in 1 .. Len(w), NEW b \in a .. Len(w),
         \A i \in a + 1 .. b : w[i].glue
  PROVE  \A i \in a .. b : Side(proto, w[i]) = Side(proto, w[a])
<1> DEFINE T == {d \in Nat : a + d <= b => Side(proto, w[a + d]) = Side(proto, w[a])}
<1>1. Len(w) \in Nat /\ DOMAIN w = 1 .. Len(w) /\ a \in Nat /\ b \in Nat
  <2>1. Len(w) \in Nat /\ DOMAIN w = 1 .. Len(w)
      BY WireFacts
  <2> QED BY <2>1
<1>2. 0 \in T
  <2>1. a + 0 = a
      BY <1>1
  <2> QED BY <2>1
<1>3. ASSUME NEW d \in Nat, d \in T PROVE d + 1 \in T
  <2> SUFFICES ASSUME a + (d + 1) <= b PROVE Side(proto, w[a + (d + 1)]) = Side(proto, w[a])
      OBVIOUS
  <2> DEFINE j == a + (d + 1)
  <2>1. j \in a + 1 .. b /\ j \in DOMAIN w /\ j - 1 = a + d /\ a + d <= b
      BY <1>1
  <2> HIDE DEF j
  <2>2. MayGlue(proto, w[j - 1], w[j])
      BY <2>1, Zenon DEF Glued
  <2>3. Side(proto, w[j]) = Side(proto, w[j - 1])
      BY <2>2, Zenon DEF MayGlue
  <2>4. Side(proto, w[a + d]) = Side(proto, w[a])
      BY <1>3, <2>1
  <2>5. Side(proto, w[j]) = Side(proto, w[a])
      BY <2>1, <2>3, <2>4
  <2> QED BY <2>5 DEF j
<1> HIDE DEF T
<1>4. \A d \in Nat : d \in T
    BY <1>2, <1>3, SetInduction, Zenon
<1>5. ASSUME NEW i \in a .. b PROVE Side(proto, w[i]) = Side(proto, w[a])
  <2>1. i - a \in Nat /\ a + (i - a) = i /\ a + (i - a) <= b
      BY <1>1
  <2>2. i - a \in T
      BY <1>4, <2>1, Zenon
  <2>3. Side(proto, w[a + (i - a)]) = Side(proto, w[a])
      BY <2>1, <2>2 DEF T
  <2> QED BY <2>1, <2>3
<1> QED BY <1>5

(* A list of messages for each piece joins to a history.                     *)
LEMMA GroupsIn ==
  ASSUME NEW w \in Wires, NEW p, p = [i \in DOMAIN w |-> p[i]], \A i \in 1 .. Len(w) : p[i] \in Seq(Msg)
  PROVE  p \in Seq(Seq(Msg)) /\ Len(p) = Len(w) /\ FlattenSeq(p) \in Seq(Msg)
<1> DEFINE S == Seq(Msg)
<1>1. Len(w) \in Nat /\ DOMAIN w = 1 .. Len(w)
    BY WireFacts
<1>2. \A i \in 1 .. Len(w) : p[i] \in S
    OBVIOUS
<1> HIDE DEF S
<1>3. p \in [1 .. Len(w) -> S]
    BY <1>1, <1>2, Zenon
<1>4. p \in Seq(S) /\ Len(p) = Len(w)
    BY <1>1, <1>3, FunSeq, Zenon
<1> QED BY <1>4, FlatIn, Zenon DEF S

(* A group that has a call is the assistant's.                               *)
LEMMA GroupFacts ==
  ASSUME NEW proto \in Protos, NEW w \in Wires, Len(w) <= MaxPieces, Glued(proto, w), NEW a \in 1 .. Len(w)
  PROVE  /\ GroupEnd(w, a) \in a .. Len(w)
         /\ (\E i \in a .. GroupEnd(w, a) : IsCall(w[i])) => Side(proto, w[a]) = "assistant"
         /\ w[a].k \in Kinds
<1> DEFINE b == GroupEnd(w, a)
<1>1. b \in a .. Len(w) /\ \A i \in a + 1 .. b : w[i].glue
    BY GroupEndFacts, Zenon
<1> HIDE DEF b
<1>2. \A i \in a .. b : Side(proto, w[i]) = Side(proto, w[a])
    BY <1>1, SameSide
<1>3. \A i \in 1 .. Len(w) : w[i].k \in Kinds
    BY WireFacts, Zenon
<1>4. ASSUME NEW i \in a .. b, IsCall(w[i]) PROVE Side(proto, w[a]) = "assistant"
  <2>1. i \in 1 .. Len(w)
    <3>1. Len(w) \in Nat
        BY WireFacts
    <3> QED BY <1>1, <3>1
  <2>2. Side(proto, w[i]) = "assistant"
      BY <1>3, <1>4, <2>1, SideFacts, Zenon
  <2> QED BY <1>2, <2>2, Zenon
<1> QED BY <1>1, <1>3, <1>4, Zenon DEF b

(* A sequence of one member.                                                 *)
LEMMA One ==
  ASSUME NEW S, NEW x \in S
  PROVE  << x >> \in Seq(S)
  OBVIOUS

(* The messages of a Chat Completions request, piece by piece: a message     *)
(* stands where its first piece is.                                          *)
ChatParts(w) ==
  [i \in DOMAIN w |->
     IF w[i].glue THEN <<>>
     ELSE IF IsResult(w[i]) THEN << ResultOf("chat", w, i) >>
     ELSE << Grouped("chat", Side("chat", w[i]), w, i, GroupEnd(w, i)) >>]

(* Reading it joins them to a history.                                       *)
LEMMA ChatIn ==
  ASSUME NEW w, Request("chat", w)
  PROVE  /\ ParseChat(w) = FlattenSeq(ChatParts(w)) /\ ParseChat(w) \in Seq(Msg)
         /\ ChatParts(w) \in Seq(Seq(Msg)) /\ Len(ChatParts(w)) = Len(w)
<1>0. w \in Wires /\ Len(w) <= MaxPieces /\ Glued("chat", w) /\ "chat" \in Protos
    BY DEF Request, Protos
<1> DEFINE p == ChatParts(w)
<1>1. ParseChat(w) = FlattenSeq(p)
    BY Zenon DEF ParseChat, ByGroup, ChatParts
<1>2. DOMAIN w = 1 .. Len(w)
    BY <1>0, WireFacts, Zenon
<1>3. ASSUME NEW i \in 1 .. Len(w) PROVE p[i] \in Seq(Msg)
  <2> DEFINE proto == "chat"
             side == Side(proto, w[i])
             b == GroupEnd(w, i)
  <2>1. proto \in Protos /\ w \in Wires /\ Len(w) <= MaxPieces /\ Glued(proto, w)
      BY <1>0
  <2>2. p[i] = IF w[i].glue THEN <<>> ELSE IF IsResult(w[i]) THEN << ResultOf(proto, w, i) >>
               ELSE << Grouped(proto, side, w, i, b) >>
      BY <1>2, Zenon DEF ChatParts
  <2> HIDE DEF p, proto, b, side
  <2>3. CASE w[i].glue
    <3>1. <<>> \in Seq(Msg)
        OBVIOUS
    <3> QED BY <2>2, <2>3, <3>1, Zenon
  <2>4. CASE ~w[i].glue /\ IsResult(w[i])
    <3>1. ResultOf(proto, w, i) \in Msg
        BY <2>1, <2>4, ResultFacts, Zenon
    <3> QED BY <2>2, <2>4, <3>1, One, Zenon
  <2>5. CASE ~w[i].glue /\ ~IsResult(w[i])
    <3>1. b \in i .. Len(w) /\ ((\E j \in i .. b : IsCall(w[j])) => side = "assistant") /\ w[i].k \in Kinds
        BY <2>1, GroupFacts, Zenon DEF b, side
    <3>2. side \in Roles
        BY <2>1, <3>1, SideFacts, Zenon DEF side
    <3>3. Grouped(proto, side, w, i, b) \in Msg
        BY <2>1, <3>1, <3>2, GroupedIn, Zenon
    <3> QED BY <2>2, <2>5, <3>3, One, Zenon
  <2> QED BY <2>3, <2>4, <2>5
<1>4. p = [i \in DOMAIN w |-> p[i]]
    BY Zenon DEF ChatParts
<1> HIDE DEF p
<1>5. p \in Seq(Seq(Msg)) /\ Len(p) = Len(w) /\ FlattenSeq(p) \in Seq(Msg)
    BY <1>0, <1>3, <1>4, GroupsIn, Zenon
<1> QED BY <1>1, <1>5 DEF p

(* The results among the pieces a .. b of one message.                       *)
GroupResults(w, a, b) == Those(Positions(a, b), {k \in 1 .. b - a + 1 : IsResult(w[a + k - 1])})
MadeResults(proto, w, results) == [k \in DOMAIN results |-> ResultOf(proto, w, results[k])]

(* They are read as messages.                                                *)
LEMMA ResultsOfGroup ==
  ASSUME NEW proto, NEW w \in Wires, Len(w) <= MaxPieces, NEW a \in 1 .. Len(w), NEW b \in a .. Len(w)
  PROVE  MadeResults(proto, w, GroupResults(w, a, b)) \in Seq(Msg)
<1> DEFINE K == {k \in 1 .. b - a + 1 : IsResult(w[a + k - 1])}
           results == GroupResults(w, a, b)
           c == MadeResults(proto, w, results)
<1>1. a \in Nat /\ b \in Nat /\ a <= b /\ \A i \in a .. b : i \in 1 .. Len(w)
  <2>1. Len(w) \in Nat
      BY WireFacts
  <2> QED BY <2>1
<1>2. results = Those(Positions(a, b), K)
    BY DEF GroupResults
<1> HIDE DEF results
<1>3. results \in Seq(Int) /\ PickedFrom(a, b, K, results)
  <2> HIDE DEF K
  <2>1. Those(Positions(a, b), K) \in Seq(Int) /\ PickedFrom(a, b, K, Those(Positions(a, b), K))
      BY <1>1, PickedFacts, Zenon
  <2> QED BY <1>2, <2>1, Zenon
<1>4. \A x \in 1 .. Len(results) : results[x] \in a .. b /\ IsResult(w[results[x]])
  <2> TAKE x \in 1 .. Len(results)
  <2>1. PICK k \in 1 .. b - a + 1 : k \in K /\ a + k - 1 \in a .. b /\ results[x] = a + k - 1
      BY <1>3, Zenon DEF PickedFrom
  <2> QED BY <2>1
<1>5. DOMAIN results = 1 .. Len(results) /\ Len(results) \in Nat
    BY <1>3, SeqFacts, Zenon
<1>6. \A x \in 1 .. Len(results) : ResultOf(proto, w, results[x]) \in Msg
    BY <1>1, <1>4, ResultFacts, Zenon
<1>7. c \in [1 .. Len(results) -> Msg]
    BY <1>5, <1>6, Zenon DEF MadeResults
<1> HIDE DEF c
<1>8. c \in Seq(Msg)
    BY <1>5, <1>7, FunSeq, Zenon
<1> QED BY <1>8 DEF c, results

(* The messages of an Anthropic request, piece by piece: those that a        *)
(* message becomes stand where its first piece is.                           *)
RestOf(w, a, b) == Grouped("anthropic", IF w[a].k = "system" /\ a = 1 THEN "system" ELSE "user", w, a, b)
AnthropicPart(w, a, b) ==
  IF Side("anthropic", w[a]) = "assistant"
  THEN << Grouped("anthropic", "assistant", w, a, b) >>
  ELSE MadeResults("anthropic", w, GroupResults(w, a, b))
       \o (IF NoText(RestOf(w, a, b)) THEN <<>> ELSE << RestOf(w, a, b) >>)
AnthropicParts(w) == [i \in DOMAIN w |-> IF w[i].glue THEN <<>> ELSE AnthropicPart(w, i, GroupEnd(w, i))]

(* Reading it joins them to a history.                                       *)
LEMMA AnthropicIn ==
  ASSUME NEW w, Request("anthropic", w)
  PROVE  /\ ParseAnthropic(w) = FlattenSeq(AnthropicParts(w)) /\ ParseAnthropic(w) \in Seq(Msg)
         /\ AnthropicParts(w) \in Seq(Seq(Msg)) /\ Len(AnthropicParts(w)) = Len(w)
<1>0. w \in Wires /\ Len(w) <= MaxPieces /\ Glued("anthropic", w) /\ "anthropic" \in Protos
    BY DEF Request, Protos
<1> DEFINE p == AnthropicParts(w)
<1>1. ParseAnthropic(w) = FlattenSeq(p)
    BY Zenon DEF ParseAnthropic, ByGroup, Pick, Positions, GroupResults, MadeResults, AnthropicParts, AnthropicPart, RestOf
<1>2. DOMAIN w = 1 .. Len(w)
    BY <1>0, WireFacts, Zenon
<1>3. ASSUME NEW i \in 1 .. Len(w) PROVE p[i] \in Seq(Msg)
  <2> DEFINE proto == "anthropic"
             side == Side(proto, w[i])
             b == GroupEnd(w, i)
             role == IF w[i].k = "system" /\ i = 1 THEN "system" ELSE "user"
             rest == Grouped(proto, role, w, i, b)
             last == IF NoText(rest) THEN <<>> ELSE << rest >>
             made == MadeResults(proto, w, GroupResults(w, i, b))
  <2>1. proto \in Protos /\ w \in Wires /\ Len(w) <= MaxPieces /\ Glued(proto, w)
      BY <1>0
  <2>2. p[i] = IF w[i].glue THEN <<>>
               ELSE IF side = "assistant" THEN << Grouped(proto, "assistant", w, i, b) >> ELSE made \o last
      BY <1>2, Zenon DEF AnthropicParts, AnthropicPart, RestOf
  <2>3. role \in Roles /\ "assistant" \in Roles
      BY DEF Roles
  <2>0. last = <<>> \/ last = << rest >>
      BY Zenon
  <2> HIDE DEF p, proto, b, side, role, rest, last, made
  <2>4. b \in i .. Len(w) /\ ((\E j \in i .. b : IsCall(w[j])) => side = "assistant") /\ w[i].k \in Kinds
      BY <2>1, GroupFacts, Zenon DEF b, side
  <2>5. <<>> \in Seq(Msg)
      OBVIOUS
  <2>6. CASE w[i].glue
      BY <2>2, <2>5, <2>6, Zenon
  <2>7. CASE ~w[i].glue /\ side = "assistant"
    <3>1. Grouped(proto, "assistant", w, i, b) \in Msg
        BY <2>1, <2>3, <2>4, GroupedIn, Zenon
    <3> QED BY <2>2, <2>7, <3>1, One, Zenon
  <2>8. CASE ~w[i].glue /\ side # "assistant"
    <3>1. ~\E j \in i .. b : IsCall(w[j])
        BY <2>4, <2>8, Zenon
    <3>2. rest \in Msg
        BY <2>1, <2>3, <2>4, <3>1, GroupedIn, Zenon DEF rest
    <3>3. last \in Seq(Msg)
        BY <2>0, <2>5, <3>2, One, Zenon
    <3>4. made \in Seq(Msg)
        BY <2>1, <2>4, ResultsOfGroup, Zenon DEF made
    <3>5. made \o last \in Seq(Msg)
        BY <3>3, <3>4
    <3> QED BY <2>2, <2>8, <3>5, Zenon
  <2> QED BY <2>6, <2>7, <2>8
<1>4. p = [i \in DOMAIN w |-> p[i]]
    BY Zenon DEF AnthropicParts
<1> HIDE DEF p
<1>5. p \in Seq(Seq(Msg)) /\ Len(p) = Len(w) /\ FlattenSeq(p) \in Seq(Msg)
    BY <1>0, <1>3, <1>4, GroupsIn, Zenon
<1> QED BY <1>1, <1>5 DEF p

(* What the parser of the Responses protocol holds between two items. *)
Spokesman == {m \in Msg : m.role = "assistant"}
Curs == {<<>>} \cup {<< m >> : m \in Spokesman}
Flow == [out : Seq(Msg), pending : Seq(Msg), think : Seq(Int), cur : Curs]

(* What the fields of that state are.                                        *)
LEMMA FlowFacts ==
  ASSUME NEW s \in Flow
  PROVE  /\ s.out \in Seq(Msg) /\ s.pending \in Seq(Msg) /\ s.think \in Seq(Int)
         /\ s.cur # <<>> => s.cur[1] \in Spokesman
<1>1. s.out \in Seq(Msg) /\ s.pending \in Seq(Msg) /\ s.think \in Seq(Int) /\ s.cur \in Curs
    BY Zenon DEF Flow
<1>2. ASSUME s.cur # <<>> PROVE s.cur[1] \in Spokesman
  <2>1. PICK m \in Spokesman : s.cur = << m >>
      BY <1>1, <1>2, Zenon DEF Curs
  <2> QED BY <2>1
<1> QED BY <1>1, <1>2

(* The message being put together stays the assistant's.                     *)
LEMMA SpokesmanFacts ==
  ASSUME NEW m \in Spokesman
  PROVE  /\ \A k \in Seq(Int) : [m EXCEPT !.think = k] \in Spokesman
         /\ \A c \in CallType : [m EXCEPT !.calls = Append(@, c)] \in Spokesman
         /\ << m >> \in Curs
<1>1. m \in MsgType /\ m.role = "assistant"
    BY Zenon DEF Spokesman, Msg
<1>2. ASSUME NEW k \in Seq(Int) PROVE [m EXCEPT !.think = k] \in Spokesman
  <2>1. [m EXCEPT !.think = k] \in MsgType /\ [m EXCEPT !.think = k].role = m.role
      BY <1>1 DEF MsgType
  <2> QED BY <1>1, <2>1, Zenon DEF Spokesman, Msg
<1>3. ASSUME NEW c \in CallType PROVE [m EXCEPT !.calls = Append(@, c)] \in Spokesman
  <2> DEFINE d == Append(m.calls, c)
  <2>1. d \in Seq(CallType)
    <3>1. m.calls \in Seq(CallType)
        BY <1>1 DEF MsgType
    <3> QED BY <3>1
  <2> HIDE DEF d
  <2>2. [m EXCEPT !.calls = d] \in MsgType /\ [m EXCEPT !.calls = d].role = m.role
      BY <1>1, <2>1 DEF MsgType
  <2>3. [m EXCEPT !.calls = d] \in Spokesman
      BY <1>1, <2>2, Zenon DEF Spokesman, Msg
  <2> QED BY <2>3 DEF d
<1> QED BY <1>2, <1>3, Zenon DEF Curs

(* The state with fields replaced.                                           *)
LEMMA FlowUpdate ==
  ASSUME NEW s \in Flow
  PROVE  /\ \A o \in Seq(Msg), k \in Seq(Int) : [s EXCEPT !.out = o, !.think = k] \in Flow
         /\ \A o \in Seq(Msg), k \in Seq(Int), c \in Curs : [s EXCEPT !.cur = c, !.think = k, !.out = o] \in Flow
         /\ \A o \in Seq(Msg), p \in Seq(Msg) : [s EXCEPT !.out = o, !.pending = p] \in Flow
         /\ \A p \in Seq(Msg) : [s EXCEPT !.pending = p] \in Flow
         /\ \A k \in Seq(Int) : [s EXCEPT !.think = k] \in Flow
         /\ \A c \in Curs : [s EXCEPT !.cur = c] \in Flow
  BY DEF Flow

(* Closing the message being put together, and sending the pending results.  *)
LEMMA FlushIn ==
  ASSUME NEW s \in Flow
  PROVE  FlushAssistant(s) \in Flow /\ FlushResults(s) \in Flow
<1>1. FlushAssistant(s) \in Flow
  <2>1. CASE s.cur = <<>>
      BY <2>1, Zenon DEF FlushAssistant
  <2>2. CASE s.cur # <<>>
    <3> DEFINE o == IF s.cur[1].calls = <<>> THEN s.out ELSE Append(s.out, [s.cur[1] EXCEPT !.think = s.think])
               e == <<>>
    <3>1. s.out \in Seq(Msg) /\ s.think \in Seq(Int) /\ s.cur[1] \in Spokesman
        BY <2>2, FlowFacts, Zenon
    <3>2. [s.cur[1] EXCEPT !.think = s.think] \in Msg
        BY <3>1, SpokesmanFacts, Zenon DEF Spokesman
    <3>3. o \in Seq(Msg)
        BY <3>1, <3>2
    <3>4. FlushAssistant(s) = [s EXCEPT !.cur = e, !.think = e, !.out = o]
        BY <2>2, Zenon DEF FlushAssistant
    <3>5. e \in Seq(Int) /\ e \in Curs
        BY DEF Curs
    <3> HIDE DEF o, e
    <3>6. [s EXCEPT !.cur = e, !.think = e, !.out = o] \in Flow
        BY <3>3, <3>5, FlowUpdate, Zenon
    <3> QED BY <3>4, <3>6, Zenon
  <2> QED BY <2>1, <2>2
<1>2. FlushResults(s) \in Flow
  <2> DEFINE o == s.out \o s.pending
             e == <<>>
  <2>1. o \in Seq(Msg) /\ e \in Seq(Msg)
    <3>1. s.out \in Seq(Msg) /\ s.pending \in Seq(Msg)
        BY FlowFacts, Zenon
    <3> QED BY <3>1
  <2>2. FlushResults(s) = [s EXCEPT !.out = o, !.pending = e]
      BY Zenon DEF FlushResults
  <2> HIDE DEF o, e
  <2>3. [s EXCEPT !.out = o, !.pending = e] \in Flow
      BY <2>1, FlowUpdate, Zenon
  <2> QED BY <2>2, <2>3, Zenon
<1> QED BY <1>1, <1>2

(* Reading one item of a Responses request keeps the type of the state.      *)
LEMMA ItemIn ==
  ASSUME NEW w, Request("responses", w), NEW i \in 1 .. Len(w), NEW s \in Flow
  PROVE  ResponsesStep(s, w, i) \in Flow
<1> DEFINE proto == "responses"
<1>0. w \in Wires /\ Len(w) <= MaxPieces /\ Glued(proto, w) /\ proto \in Protos
    BY DEF Request, Protos
<1>1. w[i].k \in Kinds
    BY <1>0, WireFacts, Zenon
<1>6. /\ IsCall(w[i]) => ~IsResult(w[i])
      /\ w[i].k = "think" => ~IsCall(w[i]) /\ ~IsResult(w[i])
    BY <1>0, <1>1, SideFacts, Zenon
<1>2. CASE w[i].k = "think"
  <2> DEFINE k == Append(s.think, i)
  <2>1. k \in Seq(Int)
    <3>1. s.think \in Seq(Int) /\ i \in Int
        BY FlowFacts
    <3> QED BY <3>1
  <2>2. ResponsesStep(s, w, i) = [s EXCEPT !.think = k]
      BY <1>2, <1>6, Zenon DEF ResponsesStep
  <2> HIDE DEF k
  <2> QED BY <2>1, <2>2, FlowUpdate
<1>3. CASE w[i].k # "think" /\ IsCall(w[i])
  <2> DEFINE t == FlushResults(s)
             cur == IF t.cur = <<>> THEN Message("assistant") ELSE t.cur[1]
             next == IF Calls[w[i].k].name = "" THEN cur ELSE [cur EXCEPT !.calls = Append(@, CallOf(proto, w, i))]
             c == << next >>
  <2>1. t \in Flow
      BY FlushIn, Zenon
  <2>2. cur \in Spokesman
    <3>1. "assistant" \in {"user", "assistant", "tool", "system"}
        OBVIOUS
    <3>2. Message("assistant") \in Spokesman
        BY <3>1, MessageFacts, Zenon DEF Spokesman
    <3> QED BY <2>1, <3>2, FlowFacts, Zenon
  <2>3. CallOf(proto, w, i) \in CallType
      BY <1>0, <1>3, CallFacts, Zenon
  <2> HIDE DEF cur, t
  <2>4. [cur EXCEPT !.calls = Append(@, CallOf(proto, w, i))] \in Spokesman
      BY <2>2, <2>3, SpokesmanFacts
  <2>5. next \in Spokesman
      BY <2>2, <2>4, Zenon
  <2>6. ResponsesStep(s, w, i) = [t EXCEPT !.cur = c]
    <3>1. ResponsesStep(s, w, i) = ResponsesCall(s, w, i)
        BY <1>3, <1>6, Zenon DEF ResponsesStep
    <3>2. ResponsesCall(s, w, i) = [t EXCEPT !.cur = c]
        BY Zenon DEF ResponsesCall, cur, t
    <3> QED BY <3>1, <3>2, Zenon
  <2> HIDE DEF next
  <2>7. c \in Curs
      BY <2>5, SpokesmanFacts, Zenon
  <2> HIDE DEF c
  <2> QED BY <2>1, <2>6, <2>7, FlowUpdate
<1>4. CASE w[i].k # "think" /\ ~IsCall(w[i]) /\ IsResult(w[i])
  <2> DEFINE t == FlushResults(FlushAssistant(s))
             p == << ResultOf(proto, w, i) >>
  <2>1. t \in Flow
      BY FlushIn, Zenon
  <2>2. p \in Seq(Msg)
      BY <1>0, <1>4, ResultFacts, One, Zenon
  <2>3. ResponsesStep(s, w, i) = [t EXCEPT !.pending = p]
      BY <1>4, Zenon DEF ResponsesStep, ResponsesOutput
  <2> HIDE DEF t, p
  <2> QED BY <2>1, <2>2, <2>3, FlowUpdate
<1>5. CASE w[i].k # "think" /\ ~IsCall(w[i]) /\ ~IsResult(w[i])
  <2> DEFINE t == FlushResults(FlushAssistant(s))
             side == Side(proto, w[i])
             m == Grouped(proto, side, w, i, i)
             n == IF m.role = "assistant" THEN [m EXCEPT !.think = t.think] ELSE m
             o == Append(t.out, n)
             e == <<>>
  <2>1. t \in Flow
      BY FlushIn, Zenon
  <2>2. ResponsesStep(s, w, i) = [t EXCEPT !.out = o, !.think = e]
      BY <1>5, Zenon DEF ResponsesStep, ResponsesMessage
  <2> HIDE DEF t
  <2>3. m \in Msg
    <3>1. side \in Roles
        BY <1>0, <1>1, SideFacts, Zenon
    <3>2. i \in i .. Len(w) /\ \A j \in i .. i : j = i
      <4>1. Len(w) \in Nat
          BY <1>0, WireFacts, Zenon
      <4> QED BY <4>1
    <3>3. ~\E j \in i .. i : IsCall(w[j])
        BY <1>5, <3>2, Zenon
    <3> HIDE DEF side
    <3> QED BY <1>0, <3>1, <3>2, <3>3, GroupedIn, Zenon
  <2> HIDE DEF m
  <2>4. t.think \in Seq(Int) /\ t.out \in Seq(Msg)
      BY <2>1, FlowFacts, Zenon
  <2>5. n \in Msg
    <3>1. ASSUME m.role = "assistant" PROVE [m EXCEPT !.think = t.think] \in Msg
      <4>1. m \in Spokesman
          BY <2>3, <3>1, Zenon DEF Spokesman
      <4>2. [m EXCEPT !.think = t.think] \in Spokesman
          BY <2>4, <4>1, SpokesmanFacts, Zenon
      <4> QED BY <4>2 DEF Spokesman
    <3> QED BY <2>3, <3>1, Zenon
  <2> HIDE DEF n
  <2>6. o \in Seq(Msg)
      BY <2>4, <2>5
  <2>7. e \in Seq(Int)
      OBVIOUS
  <2> HIDE DEF o, e
  <2>8. [t EXCEPT !.out = o, !.think = e] \in Flow
      BY <2>1, <2>6, <2>7, FlowUpdate, Zenon
  <2> QED BY <2>2, <2>8, Zenon
<1> QED BY <1>2, <1>3, <1>4, <1>5

(* The states between the items of w.                                        *)
FlowIs(w, g) == g = [n \in 0 .. Len(w) |-> IF n = 0 THEN NothingYet ELSE ResponsesStep(g[n - 1], w, n)]
Flowing(w) == CHOOSE g : FlowIs(w, g)

(* They exist, and the parser returns what the last one holds.               *)
LEMMA FlowingFacts ==
  ASSUME NEW w, Request("responses", w)
  PROVE  /\ ParseResponses(w) = FlushResults(FlushAssistant(Flowing(w)[Len(w)])).out
         /\ \A n \in 0 .. Len(w) : Flowing(w)[n] \in Flow
         /\ Flowing(w)[0] = NothingYet
         /\ \A n \in 1 .. Len(w) : Flowing(w)[n] = ResponsesStep(Flowing(w)[n - 1], w, n)
<1> DEFINE N == Len(w)
           F == [n \in 1 .. N |-> [s \in Flow |-> ResponsesStep(s, w, n)]]
<1>1. N \in Nat
  <2>1. w \in Wires
      BY Zenon DEF Request
  <2> QED BY <2>1, WireFacts, Zenon
<1>0. NothingYet \in Flow
  <2>1. <<>> \in Seq(Msg) /\ <<>> \in Seq(Int) /\ <<>> \in Curs
      BY DEF Curs
  <2> QED BY <2>1 DEF NothingYet, Flow
<1>2. \A n \in 1 .. N : \A s \in Flow : F[n][s] = ResponsesStep(s, w, n) /\ F[n][s] \in Flow
    BY ItemIn, Zenon
<1> HIDE DEF N, F
<1>3. \A n \in 1 .. N : \A s \in Flow : F[n][s] \in Flow
    BY <1>2, Zenon
<1>4. PICK g \in [0 .. N -> Flow] : RecIs(NothingYet, F, N, g)
    BY <1>0, <1>1, <1>3, RecExists, Zenon
<1>5. FlowIs(w, g)
  <2>1. g = [n \in 0 .. N |-> IF n = 0 THEN NothingYet ELSE F[n][g[n - 1]]]
      BY <1>4, Zenon DEF RecIs
  <2>2. \A n \in 0 .. N : n # 0 => n \in 1 .. N /\ n - 1 \in 0 .. N
      BY <1>1
  <2>3. \A n \in 0 .. N : n # 0 => F[n][g[n - 1]] = ResponsesStep(g[n - 1], w, n)
      BY <1>2, <1>4, <2>2, Zenon
  <2>4. g = [n \in 0 .. N |-> IF n = 0 THEN NothingYet ELSE ResponsesStep(g[n - 1], w, n)]
      BY <2>1, <2>3, Zenon
  <2> QED BY <2>4, Zenon DEF FlowIs, N
<1>6. FlowIs(w, Flowing(w))
    BY <1>5, Zenon DEF Flowing
<1>7. ParseResponses(w) = FlushResults(FlushAssistant(Flowing(w)[Len(w)])).out
    BY Zenon DEF ParseResponses, Flowing, FlowIs
<1> DEFINE c == Flowing(w)
<1>8. c = [n \in 0 .. N |-> IF n = 0 THEN NothingYet ELSE ResponsesStep(c[n - 1], w, n)]
    BY <1>6, Zenon DEF FlowIs, N
<1> HIDE DEF c
<1>9. 0 \in 0 .. N /\ \A n \in 1 .. N : n # 0 /\ n \in 0 .. N
    BY <1>1
<1>10. c[0] = NothingYet /\ \A n \in 1 .. N : c[n] = ResponsesStep(c[n - 1], w, n)
    BY <1>8, <1>9, Zenon
<1> DEFINE I == {n \in Nat : n <= N => c[n] \in Flow}
<1>11. 0 \in I
    BY <1>0, <1>10
<1>12. ASSUME NEW n \in Nat, n \in I PROVE n + 1 \in I
  <2> SUFFICES ASSUME n + 1 <= N PROVE c[n + 1] \in Flow
      OBVIOUS
  <2>1. n <= N /\ n + 1 \in 1 .. N /\ (n + 1) - 1 = n
      BY <1>1
  <2>2. c[n] \in Flow
      BY <1>12, <2>1, Zenon
  <2>3. c[n + 1] = ResponsesStep(c[n], w, n + 1)
      BY <1>10, <2>1
  <2>4. n + 1 \in 1 .. Len(w)
      BY <2>1 DEF N
  <2> QED BY <2>2, <2>3, <2>4, ItemIn, Zenon
<1> HIDE DEF I
<1>13. \A n \in Nat : n \in I
    BY <1>11, <1>12, SetInduction, Zenon
<1>14. \A n \in 0 .. N : c[n] \in Flow
    BY <1>1, <1>13 DEF I
<1> QED BY <1>7, <1>10, <1>14 DEF c, N

(* Reading a Responses request gives a history.                              *)
LEMMA ResponsesIn ==
  ASSUME NEW w, Request("responses", w)
  PROVE  ParseResponses(w) \in Seq(Msg)
<1>1. Len(w) \in 0 .. Len(w)
  <2>1. w \in Wires
      BY Zenon DEF Request
  <2>2. Len(w) \in Nat
      BY <2>1, WireFacts, Zenon
  <2> QED BY <2>2
<1>2. Flowing(w)[Len(w)] \in Flow
    BY <1>1, FlowingFacts, Zenon
<1>3. FlushResults(FlushAssistant(Flowing(w)[Len(w)])) \in Flow
    BY <1>2, FlushIn, Zenon
<1> QED BY <1>3, FlowFacts, FlowingFacts, Zenon

(* Reading a request of any protocol gives a history.                        *)
LEMMA ParseIn ==
  ASSUME NEW proto, NEW w, Request(proto, w)
  PROVE  ParseMessages(proto, w) \in Seq(Msg)
<1>1. proto = "chat" \/ proto = "anthropic" \/ proto = "responses"
    BY DEF Request, Protos
<1>2. CASE proto = "chat"
  <2>1. ParseMessages(proto, w) = ParseChat(w)
      BY <1>2 DEF ParseMessages
  <2> QED BY <1>2, <2>1, ChatIn, Zenon
<1>3. CASE proto = "anthropic"
  <2>1. ParseMessages(proto, w) = ParseAnthropic(w)
      BY <1>3 DEF ParseMessages
  <2> QED BY <1>3, <2>1, AnthropicIn, Zenon
<1>4. CASE proto = "responses"
  <2>1. ParseMessages(proto, w) = ParseResponses(w)
      BY <1>4 DEF ParseMessages
  <2> QED BY <1>4, <2>1, ResponsesIn, Zenon
<1> QED BY <1>1, <1>2, <1>3, <1>4

-------------------------------------------------------------------------------
(* The inductive invariant                                                   *)

(* The body sent upstream, as a function of the request.                     *)
Body(u, i, c, switch) ==
  CASE u.kind = "wb"     -> WbBody(u, c, switch = "enabled")
    [] u.kind = "ta3"    -> Ta3Body(u, c, Context(i.tools, i.mode), i.mode)
    [] u.kind = "custom" -> CustomBody(c)

(* The call restored for the agent.                                          *)
Restored(name, keys, ctx, mode) == [called |-> name, keys |-> keys, name |-> RestoreName(name, ctx, mode),
                                    args |-> RestoreKeys(name, keys, ctx, mode)]

(* What holds of the variables from each step on: they are functions of the  *)
(* request and the upstream.                                                 *)
Parsed    == chat = ParseMessages(in.proto, in.wire) /\ ask = Forced(Signals(in.signals), in.forced)
Converted == up \in Upstreams /\ sent = Thinking(up, ask) /\ body = Body(up, in, chat, sent.switch)
Answering == LET ctx == Context(in.tools, in.mode) IN
             \E n \in DOMAIN ctx.out : \E keys \in SUBSET KeysOf(ctx.out[n]) :
               reply = << Restored(ctx.out[n], keys, ctx, in.mode) >>

(* The inductive invariant: the request is one an agent can write, and each  *)
(* later value is what the code computes from it.                            *)
ConvertInv ==
  /\ in \in InputType /\ Request(in.proto, in.wire)
  /\ pc \in {"wire", "refused", "chat", "sent", "replied"}
  /\ pc # "wire" => Parsed
  /\ pc \in {"sent", "replied"} => Converted
  /\ pc = "replied" => Answering

(* A request with its wire replaced.                                         *)
LEMMA InputUpdate ==
  ASSUME NEW i \in InputType, NEW w \in Wires
  PROVE  /\ [i EXCEPT !.wire = w] \in InputType
         /\ [i EXCEPT !.wire = w].proto = i.proto /\ [i EXCEPT !.wire = w].wire = w
  BY DEF InputType, Wires

(* What a request is.                                                        *)
LEMMA InputFacts ==
  ASSUME NEW i \in InputType
  PROVE  /\ i.proto \in Protos /\ i.wire \in Wires /\ i.tools \in Seq(STRING)
         /\ i.mode \in {"hybrid", "strict", "passthrough"} /\ i.signals \in SignalType /\ i.forced \in STRING
  BY Zenon DEF InputType, Protos, Wires

(* Every request to start from is one an agent can write.                    *)
LEMMA ConvertInit == Init => ConvertInv
<1> SUFFICES ASSUME Init PROVE ConvertInv
    OBVIOUS
<1>1. in \in Inputs /\ pc = "wire"
    BY Zenon DEF Init
<1>2. in \in InputType /\ Len(in.wire) <= MaxPieces /\ Glued(in.proto, in.wire)
  <2>1. Inputs \subseteq InputType /\ \A i \in Inputs : Len(i.wire) <= MaxPieces /\ Glued(i.proto, i.wire)
      BY Zenon, ConvertAssumption
  <2> QED BY <1>1, <2>1, Zenon
<1>3. Request(in.proto, in.wire)
    BY <1>2, InputFacts, Zenon DEF Request
<1>4. pc # "refused" /\ pc # "chat" /\ pc # "sent" /\ pc # "replied"
    BY <1>1
<1> QED BY <1>1, <1>2, <1>3, <1>4, Zenon DEF ConvertInv

(* One more piece leaves it so.                                              *)
LEMMA LongerWire ==
  ASSUME NEW proto \in Protos, NEW w, Request(proto, w), NEW k \in Kinds, NEW g \in BOOLEAN,
         NEW v, v = Append(w, [k |-> k, glue |-> g]), Len(v) <= MaxPieces,
         g => w # <<>> /\ MayGlue(proto, Last(w), v[Len(v)])
  PROVE  Request(proto, v)
<1> DEFINE P == [k : Kinds, glue : BOOLEAN]
           p == [k |-> k, glue |-> g]
<1>1. w \in Seq(P) /\ p \in P /\ Glued(proto, w)
    BY DEF Request, Wires
<1>2. p.glue = g
    BY Zenon
<1> HIDE DEF P, p
<1>3. /\ v \in Seq(P) /\ Len(w) \in Nat /\ Len(v) = Len(w) + 1 /\ v[Len(w) + 1] = p
      /\ \A i \in 1 .. Len(w) : v[i] = w[i]
    BY <1>1, AppendProperties DEF p
<1>4. Glued(proto, v)
  <2>1. DOMAIN w = 1 .. Len(w) /\ DOMAIN v = 1 .. Len(v)
      BY <1>1, <1>3, SeqFacts, Zenon
  <2>2. ASSUME NEW i \in DOMAIN v, v[i].glue PROVE i > 1 /\ MayGlue(proto, v[i - 1], v[i])
    <3>1. CASE i \in 1 .. Len(w)
      <4>1. w[i].glue
          BY <1>3, <2>2, <3>1, Zenon
      <4>2. i > 1 /\ MayGlue(proto, w[i - 1], w[i])
          BY <1>1, <2>1, <3>1, <4>1, Zenon DEF Glued
      <4>3. i - 1 \in 1 .. Len(w)
          BY <1>3, <3>1, <4>2
      <4> QED BY <1>3, <3>1, <4>2, <4>3, Zenon
    <3>2. CASE i = Len(w) + 1
      <4>1. g
          BY <1>2, <1>3, <2>2, <3>2, Zenon
      <4>2. w # <<>> /\ MayGlue(proto, Last(w), v[Len(v)])
          BY <4>1, Zenon
      <4>3. Len(w) # 0
          BY <1>1, <4>2, EmptySeq, Zenon
      <4>4. i > 1 /\ i - 1 \in 1 .. Len(w) /\ i - 1 = Len(w) /\ i = Len(v)
          BY <1>3, <3>2, <4>3
      <4>5. v[i - 1] = Last(w)
        <5>1. v[i - 1] = w[i - 1] /\ w[i - 1] = w[Len(w)]
            BY <1>3, <4>4
        <5> QED BY <5>1, Zenon DEF Last
      <4>6. v[i] = v[Len(v)]
          BY <4>4
      <4> QED BY <4>2, <4>4, <4>5, <4>6, Zenon
    <3>3. i \in 1 .. Len(w) \/ i = Len(w) + 1
        BY <1>3, <2>1
    <3> QED BY <3>1, <3>2, <3>3
  <2> QED BY <2>2, Zenon DEF Glued
<1> QED BY <1>3, <1>4, Zenon DEF Request, Wires, P

(* The steps keep the invariant: a piece more,                               *)
LEMMA AddKeeps == ConvertInv /\ Add => ConvertInv'
<1> SUFFICES ASSUME ConvertInv, Add PROVE ConvertInv'
    OBVIOUS
<1>1. in \in InputType /\ Request(in.proto, in.wire)
    BY Zenon DEF ConvertInv
<1>2. pc = "wire" /\ pc' = pc
    BY Zenon DEF Add
<1>3. PICK k \in Usual \cup Rare, g \in BOOLEAN :
        LET w == Append(in.wire, [k |-> k, glue |-> g]) IN
            /\ g => in.wire # <<>> /\ MayGlue(in.proto, Last(in.wire), w[Len(w)])
            /\ Len(w) <= IF \E i \in DOMAIN w : w[i].k \in Rare THEN MaxRare ELSE MaxPieces
            /\ in' = [in EXCEPT !.wire = w]
    BY Zenon DEF Add
<1> DEFINE w == Append(in.wire, [k |-> k, glue |-> g])
           bound == IF \E i \in DOMAIN w : w[i].k \in Rare THEN MaxRare ELSE MaxPieces
<1>4. /\ g => in.wire # <<>> /\ MayGlue(in.proto, Last(in.wire), w[Len(w)])
      /\ Len(w) <= bound /\ in' = [in EXCEPT !.wire = w]
    BY <1>3, Zenon
<1>5. k \in Kinds
  <2>1. Usual \subseteq Kinds /\ Rare \subseteq Kinds
      BY Zenon, ConvertAssumption
  <2> QED BY <2>1, Zenon
<1>6. in.proto \in Protos /\ in.wire \in Wires
    BY <1>1, InputFacts, Zenon
<1>7. w \in Wires /\ Len(w) \in Nat
  <2> DEFINE P == [k : Kinds, glue : BOOLEAN]
             p == [k |-> k, glue |-> g]
  <2>1. in.wire \in Seq(P) /\ p \in P
      BY <1>5, <1>6 DEF Wires
  <2> HIDE DEF P, p
  <2>2. Append(in.wire, p) \in Seq(P) /\ Len(Append(in.wire, p)) \in Nat
      BY <2>1
  <2> QED BY <2>2 DEF Wires, P, p
<1>8. Len(w) <= MaxPieces
  <2>1. MaxPieces \in Nat /\ MaxRare \in 0 .. MaxPieces
      BY Zenon, ConvertAssumption
  <2>2. bound = MaxRare \/ bound = MaxPieces
      BY Zenon
  <2>3. Len(w) <= bound
      BY <1>4
  <2> HIDE DEF bound, w
  <2> QED BY <1>7, <2>1, <2>2, <2>3
<1>9. Request(in.proto, w)
    BY <1>1, <1>4, <1>5, <1>6, <1>8, LongerWire, Zenon
<1> HIDE DEF w
<1>10. in' \in InputType /\ in'.proto = in.proto /\ in'.wire = w
    BY <1>1, <1>4, <1>7, InputUpdate, Zenon
<1>11. Request(in'.proto, in'.wire)
    BY <1>9, <1>10, Zenon
<1>12. pc' \notin {"refused", "chat", "sent", "replied"}
    BY <1>2
<1> QED BY <1>2, <1>10, <1>11, <1>12, Zenon DEF ConvertInv

(* the request read or refused,                                              *)
LEMMA ParseKeeps == ConvertInv /\ Parse => ConvertInv'
<1> SUFFICES ASSUME ConvertInv, Parse PROVE ConvertInv'
    OBVIOUS
<1>1. in \in InputType /\ Request(in.proto, in.wire)
    BY Zenon DEF ConvertInv
<1>2. in' = in /\ Parsed'
    BY Zenon DEF Parse, Parsed
<1>3. pc' = "refused" \/ pc' = "chat"
    BY Zenon DEF Parse
<1>4. pc' \in {"wire", "refused", "chat", "sent", "replied"} /\ pc' \notin {"sent", "replied"}
    BY <1>3
<1> QED BY <1>1, <1>2, <1>4, Zenon DEF ConvertInv

(* the body made for an upstream,                                            *)
LEMMA TransformKeeps == ConvertInv /\ Transform => ConvertInv'
<1> SUFFICES ASSUME ConvertInv, Transform PROVE ConvertInv'
    OBVIOUS
<1>1. in \in InputType /\ Request(in.proto, in.wire) /\ Parsed
  <2>1. pc # "wire"
      BY DEF Transform
  <2> QED BY <2>1, Zenon DEF ConvertInv
<1>2. in' = in /\ chat' = chat /\ ask' = ask /\ pc' = "sent"
    BY Zenon DEF Transform
<1>3. Converted'
    BY <1>2, Zenon DEF Transform, Converted, Body
<1>4. Parsed'
    BY <1>1, <1>2, Zenon DEF Parsed
<1>5. pc' \in {"wire", "refused", "chat", "sent", "replied"} /\ pc' # "replied"
    BY <1>2
<1> QED BY <1>1, <1>2, <1>3, <1>4, <1>5, Zenon DEF ConvertInv

(* a call of the model restored,                                             *)
LEMMA ReplyKeeps == ConvertInv /\ Reply => ConvertInv'
<1> SUFFICES ASSUME ConvertInv, Reply PROVE ConvertInv'
    OBVIOUS
<1>1. in \in InputType /\ Request(in.proto, in.wire) /\ Parsed /\ Converted
  <2>1. pc # "wire" /\ pc \in {"sent", "replied"}
      BY DEF Reply
  <2> QED BY <2>1, Zenon DEF ConvertInv
<1>2. in' = in /\ chat' = chat /\ ask' = ask /\ up' = up /\ body' = body /\ sent' = sent /\ pc' = "replied"
    BY Zenon DEF Reply
<1>3. Parsed' /\ Converted'
    BY <1>1, <1>2, Zenon DEF Parsed, Converted
<1>4. Answering'
    BY <1>2, Zenon DEF Reply, Answering, Restored
<1>5. pc' \in {"wire", "refused", "chat", "sent", "replied"}
    BY <1>2
<1> QED BY <1>1, <1>2, <1>3, <1>4, <1>5, Zenon DEF ConvertInv

(* and nothing.                                                              *)
LEMMA StutterKeeps == ConvertInv /\ UNCHANGED vars => ConvertInv'
  BY Zenon DEF ConvertInv, vars, Parsed, Converted, Answering

(* Every reachable state satisfies the invariant: what is parsed, sent and   *)
(* answered is always a function of a request that an agent can write.       *)
THEOREM ConvertTyping == Spec => []ConvertInv
<1>1. ConvertInv /\ [Next]_vars => ConvertInv'
    BY AddKeeps, ParseKeeps, TransformKeeps, ReplyKeeps, StutterKeeps, Zenon DEF Next
<1> QED BY <1>1, ConvertInit, PTL DEF Spec

-------------------------------------------------------------------------------
(* Thinking: what is asked and what is sent                                  *)

(* What repair returns is paired and named, so is the body made of it,       *)
(* whenever the merged history is in time.                                   *)
LEMMA RepairedIsPairedHolds == ConvertInv => RepairedIsPaired
<1> SUFFICES ASSUME ConvertInv, pc = "sent", up.kind = "wb"
             PROVE  /\ InTime(Merge(chat)) => Paired(body)
                    /\ \A c \in AllCalls(body) : c.name # "" /\ c.id # ""
    BY Zenon DEF RepairedIsPaired
<1>1. Parsed /\ Converted /\ Request(in.proto, in.wire)
  <2>1. pc # "wire" /\ pc \in {"sent", "replied"}
      OBVIOUS
  <2> QED BY <2>1, Zenon DEF ConvertInv
<1>2. chat \in Seq(Msg)
    BY <1>1, ParseIn, Zenon DEF Parsed
<1>3. body = WbBody(up, chat, sent.switch = "enabled")
  <2>1. body = Body(up, in, chat, sent.switch)
      BY <1>1, Zenon DEF Converted
  <2> QED BY <2>1 DEF Body
<1>4. (InTime(Merge(chat)) => Paired(body)) /\ Named(body)
    BY <1>2, <1>3, WbBodyHolds, Zenon
<1>5. ASSUME NEW c \in AllCalls(body) PROVE c.name # "" /\ c.id # ""
    BY <1>4, ZenonT(60) DEF AllCalls, Named
<1> QED BY <1>4, <1>5, Zenon

(* The efforts a request names.                                              *)
Efforts(s) == {s.output, s.effort, s.reasoning} \ {""}

(* What a request that switches thinking off, says nothing, or names an      *)
(* effort asks for.                                                          *)
LEMMA SignalsAsAsked ==
  ASSUME NEW s \in SignalType
  PROVE  /\ s.thinking = "disabled" => Signals(s) = Ask(TRUE, "none")
         /\ s = NoSignals => Signals(s) = Ask(FALSE, "")
         /\ (s.thinking # "disabled" /\ Efforts(s) # {} /\ Efforts(s) \cap OffWords = {}) =>
              /\ Signals(s) = Ask(TRUE, Effort(s)) /\ Effort(s) \in Efforts(s)
              /\ s.output # "" => Effort(s) = s.output
<1>1. s.thinking = "disabled" => Signals(s) = Ask(TRUE, "none")
    BY DEF Signals
<1>2. ASSUME s = NoSignals PROVE Signals(s) = Ask(FALSE, "")
  <2>1. s.thinking = "" /\ s.output = "" /\ s.effort = "" /\ s.reasoning = "" /\ s.enable = ""
      BY <1>2, Zenon DEF NoSignals
  <2>2. Effort(s) = ""
      BY <2>1 DEF Effort
  <2> QED BY <2>1, <2>2 DEF Signals
<1>3. ASSUME s.thinking # "disabled", Efforts(s) # {}, Efforts(s) \cap OffWords = {}
      PROVE  /\ Signals(s) = Ask(TRUE, Effort(s)) /\ Effort(s) \in Efforts(s)
             /\ s.output # "" => Effort(s) = s.output
  <2>1. s.output # "" \/ s.effort # "" \/ s.reasoning # ""
      BY <1>3 DEF Efforts
  <2>2. Effort(s) \in Efforts(s) /\ (s.output # "" => Effort(s) = s.output)
      BY <2>1 DEF Effort, Efforts
  <2>3. Effort(s) # "" /\ Effort(s) # "off" /\ Effort(s) # "disabled"
      BY <1>3, <2>2 DEF OffWords, Efforts
  <2>4. NormalEffort(Effort(s)) = Effort(s)
      BY <2>3 DEF NormalEffort
  <2>5. Signals(s) = Ask(TRUE, Effort(s))
      BY <1>3, <2>3, <2>4 DEF Signals
  <2> QED BY <2>2, <2>5
<1> QED BY <1>1, <1>2, <1>3, Zenon

(* The two fields of what is sent,                                           *)
LEMMA SentFacts == \A s, e : Sent(s, e).switch = s /\ Sent(s, e).effort = e
  BY Zenon DEF Sent

(* and of what is asked.                                                     *)
LEMMA AskFacts == \A b, e : Ask(b, e).on = b /\ Ask(b, e).effort = e
  BY Zenon DEF Ask

(* Thinking off is never sent as on.                                         *)
LEMMA OffIsSent ==
  ASSUME NEW u \in UpstreamType
  PROVE  LET t == Thinking(u, Ask(TRUE, "none")) IN t.switch # "enabled" /\ t.effort \in OffWords \cup {""}
<1> DEFINE a == Ask(TRUE, "none")
<1>1. a.on = TRUE /\ a.effort = "none"
    BY AskFacts, Zenon
<1> HIDE DEF a
<1>2. Thinking(u, a) \in {Sent("", "none"), Sent("disabled", ""), Sent("", "")}
  <2>1. u.kind \in {"wb", "ta3", "custom"}
      BY DEF UpstreamType
  <2>2. CASE u.kind = "wb"
      BY <1>1, <2>2 DEF Thinking, WbThinking, OffWords
  <2>3. CASE u.kind = "ta3"
    <3>1. Ta3Thinking(u, a) \in {Sent("", ""), Sent("disabled", "")}
        BY <1>1 DEF Ta3Thinking, ThinkAnthropic, ThinkOpenAI
    <3> QED BY <2>3, <3>1 DEF Thinking
  <2>4. CASE u.kind = "custom"
      BY <1>1, <2>4 DEF Thinking, CustomThinking
  <2> QED BY <2>1, <2>2, <2>3, <2>4
<1>3. /\ Sent("", "none").switch = "" /\ Sent("", "none").effort = "none"
      /\ Sent("disabled", "").switch = "disabled" /\ Sent("disabled", "").effort = ""
      /\ Sent("", "").switch = "" /\ Sent("", "").effort = ""
    BY SentFacts, Zenon
<1>4. Thinking(u, a).switch # "enabled" /\ Thinking(u, a).effort \in OffWords \cup {""}
  <2>1. \/ Thinking(u, a).switch = "" /\ Thinking(u, a).effort = "none"
        \/ Thinking(u, a).switch = "disabled" /\ Thinking(u, a).effort = ""
        \/ Thinking(u, a).switch = "" /\ Thinking(u, a).effort = ""
      BY <1>2, <1>3, Zenon
  <2> QED BY <2>1 DEF OffWords
<1> QED BY <1>4 DEF a

(* A request that says nothing sends nothing.                                *)
LEMMA NothingIsSent ==
  ASSUME NEW u \in UpstreamType
  PROVE  Thinking(u, Ask(FALSE, "")) = Sent("", "")
<1> DEFINE a == Ask(FALSE, "")
<1>1. ~a.on /\ a.effort = ""
    BY AskFacts, Zenon
<1> HIDE DEF a
<1>2. u.kind \in {"wb", "ta3", "custom"}
    BY DEF UpstreamType
<1>3. Thinking(u, a) = Sent("", "")
    BY <1>1, <1>2 DEF Thinking, WbThinking, OffWords, Ta3Thinking, CustomThinking
<1> QED BY <1>3 DEF a

(* An effort is sent as it is, and never with the switch off.                *)
LEMMA EffortIsSent ==
  ASSUME NEW u \in UpstreamType, NEW e, e \notin OffWords, u.kind # "ta3"
  PROVE  LET t == Thinking(u, Ask(TRUE, e)) IN t.effort = e /\ t.switch # "disabled"
<1> DEFINE a == Ask(TRUE, e)
<1>1. a.on = TRUE /\ a.effort = e
    BY AskFacts, Zenon
<1> HIDE DEF a
<1>2. Thinking(u, a) \in {Sent("", e), Sent("enabled", e)}
  <2>1. u.kind = "wb" \/ u.kind = "custom"
      BY DEF UpstreamType
  <2>2. CASE u.kind = "wb"
      BY <1>1, <2>2 DEF Thinking, WbThinking, OffWords
  <2>3. CASE u.kind = "custom"
      BY <1>1, <2>3 DEF Thinking, CustomThinking
  <2> QED BY <2>1, <2>2, <2>3
<1>3. /\ Sent("", e).switch = "" /\ Sent("", e).effort = e
      /\ Sent("enabled", e).switch = "enabled" /\ Sent("enabled", e).effort = e
    BY SentFacts, Zenon
<1>4. Thinking(u, a).effort = e /\ (Thinking(u, a).switch = "" \/ Thinking(u, a).switch = "enabled")
    BY <1>2, <1>3, Zenon
<1>5. Thinking(u, a).effort = e /\ Thinking(u, a).switch # "disabled"
    BY <1>4
<1> QED BY <1>5 DEF a

(* What is sent about thinking is what the request or the user asks.         *)
LEMMA ThinkingAsAskedHolds == ConvertInv => ThinkingAsAsked
<1> DEFINE s    == in.signals
           free == in.forced \in {"", "passthrough"}
<1> SUFFICES ASSUME ConvertInv, pc = "sent"
             PROVE  /\ (IF free THEN s.thinking = "disabled" ELSE in.forced = "none") =>
                         sent.switch # "enabled" /\ sent.effort \in OffWords \cup {""}
                    /\ (free /\ s = NoSignals) => sent = Sent("", "")
                    /\ (free /\ s.thinking # "disabled" /\ Efforts(s) # {} /\ Efforts(s) \cap OffWords = {} /\ up.kind # "ta3") =>
                         /\ sent.switch # "disabled" /\ sent.effort \in Efforts(s)
                         /\ s.output # "" => sent.effort = s.output
                    /\ (in.forced \notin OffWords /\ ~free /\ up.kind # "ta3") => sent.effort = in.forced
    BY Zenon DEF ThinkingAsAsked, Efforts
<1>1. Parsed /\ Converted
  <2>1. pc # "wire" /\ pc \in {"sent", "replied"}
      OBVIOUS
  <2> QED BY <2>1, Zenon DEF ConvertInv
<1>2. in \in InputType
    BY Zenon DEF ConvertInv
<1>3. s \in SignalType
    BY <1>2, InputFacts, Zenon
<1>4. up \in UpstreamType
  <2>1. Upstreams \subseteq UpstreamType
      BY Zenon, ConvertAssumption
  <2> QED BY <1>1, <2>1, Zenon DEF Converted
<1>5. sent = Thinking(up, Forced(Signals(s), in.forced))
    BY <1>1, Zenon DEF Parsed, Converted
<1>6. (free => Forced(Signals(s), in.forced) = Signals(s))
      /\ (~free => Forced(Signals(s), in.forced) = Ask(TRUE, in.forced))
    BY Zenon DEF Forced
<1> HIDE DEF free, s
<1>7. ASSUME IF free THEN s.thinking = "disabled" ELSE in.forced = "none"
      PROVE  sent.switch # "enabled" /\ sent.effort \in OffWords \cup {""}
  <2>1. sent = Thinking(up, Ask(TRUE, "none"))
    <3>1. CASE free
        BY <1>3, <1>5, <1>6, <1>7, <3>1, SignalsAsAsked, Zenon
    <3>2. CASE ~free
        BY <1>5, <1>6, <1>7, <3>2, Zenon
    <3> QED BY <3>1, <3>2
  <2> QED BY <1>4, <2>1, OffIsSent, Zenon
<1>8. ASSUME free, s = NoSignals PROVE sent = Sent("", "")
  <2>1. sent = Thinking(up, Ask(FALSE, ""))
      BY <1>3, <1>5, <1>6, <1>8, SignalsAsAsked, Zenon
  <2> QED BY <1>4, <2>1, NothingIsSent, Zenon
<1>9. ASSUME free, s.thinking # "disabled", Efforts(s) # {}, Efforts(s) \cap OffWords = {}, up.kind # "ta3"
      PROVE  /\ sent.switch # "disabled" /\ sent.effort \in Efforts(s)
             /\ s.output # "" => sent.effort = s.output
  <2>1. sent = Thinking(up, Ask(TRUE, Effort(s))) /\ Effort(s) \in Efforts(s) /\ (s.output # "" => Effort(s) = s.output)
      BY <1>3, <1>5, <1>6, <1>9, SignalsAsAsked, Zenon
  <2>2. Effort(s) \notin OffWords
      BY <1>9, <2>1
  <2>3. sent.effort = Effort(s) /\ sent.switch # "disabled"
      BY <1>4, <1>9, <2>1, <2>2, EffortIsSent, Zenon
  <2> QED BY <2>1, <2>3, Zenon
<1>10. ASSUME in.forced \notin OffWords, ~free, up.kind # "ta3" PROVE sent.effort = in.forced
    BY <1>4, <1>5, <1>6, <1>10, EffortIsSent, Zenon
<1> QED BY <1>7, <1>8, <1>9, <1>10, Zenon

(* Every assistant message of b has a reasoning, or none has, as yes says.   *)
ReasonedIf(b, yes) == \A i \in DOMAIN b : b[i].role = "assistant" => (b[i].rc # "none" <=> yes)

(* Backfilling for the model family that insists adds the reasoning to every *)
(* assistant message or to none.                                             *)
LEMMA BackfillReasons ==
  ASSUME NEW u, u.family = "deepseek", NEW e \in BOOLEAN, NEW f
  PROVE  ReasonedIf(Backfill(u, f, e), e \/ HasTrace(f))
<1> DEFINE yes == e \/ HasTrace(f)
           Fills(m) == /\ m.role = "assistant"
                       /\ \/ u.family = "deepseek" /\ (e \/ HasTrace(f))
                          \/ u.family = "kimi" /\ m.calls # <<>>
           Rc(m)    == CASE m.think # <<>> -> "own"
                         [] m.think = <<>> /\ Fills(m)  -> "blank"
                         [] m.think = <<>> /\ ~Fills(m) -> "none"
           b == Backfill(u, f, e)
<1>1. b = [i \in DOMAIN f |-> Reasoned(f[i], Rc(f[i]))]
    BY Zenon DEF Backfill
<1>2. \A m, z : Reasoned(m, z).role = m.role /\ Reasoned(m, z).rc = z
    BY Zenon DEF Reasoned
<1>3. ASSUME NEW i \in DOMAIN f, f[i].role = "assistant" PROVE Rc(f[i]) # "none" <=> yes
  <2>1. f[i].think # <<>> => HasTrace(f)
      BY Zenon DEF HasTrace
  <2>2. Fills(f[i]) <=> yes
    <3>1. u.family # "kimi"
        OBVIOUS
    <3> QED BY <1>3, <3>1, Zenon
  <2> HIDE DEF Fills
  <2>3. CASE f[i].think # <<>>
    <3>1. Rc(f[i]) = "own"
        BY <2>3
    <3>2. yes
        BY <2>1, <2>3, Zenon
    <3> HIDE DEF yes, Rc
    <3> QED BY <3>1, <3>2
  <2>4. CASE f[i].think = <<>> /\ Fills(f[i])
    <3>1. Rc(f[i]) = "blank"
        BY <2>4
    <3> HIDE DEF yes, Rc
    <3> QED BY <2>2, <2>4, <3>1
  <2>5. CASE f[i].think = <<>> /\ ~Fills(f[i])
    <3>1. Rc(f[i]) = "none"
        BY <2>5
    <3> HIDE DEF yes, Rc
    <3> QED BY <2>2, <2>5, <3>1
  <2> QED BY <2>3, <2>4, <2>5, Zenon
<1> HIDE DEF Rc, yes, b
<1>4. ASSUME NEW i \in DOMAIN b, b[i].role = "assistant" PROVE b[i].rc # "none" <=> yes
  <2>1. i \in DOMAIN f /\ b[i] = Reasoned(f[i], Rc(f[i]))
      BY <1>1, Zenon
  <2> DEFINE r == Reasoned(f[i], Rc(f[i]))
  <2>3. r.role = f[i].role /\ r.rc = Rc(f[i])
      BY <1>2
  <2>4. b[i] = r
      BY <2>1
  <2> HIDE DEF r
  <2>2. f[i].role = "assistant" /\ b[i].rc = Rc(f[i])
      BY <1>4, <2>3, <2>4
  <2> QED BY <1>3, <2>1, <2>2, Zenon
<1>5. ReasonedIf(b, yes)
    BY <1>4, Zenon DEF ReasonedIf
<1> QED BY <1>5 DEF b, yes

(* Neutralising keeps it so,                                                 *)
LEMMA NeutralReasons ==
  ASSUME NEW f, NEW b, Thoughtful(f, b), NEW yes \in BOOLEAN, ReasonedIf(b, yes)
  PROVE  ReasonedIf(Neutralized(b), yes)
<1>0. PICK rc : b = [i \in DOMAIN f |-> Reasoned(f[i], rc[i])]
    BY Zenon DEF Thoughtful
<1> DEFINE N == Neutralized(b)
<1>1. N = [i \in DOMAIN b |-> IF b[i].role = "system" /\ b[i].text # <<>>
                               THEN [b[i] EXCEPT !.text = << Neutral >>] ELSE b[i]]
    BY Zenon DEF Neutralized
<1> HIDE DEF N
<1>2. DOMAIN N = DOMAIN b /\ DOMAIN b = DOMAIN f
    BY <1>0, <1>1, Zenon
<1>3. ASSUME NEW i \in DOMAIN b PROVE b[i].role = N[i].role /\ b[i].rc = N[i].rc
  <2>1. b[i] = Reasoned(f[i], rc[i])
      BY <1>0, <1>2, Zenon
  <2>2. N[i] = b[i] \/ N[i] = [b[i] EXCEPT !.text = << Neutral >>]
      BY <1>1, Zenon
  <2>3. CASE N[i] = b[i]
      BY <2>3, Zenon
  <2>4. CASE N[i] = [b[i] EXCEPT !.text = << Neutral >>]
    <3> DEFINE x == b[i]
    <3>1. x = [role |-> f[i].role, text |-> f[i].text, img |-> f[i].img, think |-> f[i].think,
               calls |-> f[i].calls, for |-> f[i].for, rc |-> rc[i]]
        BY <2>1, Zenon DEF Reasoned
    <3> HIDE DEF x
    <3>2. [x EXCEPT !.text = << Neutral >>].role = x.role
        BY <3>1
    <3>3. [x EXCEPT !.text = << Neutral >>].rc = x.rc
        BY <3>1
    <3>4. N[i] = [x EXCEPT !.text = << Neutral >>]
        BY <2>4 DEF x
    <3> QED BY <3>2, <3>3, <3>4, Zenon DEF x
  <2> QED BY <2>2, <2>3, <2>4
<1>4. ReasonedIf(N, yes)
    BY <1>2, <1>3, Zenon DEF ReasonedIf
<1> QED BY <1>4 DEF N

(* and so does the system message put first.                                 *)
LEMMA GreetingReasons ==
  ASSUME NEW n \in Nat, NEW b, DOMAIN b = 1 .. n, b = [i \in DOMAIN b |-> b[i]], NEW yes \in BOOLEAN, ReasonedIf(b, yes)
  PROVE  ReasonedIf(<< Greeting >> \o b, yes)
<1> DEFINE S == {Greeting} \cup {b[i] : i \in 1 .. n}
           g == << Greeting >>
<1>1. b \in Seq(S) /\ Len(b) = n
  <2>1. b \in [1 .. n -> S]
    <3>1. b = [i \in 1 .. n |-> b[i]]
        BY Zenon
    <3>2. \A i \in 1 .. n : b[i] \in S
        OBVIOUS
    <3> HIDE DEF S
    <3> QED BY <3>1, <3>2, Zenon
  <2> HIDE DEF S
  <2> QED BY <2>1
<1>2. g \in Seq(S) /\ Len(g) = 1 /\ g[1] = Greeting
    OBVIOUS
<1> HIDE DEF S, g
<1>3. g[1].role = "system"
    BY <1>2, GreetingFacts, Zenon
<1>4. /\ g \o b \in Seq(S) /\ Len(g \o b) = 1 + n
      /\ \A i \in 1 .. Len(g) : (g \o b)[i] = g[i]
      /\ \A i \in 1 .. Len(b) : (g \o b)[Len(g) + i] = b[i]
  <2>1. g \in Seq(S) /\ b \in Seq(S)
      BY <1>1, <1>2
  <2>2. /\ g \o b \in Seq(S) /\ Len(g) \in Nat /\ Len(b) \in Nat /\ Len(g \o b) = Len(g) + Len(b)
        /\ \A i \in 1 .. Len(g) : (g \o b)[i] = g[i]
        /\ \A i \in 1 .. Len(b) : (g \o b)[Len(g) + i] = b[i]
      BY <2>1, ConcatFacts
  <2> QED BY <1>1, <1>2, <2>2
<1>5. ASSUME NEW i \in DOMAIN (g \o b), (g \o b)[i].role = "assistant" PROVE (g \o b)[i].rc # "none" <=> yes
  <2>1. i \in 1 .. n + 1
      BY <1>4
  <2>2. i # 1
      BY <1>2, <1>3, <1>4, <1>5
  <2>3. i - 1 \in 1 .. n /\ 1 + (i - 1) = i
      BY <2>1, <2>2
  <2>4. (g \o b)[i] = b[i - 1]
      BY <1>1, <1>2, <1>4, <2>3
  <2> QED BY <1>5, <2>3, <2>4, Zenon DEF ReasonedIf
<1>6. ReasonedIf(g \o b, yes)
    BY <1>5, Zenon DEF ReasonedIf
<1> QED BY <1>6 DEF g

(* So it is in the body for WorkBuddy.                                       *)
LEMMA WbReasons ==
  ASSUME NEW u, u.family = "deepseek", NEW e \in BOOLEAN, NEW f \in Seq(Msg)
  PROVE  ReasonedIf(WbBody(u, f, e), e \/ HasTrace(Repair(f)))
<1> DEFINE R == Repair(f)
           B == Backfill(u, R, e)
           N == Neutralized(B)
           yes == e \/ HasTrace(R)
<1>1. R \in Seq(Msg)
    BY RepairNamed, Zenon
<1>2. WbBody(u, f, e) = SystemFirst(u, N)
    BY Zenon DEF WbBody
<1> HIDE DEF R
<1>3. ReasonedIf(B, yes)
    BY BackfillReasons, Zenon
<1>4. Thoughtful(R, B) /\ DOMAIN B = 1 .. Len(R)
    BY <1>1, BackfillTraffic, ZenonT(60)
<1>5. Len(R) \in Nat
    BY <1>1, SeqFacts, Zenon
<1>6. yes \in BOOLEAN
  <2>1. HasTrace(R) \in BOOLEAN
      BY Zenon DEF HasTrace
  <2> QED BY <2>1, Zenon
<1> HIDE DEF B, yes
<1>7. ReasonedIf(N, yes)
    BY <1>3, <1>4, <1>6, NeutralReasons, Zenon
<1>8. DOMAIN N = 1 .. Len(R) /\ N = [i \in DOMAIN N |-> N[i]]
    BY <1>4, Zenon DEF Neutralized
<1>9. SystemFirst(u, N) = N \/ SystemFirst(u, N) = << Greeting >> \o N
    BY Zenon DEF SystemFirst, Greeting
<1> HIDE DEF N
<1>10. ReasonedIf(<< Greeting >> \o N, yes)
    BY <1>5, <1>6, <1>7, <1>8, GreetingReasons, Zenon
<1>11. ReasonedIf(WbBody(u, f, e), yes)
    BY <1>2, <1>7, <1>9, <1>10, Zenon
<1> QED BY <1>11 DEF yes, R

(* Every body for that family has it in all assistant messages or in none.   *)
LEMMA AllReasonedOrNoneHolds == ConvertInv => AllReasonedOrNone
<1> DEFINE told == {body[i].rc : i \in {j \in DOMAIN body : body[j].role = "assistant"}}
<1> SUFFICES ASSUME ConvertInv, pc = "sent", up.kind = "wb", up.family = "deepseek", "none" \in told
             PROVE  told = {"none"} /\ sent.switch # "enabled"
    BY Zenon DEF AllReasonedOrNone
<1>1. Parsed /\ Converted /\ Request(in.proto, in.wire)
  <2>1. pc # "wire" /\ pc \in {"sent", "replied"}
      OBVIOUS
  <2> QED BY <2>1, Zenon DEF ConvertInv
<1>2. chat \in Seq(Msg)
    BY <1>1, ParseIn, Zenon DEF Parsed
<1> DEFINE e == sent.switch = "enabled"
           yes == e \/ HasTrace(Repair(chat))
<1>3. body = WbBody(up, chat, e)
  <2>1. body = Body(up, in, chat, sent.switch)
      BY <1>1, Zenon DEF Converted
  <2> QED BY <2>1 DEF Body
<1>4. e \in BOOLEAN
    OBVIOUS
<1> HIDE DEF e
<1>5. ReasonedIf(body, yes)
    BY <1>2, <1>3, <1>4, WbReasons, Zenon
<1>6. ~yes
    BY <1>5, Zenon DEF ReasonedIf
<1>7. \A x \in told : x = "none"
    BY <1>5, <1>6, Zenon DEF ReasonedIf
<1>8. ~e
    BY <1>6, Zenon
<1> QED BY <1>7, <1>8, Zenon DEF e

(* What is sent about thinking always is what the request or the user asks,  *)
(* and the assistant messages have all a reasoning or none: the upstream     *)
(* refuses a history with some (chat.py, oai_adapter.py).                    *)
THEOREM ThinkingSentAlways == Spec => []ThinkingSent
<1>1. ConvertInv => ThinkingSent
    BY ThinkingAsAskedHolds, AllReasonedOrNoneHolds, Zenon DEF ThinkingSent
<1> QED BY <1>1, ConvertTyping, PTL

-------------------------------------------------------------------------------
(* Tools in disguise                                                         *)

(* The names a tool may have, the agent's and TA+3's.                        *)
Names == STRING \cup {ToTa3[t] : t \in DOMAIN ToTa3}

(* The table of the agent's tool t, and how the keys of a call of the native *)
(* name a are restored for it.                                               *)
TableOf(t)   == IF t \in DOMAIN ArgsToTa3 THEN ArgsToTa3[t] ELSE << >>
Merged(t, a) == IF t \in DOMAIN ArgsToTa3 THEN Over(Reversed(ArgsToTa3[t]), ArgsFromTa3[a]) ELSE ArgsFromTa3[a]

(* A context of the disguise, as a function.                                 *)
IsCtx(c) == c = [x \in DOMAIN c |-> c[x]] /\ DOMAIN c = {"out", "pass", "restore", "from"}

(* A context after a tool passed through, and after one disguised.           *)
Passing(c, o, p)   == [c EXCEPT !.out = o, !.pass = p]
Taking(c, o, r, f) == [c EXCEPT !.out = o, !.restore = r, !.from = f]

(* The request declares the tool t.                                          *)
Declared(tools, t) == \E i \in DOMAIN tools : tools[i] = t

(* The native name a is restored to a declared tool that is disguised as a.  *)
Stands(tools, c, a) == LET t == c.restore[a] IN Declared(tools, t) /\ t \in DOMAIN ToTa3 /\ ToTa3[t] = a

(* Keys are restored for the tool a native name stands for, and for those of *)
(* the application when it stands for none.                                  *)
FromIs(c) == /\ DOMAIN c.from = DOMAIN ArgsFromTa3
             /\ \A a \in DOMAIN c.from :
                  c.from[a] = IF a \in DOMAIN c.restore THEN Merged(c.restore[a], a) ELSE ArgsFromTa3[a]

(* Every name sent upstream is a declared tool passed through or stands for  *)
(* one. Nothing passed through has a disguise, so the two cannot be mixed    *)
(* up.                                                                       *)
GoodContext(tools, c) ==
  /\ IsCtx(c)
  /\ c.out \in Seq(Names)
  /\ \A t \in c.pass : Declared(tools, t) /\ t \notin DOMAIN ToTa3
  /\ \A a \in DOMAIN c.restore : Stands(tools, c, a)
  /\ FromIs(c)
  /\ \A n \in DOMAIN c.out : c.out[n] \in c.pass \cup DOMAIN c.restore

(* The contexts while the tools are declared one by one.                     *)
ContextIs(tools, mode, n, g) ==
  g = [i \in 0 .. n |-> IF i = 0 THEN NoContext ELSE Declare(g[i - 1], tools[i], mode)]
Contexts(tools, mode) == CHOOSE g : ContextIs(tools, mode, Len(tools), g)

(* They exist, for every list of tools.                                      *)
LEMMA ContextExists ==
  ASSUME NEW tools, NEW mode, NEW N \in Nat
  PROVE  \E g : ContextIs(tools, mode, N, g)
<1> DEFINE I == {n \in Nat : \E g : ContextIs(tools, mode, n, g)}
<1>1. 0 \in I
  <2> DEFINE g == [i \in 0 .. 0 |-> NoContext]
  <2>2. \A i \in 0 .. 0 : i = 0
      OBVIOUS
  <2>3. ContextIs(tools, mode, 0, g)
      BY <2>2, Zenon DEF ContextIs
  <2> QED BY <2>3
<1>2. ASSUME NEW n \in Nat, n \in I PROVE n + 1 \in I
  <2>0. n + 1 \in Nat /\ n \in 0 .. n /\ (n + 1) - 1 = n /\ n + 1 # 0 /\ n + 1 \in 0 .. n + 1
      OBVIOUS
  <2>1. PICK g : ContextIs(tools, mode, n, g)
      BY <1>2, Zenon
  <2> DEFINE h == [i \in 0 .. n + 1 |-> IF i = n + 1 THEN Declare(g[n], tools[i], mode) ELSE g[i]]
  <2>2. \A i \in 0 .. n : i \in 0 .. n + 1 /\ i # n + 1
      OBVIOUS
  <2>3. \A i \in 0 .. n : h[i] = g[i]
      BY <2>2, Zenon
  <2>4. \A i \in 0 .. n + 1 : i \in 0 .. n \/ i = n + 1
      OBVIOUS
  <2>5. \A i \in 0 .. n : i # 0 => i - 1 \in 0 .. n
      OBVIOUS
  <2>8. \A i \in 0 .. n : g[i] = IF i = 0 THEN NoContext ELSE Declare(g[i - 1], tools[i], mode)
      BY <2>1, Zenon DEF ContextIs
  <2>9. h[n + 1] = Declare(g[n], tools[n + 1], mode)
      BY <2>0, Zenon
  <2>12. h = [i \in 0 .. n + 1 |-> h[i]]
      BY Zenon
  <2> HIDE DEF h
  <2>10. ASSUME NEW i \in 0 .. n + 1 PROVE h[i] = IF i = 0 THEN NoContext ELSE Declare(h[i - 1], tools[i], mode)
    <3>1. CASE i \in 0 .. n
        BY <2>3, <2>5, <2>8, <3>1, Zenon
    <3>2. CASE i = n + 1
        BY <2>0, <2>3, <2>9, <3>2, Zenon
    <3> QED BY <2>4, <3>1, <3>2
  <2>11. ContextIs(tools, mode, n + 1, h)
      BY <2>10, <2>12, Zenon DEF ContextIs
  <2> QED BY <2>0, <2>11, Zenon
<1> HIDE DEF I
<1>3. N \in I
    BY <1>1, <1>2, SetInduction, Zenon
<1> QED BY <1>3 DEF I

(* What a context is after a tool passed through,                            *)
LEMMA PassUpdate ==
  ASSUME NEW c, IsCtx(c), NEW o, NEW p, NEW d, d = Passing(c, o, p)
  PROVE  IsCtx(d) /\ d.out = o /\ d.pass = p /\ d.restore = c.restore /\ d.from = c.from
<1>0. c = [x \in DOMAIN c |-> c[x]] /\ DOMAIN c = {"out", "pass", "restore", "from"}
    BY Zenon DEF IsCtx
<1>1. DOMAIN d = {"out", "pass", "restore", "from"} /\ d.out = o /\ d.pass = p /\ d.restore = c.restore /\ d.from = c.from
    BY <1>0 DEF Passing
<1>2. d = [x \in DOMAIN d |-> d[x]]
    BY Zenon DEF Passing
<1>3. IsCtx(d)
    BY <1>1, <1>2, Zenon DEF IsCtx
<1> QED BY <1>1, <1>3, Zenon

(* and after one disguised.                                                  *)
LEMMA TakeUpdate ==
  ASSUME NEW c, IsCtx(c), NEW o, NEW r, NEW f, NEW d, d = Taking(c, o, r, f)
  PROVE  IsCtx(d) /\ d.out = o /\ d.pass = c.pass /\ d.restore = r /\ d.from = f
<1>0. c = [x \in DOMAIN c |-> c[x]] /\ DOMAIN c = {"out", "pass", "restore", "from"}
    BY Zenon DEF IsCtx
<1>1. DOMAIN d = {"out", "pass", "restore", "from"} /\ d.out = o /\ d.pass = c.pass /\ d.restore = r /\ d.from = f
    BY <1>0 DEF Taking
<1>2. d = [x \in DOMAIN d |-> d[x]]
    BY Zenon DEF Taking
<1>3. IsCtx(d)
    BY <1>1, <1>2, Zenon DEF IsCtx
<1> QED BY <1>1, <1>3, Zenon

(* A map reversed over an old one leads each of its values to a key of it,   *)
(* and every other value where the old one does.                             *)
LEMMA ReversedFacts ==
  ASSUME NEW f, NEW old, NEW v
  PROVE  LET g == Over(Reversed(f), old) IN
         /\ v \in Listed(f) \ {Dropped} => v \in DOMAIN g /\ g[v] \in DOMAIN f /\ f[g[v]] = v
         /\ v \notin Listed(f) \ {Dropped} => (v \in DOMAIN g <=> v \in DOMAIN old) /\ (v \in DOMAIN g => g[v] = old[v])
<1> DEFINE r == Reversed(f)
           g == Over(r, old)
<1>1. DOMAIN r = Listed(f) \ {Dropped} /\ \A x \in DOMAIN r : r[x] = CHOOSE k \in DOMAIN f : f[k] = x
    BY Zenon DEF Reversed, Listed
<1> HIDE DEF r
<1>2. DOMAIN g = DOMAIN r \cup DOMAIN old /\ \A x \in DOMAIN g : g[x] = IF x \in DOMAIN r THEN r[x] ELSE old[x]
    BY Zenon DEF Over
<1> HIDE DEF g
<1>3. ASSUME v \in Listed(f) \ {Dropped} PROVE v \in DOMAIN g /\ g[v] \in DOMAIN f /\ f[g[v]] = v
  <2>1. \E k \in DOMAIN f : f[k] = v
      BY <1>3 DEF Listed
  <2> DEFINE w == CHOOSE k \in DOMAIN f : f[k] = v
  <2>2. w \in DOMAIN f /\ f[w] = v
      BY <2>1, Zenon
  <2>3. v \in DOMAIN g /\ g[v] = w
      BY <1>1, <1>2, <1>3, Zenon
  <2> QED BY <2>2, <2>3, Zenon
<1>4. ASSUME v \notin Listed(f) \ {Dropped}
      PROVE  (v \in DOMAIN g <=> v \in DOMAIN old) /\ (v \in DOMAIN g => g[v] = old[v])
    BY <1>1, <1>2, <1>4, Zenon
<1> QED BY <1>3, <1>4, Zenon DEF g, r

(* A name a tool is disguised as has a table of its keys.                    *)
LEMMA TablesThere == \A t \in DOMAIN ToTa3 : ToTa3[t] \in DOMAIN ArgsFromTa3 /\ ToTa3[t] \in DOMAIN NativeKeys
<1>1. DOMAIN ToTa3 = {"Grep", "search", "Read", "SearchReplace", "websearch", "subagent", "spawn_subagent"}
    BY DEF ToTa3
<1>2. /\ ToTa3["Grep"] = "Search" /\ ToTa3["search"] = "Search" /\ ToTa3["Read"] = "Read"
      /\ ToTa3["SearchReplace"] = "Edit" /\ ToTa3["websearch"] = "WebSearch"
      /\ ToTa3["subagent"] = "SubAgent" /\ ToTa3["spawn_subagent"] = "SubAgent"
    BY DEF ToTa3
<1>3. {"Search", "Read", "Edit", "WebSearch", "SubAgent"} = DOMAIN ArgsFromTa3
    BY DEF ArgsFromTa3
<1>4. {"Search", "Read", "Edit", "WebSearch", "SubAgent"} = DOMAIN NativeKeys
    BY DEF NativeKeys
<1> QED BY <1>1, <1>2, <1>3, <1>4

(* Declaring one more tool leaves the context good: when two tools have one  *)
(* native name, name and keys are those of one of them.                      *)
LEMMA DeclareGood ==
  ASSUME NEW tools, NEW c, GoodContext(tools, c), NEW t \in STRING, Declared(tools, t), NEW mode
  PROVE  GoodContext(tools, Declare(c, t, mode))
<1> DEFINE a   == ToTa3[t]
           old == IF a \in DOMAIN c.from THEN c.from[a] ELSE << >>
           r   == With(c.restore, a, t)
           f   == IF t \in DOMAIN ArgsToTa3 THEN With(c.from, a, Over(Reversed(ArgsToTa3[t]), old)) ELSE c.from
           D   == Declare(c, t, mode)
<1>1. /\ IsCtx(c) /\ c.out \in Seq(Names)
      /\ \A x \in c.pass : Declared(tools, x) /\ x \notin DOMAIN ToTa3
      /\ \A x \in DOMAIN c.restore : Stands(tools, c, x)
      /\ FromIs(c)
      /\ \A n \in DOMAIN c.out : c.out[n] \in c.pass \cup DOMAIN c.restore
    BY Zenon DEF GoodContext
<1>2. \/ D = c
      \/ t \notin DOMAIN ToTa3 /\ D = [c EXCEPT !.out = Append(c.out, t), !.pass = c.pass \cup {t}]
      \/ t \in DOMAIN ToTa3 /\ a \notin DOMAIN c.restore /\ D = [c EXCEPT !.out = Append(c.out, a), !.restore = r, !.from = f]
  <2>1. CASE t \notin DOMAIN ToTa3
    <3>1. D = IF mode = "strict" THEN c ELSE [c EXCEPT !.out = Append(@, t), !.pass = @ \cup {t}]
        BY <2>1, Zenon DEF Declare
    <3> QED BY <2>1, <3>1, Zenon
  <2>2. CASE t \in DOMAIN ToTa3 /\ a \in DOMAIN c.restore
    <3>1. D = c
        BY <2>2, Zenon DEF Declare
    <3> QED BY <3>1
  <2>3. CASE t \in DOMAIN ToTa3 /\ a \notin DOMAIN c.restore
    <3>1. D = [c EXCEPT !.out = Append(@, a), !.restore = With(@, a, t),
                        !.from = IF t \in DOMAIN ArgsToTa3 THEN With(@, a, Over(Reversed(ArgsToTa3[t]), old)) ELSE @]
        BY <2>3, Zenon DEF Declare
    <3> QED BY <2>3, <3>1, Zenon
  <2> QED BY <2>1, <2>2, <2>3
<1> HIDE DEF D, old
<1>3. ASSUME NEW x \in Names
      PROVE  Append(c.out, x) \in Seq(Names) /\ \A n \in DOMAIN Append(c.out, x) : (n \in DOMAIN c.out /\ Append(c.out, x)[n] = c.out[n]) \/ Append(c.out, x)[n] = x
  <2> DEFINE o == c.out
  <2>1. o \in Seq(Names)
      BY <1>1
  <2> HIDE DEF o
  <2> QED BY <2>1, AppendProperties DEF o
<1>4. ASSUME D = c PROVE GoodContext(tools, D)
    BY <1>4, Zenon
<1>5. ASSUME t \notin DOMAIN ToTa3 /\ D = [c EXCEPT !.out = Append(c.out, t), !.pass = c.pass \cup {t}]
      PROVE  GoodContext(tools, D)
  <2>2. IsCtx(D) /\ D.out = Append(c.out, t) /\ D.pass = c.pass \cup {t} /\ D.restore = c.restore /\ D.from = c.from
    <3> DEFINE o == Append(c.out, t)
               p == c.pass \cup {t}
    <3>1. D = Passing(c, o, p)
        BY <1>5, Zenon DEF Passing
    <3>2. IsCtx(c)
        BY <1>1
    <3> HIDE DEF o, p
    <3>3. IsCtx(D) /\ D.out = o /\ D.pass = p /\ D.restore = c.restore /\ D.from = c.from
        BY <3>1, <3>2, PassUpdate
    <3> QED BY <3>3, Zenon DEF o, p
  <2>3. t \in Names
      BY DEF Names
  <2>4. D.out \in Seq(Names) /\ \A n \in DOMAIN D.out : (n \in DOMAIN c.out /\ D.out[n] = c.out[n]) \/ D.out[n] = t
      BY <1>3, <2>2, <2>3, Zenon
  <2>5. \A x \in DOMAIN D.restore : Stands(tools, D, x)
      BY <1>1, <2>2, Zenon DEF Stands
  <2>6. \A n \in DOMAIN D.out : D.out[n] \in D.pass \cup DOMAIN D.restore
    <3> SUFFICES ASSUME NEW n \in DOMAIN D.out PROVE D.out[n] \in D.pass \cup DOMAIN D.restore
        OBVIOUS
    <3>1. CASE n \in DOMAIN c.out /\ D.out[n] = c.out[n]
        BY <1>1, <2>2, <3>1, Zenon
    <3>2. CASE D.out[n] = t
        BY <2>2, <3>2, Zenon
    <3> QED BY <2>4, <3>1, <3>2, Zenon
  <2>7. \A x \in D.pass : Declared(tools, x) /\ x \notin DOMAIN ToTa3
      BY <1>1, <1>5, <2>2, Zenon
  <2>8. FromIs(D)
      BY <1>1, <2>2, Zenon DEF FromIs
  <2> QED BY <2>2, <2>4, <2>5, <2>6, <2>7, <2>8, Zenon DEF GoodContext
<1>6. ASSUME t \in DOMAIN ToTa3 /\ a \notin DOMAIN c.restore /\ D = [c EXCEPT !.out = Append(c.out, a), !.restore = r, !.from = f]
      PROVE  GoodContext(tools, D)
  <2>0. \A x \in DOMAIN r : (x = a /\ r[x] = t) \/ (x # a /\ x \in DOMAIN c.restore /\ r[x] = c.restore[x])
    <3>1. r = [x \in DOMAIN c.restore \cup {a} |-> IF x = a THEN t ELSE c.restore[x]]
        BY Zenon DEF With
    <3> HIDE DEF r
    <3> DEFINE D0 == DOMAIN c.restore
    <3> HIDE DEF a, D0
    <3>2. DOMAIN r = D0 \cup {a} /\ \A x \in D0 \cup {a} : r[x] = IF x = a THEN t ELSE c.restore[x]
        BY <3>1, Zenon DEF D0
    <3>3. \A x \in D0 \cup {a} : x = a \/ (x \in D0 /\ x # a)
        BY Zenon
    <3> QED BY <3>2, <3>3, Zenon DEF D0
  <2>9. a \in DOMAIN r /\ DOMAIN c.restore \subseteq DOMAIN r
      BY Zenon DEF With
  <2>10. a \in DOMAIN ArgsFromTa3 /\ DOMAIN c.from = DOMAIN ArgsFromTa3 /\ old = ArgsFromTa3[a]
    <3>1. a \in DOMAIN ArgsFromTa3
        BY <1>6, TablesThere, Zenon
    <3>2. a \in DOMAIN c.from /\ c.from[a] = ArgsFromTa3[a] /\ DOMAIN c.from = DOMAIN ArgsFromTa3
        BY <1>1, <1>6, <3>1, Zenon DEF FromIs
    <3> QED BY <3>1, <3>2, Zenon DEF old
  <2>11. DOMAIN f = DOMAIN ArgsFromTa3 /\ f[a] = Merged(t, a) /\ \A x \in DOMAIN f : x # a => f[x] = c.from[x]
    <3>1. CASE t \in DOMAIN ArgsToTa3
      <4> DEFINE m == Over(Reversed(ArgsToTa3[t]), old)
                 D1 == DOMAIN ArgsFromTa3
      <4>1. m = Merged(t, a)
          BY <2>10, <3>1, Zenon DEF Merged
      <4>2. f = With(c.from, a, m)
          BY <3>1, Zenon
      <4>3. DOMAIN c.from = D1 /\ a \in D1
          BY <2>10
      <4> HIDE DEF m, f, a, D1
      <4>4. f = [x \in D1 \cup {a} |-> IF x = a THEN m ELSE c.from[x]]
          BY <4>2, <4>3, Zenon DEF With
      <4>5. D1 \cup {a} = D1
          BY <4>3
      <4>6. f = [x \in D1 |-> IF x = a THEN m ELSE c.from[x]]
          BY <4>4, <4>5, Zenon
      <4> QED BY <4>1, <4>3, <4>6, Zenon DEF D1
    <3>2. CASE t \notin DOMAIN ArgsToTa3
      <4>1. f = c.from /\ Merged(t, a) = ArgsFromTa3[a]
          BY <3>2, Zenon DEF Merged
      <4>2. c.from[a] = ArgsFromTa3[a]
          BY <1>1, <1>6, <2>10, Zenon DEF FromIs
      <4> QED BY <2>10, <4>1, <4>2, Zenon
    <3> QED BY <3>1, <3>2
  <2>3. a \in Names
      BY <1>6, Zenon DEF Names
  <2> HIDE DEF r, f, a
  <2>2. IsCtx(D) /\ D.out = Append(c.out, a) /\ D.pass = c.pass /\ D.restore = r /\ D.from = f
    <3> DEFINE o == Append(c.out, a)
    <3>1. D = Taking(c, o, r, f)
        BY <1>6, Zenon DEF Taking
    <3>2. IsCtx(c)
        BY <1>1
    <3> HIDE DEF o
    <3>3. IsCtx(D) /\ D.out = o /\ D.pass = c.pass /\ D.restore = r /\ D.from = f
        BY <3>1, <3>2, TakeUpdate
    <3> QED BY <3>3, Zenon DEF o
  <2>4. D.out \in Seq(Names) /\ \A n \in DOMAIN D.out : (n \in DOMAIN c.out /\ D.out[n] = c.out[n]) \/ D.out[n] = a
      BY <1>3, <2>2, <2>3, Zenon
  <2>5. ASSUME NEW x \in DOMAIN D.restore PROVE Stands(tools, D, x)
    <3>1. CASE x = a /\ r[x] = t
      <4>2. ToTa3[t] = a
          BY DEF a
      <4> QED BY <1>6, <2>2, <3>1, <4>2, Zenon DEF Stands
    <3>2. CASE x # a /\ x \in DOMAIN c.restore /\ r[x] = c.restore[x]
      <4> DEFINE s == c.restore[x]
      <4>1. Declared(tools, s) /\ s \in DOMAIN ToTa3 /\ ToTa3[s] = x
          BY <1>1, <3>2, Zenon DEF Stands
      <4> HIDE DEF s
      <4>2. D.restore[x] = s
          BY <2>2, <3>2, Zenon DEF s
      <4> QED BY <4>1, <4>2, Zenon DEF Stands
    <3> QED BY <2>0, <2>2, <3>1, <3>2, Zenon
  <2>6. \A n \in DOMAIN D.out : D.out[n] \in D.pass \cup DOMAIN D.restore
    <3> SUFFICES ASSUME NEW n \in DOMAIN D.out PROVE D.out[n] \in D.pass \cup DOMAIN D.restore
        OBVIOUS
    <3>1. CASE n \in DOMAIN c.out /\ D.out[n] = c.out[n]
        BY <1>1, <2>2, <2>9, <3>1, Zenon
    <3>2. CASE D.out[n] = a
        BY <2>2, <2>9, <3>2, Zenon
    <3> QED BY <2>4, <3>1, <3>2, Zenon
  <2>7. \A x \in D.pass : Declared(tools, x) /\ x \notin DOMAIN ToTa3
      BY <1>1, <2>2, Zenon
  <2>8. FromIs(D)
    <3>1. ASSUME NEW x \in DOMAIN f
          PROVE  f[x] = IF x \in DOMAIN r THEN Merged(r[x], x) ELSE ArgsFromTa3[x]
      <4>1. CASE x = a
          BY <2>0, <2>9, <2>11, <4>1, Zenon
      <4>2. CASE x # a
        <5>1. f[x] = c.from[x] /\ x \in DOMAIN c.from
            BY <2>10, <2>11, <4>2, Zenon
        <5>2. x \in DOMAIN r <=> x \in DOMAIN c.restore
            BY <2>0, <2>9, <4>2, Zenon
        <5>3. x \in DOMAIN r => r[x] = c.restore[x]
            BY <2>0, <4>2, Zenon
        <5> QED BY <1>1, <5>1, <5>2, <5>3, Zenon DEF FromIs
      <4> QED BY <4>1, <4>2
    <3> QED BY <2>2, <2>11, <3>1, Zenon DEF FromIs
  <2> QED BY <2>2, <2>4, <2>5, <2>6, <2>7, <2>8, Zenon DEF GoodContext
<1>7. GoodContext(tools, D)
    BY <1>2, <1>4, <1>5, <1>6, Zenon
<1> QED BY <1>7 DEF D

(* So is the context of no tool,                                             *)
LEMMA NoContextGood ==
  ASSUME NEW tools
  PROVE  GoodContext(tools, NoContext)
<1> DEFINE c == NoContext
           table == ArgsFromTa3
<1> HIDE DEF table
<1>1. c = [out |-> <<>>, pass |-> {}, restore |-> << >>, from |-> table]
    BY DEF NoContext, table
<1>2. c.out = <<>> /\ c.pass = {} /\ c.restore = << >>
    BY Zenon DEF NoContext
<1>3. IsCtx(c)
  <2>1. DOMAIN c = {"out", "pass", "restore", "from"}
      BY <1>1
  <2>2. c = [x \in DOMAIN c |-> c[x]]
      BY <1>1
  <2> QED BY <2>1, <2>2, Zenon DEF IsCtx
<1> HIDE DEF c
<1>4. c.out \in Seq(Names) /\ DOMAIN c.out = {} /\ DOMAIN c.restore = {}
    BY <1>2
<1>5. FromIs(c)
  <2>1. c.from = ArgsFromTa3
      BY <1>1, Zenon DEF table
  <2> QED BY <1>4, <2>1, Zenon DEF FromIs
<1>6. GoodContext(tools, c)
    BY <1>2, <1>3, <1>4, <1>5, Zenon DEF GoodContext
<1> QED BY <1>6 DEF c

(* and that of every list of tools.                                          *)
LEMMA ContextGood ==
  ASSUME NEW tools \in Seq(STRING), NEW mode, mode # "passthrough"
  PROVE  GoodContext(tools, Context(tools, mode))
<1> DEFINE N == Len(tools)
           g == Contexts(tools, mode)
           I == {n \in Nat : n <= N => GoodContext(tools, g[n])}
<1>1. N \in Nat /\ \A n \in 1 .. N : tools[n] \in STRING /\ n \in DOMAIN tools
    OBVIOUS
<1>2. ContextIs(tools, mode, N, g)
    BY <1>1, ContextExists, Zenon DEF Contexts
<1>3. Context(tools, mode) = g[N]
    BY Zenon DEF Context, Contexts, ContextIs
<1> HIDE DEF N, g
<1>4. 0 \in 0 .. N /\ \A n \in 1 .. N : n # 0 /\ n \in 0 .. N
    BY <1>1
<1>5. g[0] = NoContext /\ \A n \in 1 .. N : g[n] = Declare(g[n - 1], tools[n], mode)
    BY <1>2, <1>4, Zenon DEF ContextIs
<1>6. 0 \in I
  <2>1. GoodContext(tools, g[0]) /\ 0 \in Nat
      BY <1>5, NoContextGood, Zenon
  <2> QED BY <2>1, Zenon
<1>7. ASSUME NEW n \in Nat, n \in I PROVE n + 1 \in I
  <2> SUFFICES ASSUME n + 1 <= N PROVE GoodContext(tools, g[n + 1])
      OBVIOUS
  <2>1. n <= N /\ n + 1 \in 1 .. N /\ (n + 1) - 1 = n
      BY <1>1
  <2>2. GoodContext(tools, g[n])
      BY <1>7, <2>1, Zenon
  <2>3. g[n + 1] = Declare(g[n], tools[n + 1], mode)
      BY <1>5, <2>1
  <2>4. tools[n + 1] \in STRING /\ Declared(tools, tools[n + 1])
      BY <1>1, <2>1, Zenon DEF Declared
  <2> QED BY <2>2, <2>3, <2>4, DeclareGood, Zenon
<1> HIDE DEF I
<1>8. N \in I
    BY <1>1, <1>6, <1>7, SetInduction, Zenon
<1>9. GoodContext(tools, g[N])
    BY <1>1, <1>8 DEF I
<1> QED BY <1>3, <1>9, Zenon

(* Without disguise the tools are sent as they are.                          *)
LEMMA PassthroughContext ==
  ASSUME NEW tools
  PROVE  Context(tools, "passthrough").out = tools
<1> DEFINE c == NoContext
           p == {tools[i] : i \in DOMAIN tools}
<1>1. Context(tools, "passthrough") = Passing(c, tools, p)
    BY Zenon DEF Context, Passing
<1>2. IsCtx(c)
    BY NoContextGood, Zenon DEF GoodContext
<1> HIDE DEF c, p
<1>3. Passing(c, tools, p).out = tools
    BY <1>2, PassUpdate
<1> QED BY <1>1, <1>3, Zenon

-------------------------------------------------------------------------------
(* The keys of a call, there and back                                        *)

(* Of no table nothing is listed, and under it every key stays.              *)
LEMMA NoTable == Listed(<< >>) = {} /\ \A k : Through(<< >>, k) = k
<1>1. DOMAIN << >> = {}
    OBVIOUS
<1>2. Listed(<< >>) = {}
    BY <1>1 DEF Listed
<1>3. \A k : Through(<< >>, k) = k
    BY <1>1, Zenon DEF Through
<1> QED BY <1>2, <1>3

(* What the tables of a tool t say of its keys: f is the agent's table, B    *)
(* the application's and N the keys of the native tool. A native key is      *)
(* listed by the agent, or has a name in the application that is no native   *)
(* key when it is sent, or is no key of the agent's table either.            *)
Suited(f, B, N) ==
  /\ Dropped \notin DOMAIN f /\ Dropped \notin N
  /\ \A k \in N : k \in Listed(f) \/ k \in DOMAIN B \/ k \notin DOMAIN f
  /\ \A k \in DOMAIN B : k \in Listed(f) \/ B[k] = Dropped \/ Through(f, B[k]) \notin N
  /\ Through(f, "explore") \notin N

(* The same of the agent's table when its tool is not the one called: each   *)
(* key it has is no native key or keeps its name.                            *)
Strange(f, B, N) == \A x \in DOMAIN f : f[x] = Dropped \/ (x \notin N /\ f[x] \in DOMAIN B) \/ x = f[x]

(* The tables, tool by tool.                                                 *)
LEMMA TablesSuited ==
  ASSUME NEW t \in DOMAIN ToTa3
  PROVE  LET a == ToTa3[t] IN
         Suited(TableOf(t), ArgsFromTa3[a], KeysOf(a)) /\ Strange(TableOf(t), ArgsFromTa3[a], KeysOf(a))
<1> DEFINE a == ToTa3[t]
           f == TableOf(t)
           B == ArgsFromTa3[a]
           N == KeysOf(a)
           P == Suited(f, B, N) /\ Strange(f, B, N)
<1>1. t \in {"Grep", "search", "Read", "SearchReplace", "websearch", "subagent", "spawn_subagent"}
    BY DEF ToTa3
<1>2. /\ ArgsFromTa3["Search"] = [query |-> "pattern"] /\ KeysOf("Search") = {"query", "path"}
      /\ ArgsFromTa3["Read"] = [filepath |-> "path"] /\ KeysOf("Read") = {"filepath"}
    BY DEF ArgsFromTa3, KeysOf, NativeKeys
<1>3. /\ ArgsFromTa3["Edit"] = [filepath |-> "path", oldString |-> "old_text", newString |-> "new_text",
                                replaceAll |-> "replace_all"]
      /\ KeysOf("Edit") = {"filepath", "oldString", "newString", "replaceAll"}
    BY DEF ArgsFromTa3, KeysOf, NativeKeys
<1>4. /\ ArgsFromTa3["WebSearch"] = [searchEngine |-> "engine", maxResults |-> "max_results"]
      /\ KeysOf("WebSearch") = {"query", "searchEngine"}
    BY DEF ArgsFromTa3, KeysOf, NativeKeys
<1>5. /\ ArgsFromTa3["SubAgent"] = [prompt |-> "task_description", description |-> "task_title", subagent_type |-> Dropped]
      /\ KeysOf("SubAgent") = {"prompt", "description", "subagent_type"}
    BY DEF ArgsFromTa3, KeysOf, NativeKeys
<1>6. CASE t = "Grep"
  <2>1. a = "Search" /\ f = [pattern |-> "query", path |-> "path"]
      BY <1>6 DEF ToTa3, TableOf, ArgsToTa3
  <2>2. DOMAIN f = {"pattern", "path"} /\ f["pattern"] = "query" /\ f["path"] = "path"
      BY <2>1
  <2>3. DOMAIN B = {"query"}
        /\ B["query"] = "pattern"
        /\ N = {"query", "path"}
      BY <1>2, <2>1
  <2> HIDE DEF a, f, B, N
  <2>4. Listed(f) = {"path", "query"}
      BY <2>2 DEF Listed
  <2>5. Suited(f, B, N)
      BY <2>2, <2>3, <2>4 DEF Suited, Through, Dropped
  <2>6. Strange(f, B, N)
      BY <2>2, <2>3 DEF Strange, Dropped
  <2> QED BY <2>5, <2>6 DEF a, f, B, N
<1>7. CASE t = "search"
  <2>1. a = "Search" /\ f = [pattern |-> "query"]
      BY <1>7 DEF ToTa3, TableOf, ArgsToTa3
  <2>2. DOMAIN f = {"pattern"} /\ f["pattern"] = "query"
      BY <2>1
  <2>3. DOMAIN B = {"query"}
        /\ B["query"] = "pattern"
        /\ N = {"query", "path"}
      BY <1>2, <2>1
  <2> HIDE DEF a, f, B, N
  <2>4. Listed(f) = {"query"}
      BY <2>2 DEF Listed
  <2>5. Suited(f, B, N)
      BY <2>2, <2>3, <2>4 DEF Suited, Through, Dropped
  <2>6. Strange(f, B, N)
      BY <2>2, <2>3 DEF Strange, Dropped
  <2> QED BY <2>5, <2>6 DEF a, f, B, N
<1>8. CASE t = "Read"
  <2>1. a = "Read" /\ f = [file_path |-> "filepath"]
      BY <1>8 DEF ToTa3, TableOf, ArgsToTa3
  <2>2. DOMAIN f = {"file_path"} /\ f["file_path"] = "filepath"
      BY <2>1
  <2>3. DOMAIN B = {"filepath"}
        /\ B["filepath"] = "path"
        /\ N = {"filepath"}
      BY <1>2, <2>1
  <2> HIDE DEF a, f, B, N
  <2>4. Listed(f) = {"filepath"}
      BY <2>2 DEF Listed
  <2>5. Suited(f, B, N)
      BY <2>2, <2>3, <2>4 DEF Suited, Through, Dropped
  <2>6. Strange(f, B, N)
      BY <2>2, <2>3 DEF Strange, Dropped
  <2> QED BY <2>5, <2>6 DEF a, f, B, N
<1>9. CASE t = "SearchReplace"
  <2>1. a = "Edit" /\ f = [file_path |-> "filepath", old_str |-> "oldString", new_str |-> "newString"]
      BY <1>9 DEF ToTa3, TableOf, ArgsToTa3
  <2>2. DOMAIN f = {"file_path", "old_str", "new_str"} /\ f["file_path"] = "filepath" /\ f["old_str"] = "oldString" /\ f["new_str"] = "newString"
      BY <2>1
  <2>3. DOMAIN B = {"filepath", "oldString", "newString", "replaceAll"}
        /\ B["filepath"] = "path" /\ B["oldString"] = "old_text" /\ B["newString"] = "new_text" /\ B["replaceAll"] = "replace_all"
        /\ N = {"filepath", "oldString", "newString", "replaceAll"}
      BY <1>3, <2>1
  <2> HIDE DEF a, f, B, N
  <2>4. Listed(f) = {"filepath", "newString", "oldString"}
      BY <2>2 DEF Listed
  <2>5. Suited(f, B, N)
      BY <2>2, <2>3, <2>4 DEF Suited, Through, Dropped
  <2>6. Strange(f, B, N)
      BY <2>2, <2>3 DEF Strange, Dropped
  <2> QED BY <2>5, <2>6 DEF a, f, B, N
<1>10. CASE t = "websearch"
  <2>1. a = "WebSearch" /\ f = << >>
      BY <1>10 DEF ToTa3, TableOf, ArgsToTa3
  <2>2. DOMAIN f = {}
      BY <2>1
  <2>3. DOMAIN B = {"searchEngine", "maxResults"}
        /\ B["searchEngine"] = "engine" /\ B["maxResults"] = "max_results"
        /\ N = {"query", "searchEngine"}
      BY <1>4, <2>1
  <2> HIDE DEF a, f, B, N
  <2>4. Listed(f) = {}
      BY <2>2 DEF Listed
  <2>5. Suited(f, B, N)
      BY <2>2, <2>3, <2>4 DEF Suited, Through, Dropped
  <2>6. Strange(f, B, N)
      BY <2>2, <2>3 DEF Strange, Dropped
  <2> QED BY <2>5, <2>6 DEF a, f, B, N
<1>11. CASE t = "subagent"
  <2>1. a = "SubAgent" /\ f = [task_description |-> "prompt", task_title |-> "description"]
      BY <1>11 DEF ToTa3, TableOf, ArgsToTa3
  <2>2. DOMAIN f = {"task_description", "task_title"}
        /\ f["task_description"] = "prompt" /\ f["task_title"] = "description"
      BY <2>1
  <2>3. DOMAIN B = {"prompt", "description", "subagent_type"}
        /\ B["prompt"] = "task_description" /\ B["description"] = "task_title" /\ B["subagent_type"] = Dropped
        /\ N = {"prompt", "description", "subagent_type"}
      BY <1>5, <2>1
  <2> HIDE DEF a, f, B, N
  <2>4. Listed(f) = {"description", "prompt"}
      BY <2>2 DEF Listed
  <2>5. Suited(f, B, N)
      BY <2>2, <2>3, <2>4 DEF Suited, Through, Dropped
  <2>6. Strange(f, B, N)
      BY <2>2, <2>3 DEF Strange, Dropped
  <2> QED BY <2>5, <2>6 DEF a, f, B, N
<1>12. CASE t = "spawn_subagent"
  <2>1. a = "SubAgent" /\ f = [task_description |-> "prompt", task_title |-> "description",
                                  acceptance_criteria |-> Dropped, explore |-> Dropped]
      BY <1>12 DEF ToTa3, TableOf, ArgsToTa3
  <2>2. DOMAIN f = {"task_description", "task_title", "acceptance_criteria", "explore"}
        /\ f["task_description"] = "prompt" /\ f["task_title"] = "description"
        /\ f["acceptance_criteria"] = Dropped /\ f["explore"] = Dropped
      BY <2>1
  <2>3. DOMAIN B = {"prompt", "description", "subagent_type"}
        /\ B["prompt"] = "task_description" /\ B["description"] = "task_title" /\ B["subagent_type"] = Dropped
        /\ N = {"prompt", "description", "subagent_type"}
      BY <1>5, <2>1
  <2> HIDE DEF a, f, B, N
  <2>4. Listed(f) = {Dropped, "description", "prompt"}
      BY <2>2 DEF Listed
  <2>5. Suited(f, B, N)
      BY <2>2, <2>3, <2>4 DEF Suited, Through, Dropped
  <2>6. Strange(f, B, N)
      BY <2>2, <2>3 DEF Strange, Dropped
  <2> QED BY <2>5, <2>6 DEF a, f, B, N
<1>13. P
    BY <1>1, <1>6, <1>7, <1>8, <1>9, <1>10, <1>11, <1>12
<1> QED BY <1>13

(* No name the application gives to a native key is a native key itself.     *)
LEMMA NamesApart ==
  ASSUME NEW a \in DOMAIN ArgsFromTa3
  PROVE  /\ \A k \in DOMAIN ArgsFromTa3[a] : ArgsFromTa3[a][k] \notin KeysOf(a)
         /\ "explore" \notin KeysOf(a) /\ Dropped \notin KeysOf(a)
<1>1. a \in {"Search", "Read", "Edit", "WebSearch", "SubAgent"}
    BY DEF ArgsFromTa3
<1>2. CASE a = "Search"
    BY <1>2 DEF ArgsFromTa3, KeysOf, NativeKeys, Dropped
<1>3. CASE a = "Read"
    BY <1>3 DEF ArgsFromTa3, KeysOf, NativeKeys, Dropped
<1>4. CASE a = "Edit"
    BY <1>4 DEF ArgsFromTa3, KeysOf, NativeKeys, Dropped
<1>5. CASE a = "WebSearch"
    BY <1>5 DEF ArgsFromTa3, KeysOf, NativeKeys, Dropped
<1>6. CASE a = "SubAgent"
  <2> DEFINE B == ArgsFromTa3[a]
             N == KeysOf(a)
  <2>1. B = [prompt |-> "task_description", description |-> "task_title", subagent_type |-> Dropped]
      BY <1>6 DEF ArgsFromTa3
  <2>2. N = {"prompt", "description", "subagent_type"}
      BY <1>6 DEF KeysOf, NativeKeys
  <2>3. DOMAIN B = {"prompt", "description", "subagent_type"}
        /\ B["prompt"] = "task_description" /\ B["description"] = "task_title" /\ B["subagent_type"] = Dropped
      BY <2>1
  <2> HIDE DEF B, N
  <2>4. (\A k \in DOMAIN B : B[k] \notin N) /\ "explore" \notin N /\ Dropped \notin N
      BY <2>2, <2>3 DEF Dropped
  <2> QED BY <2>4 DEF B, N
<1> QED BY <1>1, <1>2, <1>3, <1>4, <1>5, <1>6

(* How the key v is restored for a tool t disguised as a.                    *)
LEMMA MergedFacts ==
  ASSUME NEW t, NEW a, NEW v
  PROVE  LET f == TableOf(t)
             g == Merged(t, a)
             B == ArgsFromTa3[a]
         IN  /\ v \in Listed(f) \ {Dropped} => v \in DOMAIN g /\ g[v] \in DOMAIN f /\ f[g[v]] = v
             /\ v \notin Listed(f) \ {Dropped} => (v \in DOMAIN g <=> v \in DOMAIN B) /\ (v \in DOMAIN g => g[v] = B[v])
<1> DEFINE f == TableOf(t)
           g == Merged(t, a)
           B == ArgsFromTa3[a]
<1>1. CASE t \in DOMAIN ArgsToTa3
  <2>1. g = Over(Reversed(f), B)
      BY <1>1, Zenon DEF Merged, TableOf
  <2> HIDE DEF f, g, B
  <2>2. /\ v \in Listed(f) \ {Dropped} => v \in DOMAIN g /\ g[v] \in DOMAIN f /\ f[g[v]] = v
        /\ v \notin Listed(f) \ {Dropped} => (v \in DOMAIN g <=> v \in DOMAIN B) /\ (v \in DOMAIN g => g[v] = B[v])
    <3> DEFINE h == Over(Reversed(f), B)
    <3>1. /\ v \in Listed(f) \ {Dropped} => v \in DOMAIN h /\ h[v] \in DOMAIN f /\ f[h[v]] = v
          /\ v \notin Listed(f) \ {Dropped} => (v \in DOMAIN h <=> v \in DOMAIN B) /\ (v \in DOMAIN h => h[v] = B[v])
        BY ReversedFacts
    <3> HIDE DEF h
    <3>2. g = h
        BY <2>1 DEF h
    <3> QED BY <3>1, <3>2
  <2> QED BY <2>2 DEF f, g, B
<1>2. CASE t \notin DOMAIN ArgsToTa3
  <2>1. g = B /\ f = << >>
      BY <1>2, Zenon DEF Merged, TableOf
  <2>2. Listed(f) = {}
      BY <2>1, NoTable, Zenon
  <2> QED BY <2>1, <2>2, Zenon
<1> QED BY <1>1, <1>2

(* Sending with f undoes restoring with g: all keys of N but those lost are  *)
(* what they were, and neither a key nor one of F turns into another of N.   *)
Undoes(f, g, N, lost, F) ==
  /\ Dropped \notin N
  /\ \A k \in N \ lost : Through(g, k) # Dropped /\ Through(f, Through(g, k)) = k
  /\ \A k \in N : Through(g, k) = Dropped \/ Through(f, Through(g, k)) \notin N \/ Through(f, Through(g, k)) = k
  /\ \A x \in F : Through(f, x) \notin N

(* So it is for the keys of a call, restored with the additional ones of F.  *)
LEMMA ThereAndBack ==
  ASSUME NEW f, NEW g, NEW N, NEW lost, NEW F, Undoes(f, g, N, lost, F), NEW keys \in SUBSET N,
         NEW args, args = Renaming(g, keys) \cup F
  PROVE  keys \ lost \subseteq Renaming(f, args) /\ Renaming(f, args) \cap N \subseteq keys
<1>1. \A y : y \in Renaming(g, keys) <=> y # Dropped /\ \E k \in keys : y = Through(g, k)
    BY DEF Renaming
<1>2. \A y : y \in Renaming(f, args) <=> y # Dropped /\ \E x \in args : y = Through(f, x)
    BY DEF Renaming
<1>3. ASSUME NEW k \in keys \ lost PROVE k \in Renaming(f, args)
  <2>1. k \in N /\ k # Dropped /\ Through(g, k) # Dropped /\ Through(f, Through(g, k)) = k
      BY Zenon DEF Undoes
  <2>2. Through(g, k) \in args
      BY <1>1, <2>1, Zenon
  <2> QED BY <1>2, <2>1, <2>2, Zenon
<1>4. ASSUME NEW y \in Renaming(f, args) \cap N PROVE y \in keys
  <2>1. PICK x \in args : y = Through(f, x)
      BY <1>2, Zenon
  <2>2. x \notin F
      BY <2>1, Zenon DEF Undoes
  <2>3. PICK k \in keys : x # Dropped /\ x = Through(g, k)
      BY <1>1, <2>2, Zenon
  <2>4. k \in N
      BY <2>3, Zenon
  <2>5. y = k
      BY <2>1, <2>3, <2>4, Zenon DEF Undoes
  <2> QED BY <2>3, <2>5
<1> QED BY <1>3, <1>4, Zenon

-------------------------------------------------------------------------------
(* Calls come back                                                           *)

(* CallsComeBack of one call that is restored.                               *)
Comes(tools, mode, r) ==
  LET table == OwnTable(r.name, mode)
      again == DisguiseKeys(r.name, r.args, mode)
  IN  /\ \E i \in DOMAIN tools : tools[i] = r.name
      /\ Disguise(r.name, mode) = r.called
      /\ \A v \in r.keys \cap Listed(table) : \E k \in r.args \cap DOMAIN table : table[k] = v
      /\ r.keys \ Borrowed(r.called, table, mode) \subseteq again
      /\ again \cap KeysOf(r.called) \subseteq r.keys

(* A call comes back when nothing is disguised.                              *)
LEMMA UndisguisedComes ==
  ASSUME NEW tools, NEW n \in DOMAIN tools, NEW keys, NEW ctx
  PROVE  Comes(tools, "passthrough", Restored(tools[n], keys, ctx, "passthrough"))
<1> DEFINE r == Restored(tools[n], keys, ctx, "passthrough")
<1>1. /\ r.called = tools[n] /\ r.keys = keys /\ r.name = RestoreName(tools[n], ctx, "passthrough")
      /\ r.args = RestoreKeys(tools[n], keys, ctx, "passthrough")
    BY Zenon DEF Restored
<1> HIDE DEF r
<1>2. r.name = tools[n] /\ r.args = keys
    BY <1>1, Zenon DEF RestoreName, RestoreKeys
<1>3. Disguise(r.name, "passthrough") = r.called /\ DisguiseKeys(r.name, r.args, "passthrough") = r.keys
    BY <1>1, <1>2, Zenon DEF Disguise, DisguiseKeys
<1> DEFINE table == OwnTable(r.name, "passthrough")
<1>4. Listed(table) = {}
    BY NoTable, Zenon DEF OwnTable
<1> HIDE DEF table
<1>5. \A v \in r.keys \cap Listed(table) : \E k \in r.args \cap DOMAIN table : table[k] = v
    BY <1>4
<1>6. Comes(tools, "passthrough", r)
    BY <1>2, <1>3, <1>5, ZenonT(60) DEF Comes, table
<1> QED BY <1>6 DEF r

(* The names that are passed through                                         *)
LEMMA PassedComes ==
  ASSUME NEW tools, NEW ctx, GoodContext(tools, ctx), NEW mode, mode # "passthrough",
         NEW name \in ctx.pass, NEW keys \in SUBSET KeysOf(name)
  PROVE  Comes(tools, mode, Restored(name, keys, ctx, mode))
<1> DEFINE r == Restored(name, keys, ctx, mode)
           N == KeysOf(name)
<1>1. /\ r.called = name /\ r.keys = keys /\ r.name = RestoreName(name, ctx, mode)
      /\ r.args = RestoreKeys(name, keys, ctx, mode)
    BY Zenon DEF Restored
<1> HIDE DEF r
<1>2. r.name = name
    BY <1>1, Zenon DEF RestoreName
<1>3. Declared(tools, name) /\ name \notin DOMAIN ToTa3
    BY Zenon DEF GoodContext
<1>4. Disguise(r.name, mode) = r.called /\ DisguiseKeys(r.name, r.args, mode) = r.args
    BY <1>1, <1>2, <1>3, Zenon DEF Disguise, DisguiseKeys, Through
<1> DEFINE table == OwnTable(r.name, mode)
<1>5. table = << >> /\ Listed(table) = {}
    BY <1>2, <1>3, NoTable, Zenon DEF OwnTable
<1> HIDE DEF table
<1>6. \A v \in r.keys \cap Listed(table) : \E k \in r.args \cap DOMAIN table : table[k] = v
    BY <1>5
<1>7. DOMAIN ctx.from = DOMAIN ArgsFromTa3
    BY Zenon DEF GoodContext, FromIs
<1>8. r.keys \ Borrowed(name, table, mode) \subseteq r.args /\ r.args \cap N \subseteq r.keys
  <2>1. CASE name \notin DOMAIN ctx.from
    <3>1. r.args = keys
        BY <1>1, <2>1, Zenon DEF RestoreKeys
    <3> QED BY <1>1, <3>1, Zenon
  <2>2. CASE name \in DOMAIN ctx.from
    <3> DEFINE g == ctx.from[name]
               B == ArgsFromTa3[name]
               F == IF name = "SubAgent" THEN SpawnForcedArgs ELSE {}
               lost == Borrowed(name, table, mode)
    <3>1. r.args = Renaming(g, keys) \cup F
        BY <1>1, <2>2, Zenon DEF RestoreKeys
    <3>2. lost = DOMAIN B
        BY <1>5, <1>7, <2>2 DEF Borrowed
    <3>3. \A k \in DOMAIN B : B[k] \notin N
        BY <1>7, <2>2, NamesApart, Zenon
    <3>4. "explore" \notin N /\ Dropped \notin N
        BY <1>7, <2>2, NamesApart, Zenon
    <3>5. \A x \in F : x \notin N
        BY <3>4 DEF SpawnForcedArgs
    <3>6. ASSUME NEW k \in N
          PROVE  (k \notin DOMAIN B => Through(g, k) = k) /\ (Through(g, k) \notin N \/ Through(g, k) = k)
      <4>1. CASE name \notin DOMAIN ctx.restore
        <5>1. g = B
            BY <2>2, <4>1, Zenon DEF GoodContext, FromIs
        <5> HIDE DEF g, B, N
        <5> QED BY <3>3, <5>1, Zenon DEF Through
      <4>2. CASE name \in DOMAIN ctx.restore
        <5> DEFINE s == ctx.restore[name]
                   f == TableOf(s)
        <5>1. g = Merged(s, name) /\ s \in DOMAIN ToTa3 /\ ToTa3[s] = name
            BY <2>2, <4>2, Zenon DEF GoodContext, FromIs, Stands
        <5> HIDE DEF s
        <5>2. Strange(f, B, N)
            BY <5>1, TablesSuited, Zenon
        <5>3. /\ k \in Listed(f) \ {Dropped} => k \in DOMAIN g /\ g[k] \in DOMAIN f /\ f[g[k]] = k
              /\ k \notin Listed(f) \ {Dropped} => (k \in DOMAIN g <=> k \in DOMAIN B) /\ (k \in DOMAIN g => g[k] = B[k])
          <6> DEFINE h == Merged(s, name)
          <6>1. /\ k \in Listed(f) \ {Dropped} => k \in DOMAIN h /\ h[k] \in DOMAIN f /\ f[h[k]] = k
                /\ k \notin Listed(f) \ {Dropped} => (k \in DOMAIN h <=> k \in DOMAIN B) /\ (k \in DOMAIN h => h[k] = B[k])
              BY MergedFacts
          <6>2. g = h
              BY <5>1
          <6> HIDE DEF h, g, f, B
          <6> QED BY <6>1, <6>2
        <5> HIDE DEF f, g, B, N
        <5>4. CASE k \in Listed(f) \ {Dropped}
          <6>1. Through(g, k) = g[k] /\ f[g[k]] = k /\ g[k] \in DOMAIN f
              BY <5>3, <5>4, Zenon DEF Through
          <6>2. k # Dropped
              BY <5>4
          <6>3. f[g[k]] = Dropped \/ (g[k] \notin N /\ f[g[k]] \in DOMAIN B) \/ g[k] = f[g[k]]
              BY <5>2, <6>1, Zenon DEF Strange
          <6>4. (g[k] \notin N /\ k \in DOMAIN B) \/ g[k] = k
              BY <6>1, <6>2, <6>3, Zenon
          <6> QED BY <6>1, <6>4, Zenon
        <5>5. CASE k \notin Listed(f) \ {Dropped}
            BY <3>3, <5>3, <5>5, Zenon DEF Through
        <5> QED BY <5>4, <5>5
      <4> QED BY <4>1, <4>2
    <3> HIDE DEF g, B, F, N
    <3> DEFINE none == << >>
    <3>7. \A k : Through(none, k) = k
        BY NoTable, Zenon
    <3> HIDE DEF none, lost
    <3>8. keys \in SUBSET N
        BY DEF N
    <3>9. \A k \in N \ lost : Through(g, k) # Dropped /\ Through(none, Through(g, k)) = k
      <4> SUFFICES ASSUME NEW k \in N \ lost PROVE Through(g, k) # Dropped /\ Through(none, Through(g, k)) = k
          OBVIOUS
      <4>1. k \in N /\ k \notin DOMAIN B
          BY <3>2
      <4> QED BY <3>4, <3>6, <3>7, <4>1, Zenon
    <3>10. \A k \in N : Through(g, k) = Dropped \/ Through(none, Through(g, k)) \notin N \/ Through(none, Through(g, k)) = k
        BY <3>6, <3>7, Zenon
    <3>11. \A x \in F : Through(none, x) \notin N
        BY <3>5, <3>7, Zenon
    <3>12. keys \ lost \subseteq Renaming(none, r.args) /\ Renaming(none, r.args) \cap N \subseteq keys
      <4>1. Undoes(none, g, N, lost, F)
          BY <3>4, <3>9, <3>10, <3>11, Zenon DEF Undoes
      <4> QED BY <3>1, <3>8, <4>1, ThereAndBack
    <3>13. Renaming(none, r.args) = r.args \ {Dropped}
      <4>1. Renaming(none, r.args) = {Through(none, k) : k \in r.args} \ {Dropped}
          BY Zenon DEF Renaming
      <4> QED BY <3>7, <4>1
    <3>14. keys \ lost \subseteq r.args /\ r.args \cap N \subseteq keys
        BY <3>4, <3>12, <3>13
    <3> QED BY <1>1, <3>14 DEF lost
  <2> QED BY <2>1, <2>2
<1>9. Comes(tools, mode, r)
    BY <1>1, <1>2, <1>3, <1>4, <1>6, <1>8, ZenonT(60) DEF Comes, Declared, table
<1> QED BY <1>9 DEF r

(* and those in disguise come back under a good context.                     *)
LEMMA DisguisedComes ==
  ASSUME NEW tools, NEW ctx, GoodContext(tools, ctx), NEW mode, mode # "passthrough",
         NEW name \in DOMAIN ctx.restore, name \notin ctx.pass, NEW keys \in SUBSET KeysOf(name)
  PROVE  Comes(tools, mode, Restored(name, keys, ctx, mode))
<1> DEFINE r == Restored(name, keys, ctx, mode)
           t == ctx.restore[name]
           f == TableOf(t)
           g == ctx.from[name]
           B == ArgsFromTa3[name]
           N == KeysOf(name)
           F == IF name = "SubAgent" THEN SpawnForcedArgs ELSE {}
<1>1. /\ r.called = name /\ r.keys = keys /\ r.name = RestoreName(name, ctx, mode)
      /\ r.args = RestoreKeys(name, keys, ctx, mode)
    BY Zenon DEF Restored
<1> HIDE DEF r
<1>2. r.name = t
    BY <1>1, Zenon DEF RestoreName
<1>3. Declared(tools, t) /\ t \in DOMAIN ToTa3 /\ ToTa3[t] = name
    BY Zenon DEF GoodContext, Stands
<1>4. name \in DOMAIN ArgsFromTa3 /\ name \in DOMAIN ctx.from /\ g = Merged(t, name)
  <2>1. name \in DOMAIN ArgsFromTa3
      BY <1>3, TablesThere, Zenon
  <2> QED BY <2>1, Zenon DEF GoodContext, FromIs
<1>5. Suited(f, B, N)
    BY <1>3, TablesSuited, Zenon
<1>6. r.args = Renaming(g, keys) \cup F
    BY <1>1, <1>4, Zenon DEF RestoreKeys
<1>7. \A k : /\ k \in Listed(f) \ {Dropped} => k \in DOMAIN g /\ g[k] \in DOMAIN f /\ f[g[k]] = k
             /\ k \notin Listed(f) \ {Dropped} => (k \in DOMAIN g <=> k \in DOMAIN B) /\ (k \in DOMAIN g => g[k] = B[k])
  <2> DEFINE h == Merged(t, name)
  <2>1. \A k : /\ k \in Listed(f) \ {Dropped} => k \in DOMAIN h /\ h[k] \in DOMAIN f /\ f[h[k]] = k
               /\ k \notin Listed(f) \ {Dropped} => (k \in DOMAIN h <=> k \in DOMAIN B) /\ (k \in DOMAIN h => h[k] = B[k])
      BY MergedFacts
  <2>2. g = h
      BY <1>4
  <2> HIDE DEF h, g, f, B
  <2> QED BY <2>1, <2>2
<1>8. Disguise(r.name, mode) = r.called
    BY <1>1, <1>2, <1>3, Zenon DEF Disguise, Through
<1>9. OwnTable(r.name, mode) = f
    BY <1>2, <1>3, Zenon DEF OwnTable, TableOf
<1> DEFINE lost == Borrowed(name, f, mode)
<1>10. lost = DOMAIN B \ Listed(f)
    BY <1>4, Zenon DEF Borrowed
<1>11. DisguiseKeys(r.name, r.args, mode) \in {Renaming(f, r.args), r.args}
       /\ (t \notin DOMAIN ArgsToTa3 => f = << >>)
       /\ (t \in DOMAIN ArgsToTa3 => DisguiseKeys(r.name, r.args, mode) = Renaming(f, r.args))
    BY <1>2, <1>3, Zenon DEF DisguiseKeys, TableOf
<1>12. \A x \in F : Through(f, x) \notin N /\ x # Dropped
  <2>1. Through(f, "explore") \notin N /\ "explore" # Dropped
      BY <1>5, Zenon DEF Suited, Dropped
  <2>2. \A x \in F : x = "explore"
      BY DEF SpawnForcedArgs
  <2> QED BY <2>1, <2>2, Zenon
<1> HIDE DEF f, g, B, N, F, lost
<1>13. ASSUME NEW k \in N
       PROVE  /\ k \notin lost => Through(g, k) # Dropped /\ Through(f, Through(g, k)) = k
              /\ Through(g, k) = Dropped \/ Through(f, Through(g, k)) \notin N \/ Through(f, Through(g, k)) = k
              /\ k \in Listed(f) => Through(g, k) # Dropped /\ Through(g, k) \in DOMAIN f /\ f[Through(g, k)] = k
  <2>1. k # Dropped /\ Dropped \notin DOMAIN f
      BY <1>5, Zenon DEF Suited
  <2>2. CASE k \in Listed(f)
    <3>1. k \in DOMAIN g /\ g[k] \in DOMAIN f /\ f[g[k]] = k
        BY <1>7, <2>1, <2>2
    <3>2. Through(g, k) = g[k] /\ Through(f, g[k]) = k /\ g[k] # Dropped
        BY <2>1, <3>1, Zenon DEF Through
    <3> QED BY <3>1, <3>2, Zenon
  <2>3. CASE k \notin Listed(f) /\ k \in DOMAIN B
    <3>1. k \in DOMAIN g /\ g[k] = B[k]
        BY <1>7, <2>3
    <3>2. Through(g, k) = B[k]
        BY <3>1, Zenon DEF Through
    <3>3. B[k] = Dropped \/ Through(f, B[k]) \notin N
        BY <1>5, <2>3, Zenon DEF Suited
    <3>4. k \in lost
        BY <1>10, <2>3
    <3> QED BY <2>3, <3>2, <3>3, <3>4, Zenon
  <2>4. CASE k \notin Listed(f) /\ k \notin DOMAIN B
    <3>1. k \notin DOMAIN g
        BY <1>7, <2>4
    <3>2. Through(g, k) = k
        BY <3>1, Zenon DEF Through
    <3>3. Through(f, k) = k
        BY <1>5, <2>4, Zenon DEF Suited, Through
    <3> QED BY <2>1, <2>4, <3>2, <3>3, Zenon
  <2> QED BY <2>2, <2>3, <2>4, Zenon
<1>14. keys \in SUBSET N /\ Dropped \notin N
    BY <1>5 DEF N, Suited
<1>15. keys \ lost \subseteq Renaming(f, r.args) /\ Renaming(f, r.args) \cap N \subseteq keys
  <2>1. \A k \in N \ lost : Through(g, k) # Dropped /\ Through(f, Through(g, k)) = k
      BY <1>13
  <2>2. \A k \in N : Through(g, k) = Dropped \/ Through(f, Through(g, k)) \notin N \/ Through(f, Through(g, k)) = k
      BY <1>13, Zenon
  <2>3. \A x \in F : Through(f, x) \notin N
      BY <1>12, Zenon
  <2>4. Undoes(f, g, N, lost, F)
      BY <1>14, <2>1, <2>2, <2>3, Zenon DEF Undoes
  <2> QED BY <1>6, <1>14, <2>4, ThereAndBack
<1>16. Renaming(f, r.args) = DisguiseKeys(r.name, r.args, mode)
  <2>1. CASE t \in DOMAIN ArgsToTa3
      BY <1>11, <2>1, Zenon
  <2>2. CASE t \notin DOMAIN ArgsToTa3
    <3>1. \A k : Through(f, k) = k
        BY <1>11, <2>2, NoTable, Zenon
    <3>2. Dropped \notin r.args
      <4>1. Dropped \notin Renaming(g, keys)
          BY DEF Renaming
      <4> QED BY <1>6, <1>12, <4>1
    <3>3. Renaming(f, r.args) = {Through(f, k) : k \in r.args} \ {Dropped}
        BY Zenon DEF Renaming
    <3>4. Renaming(f, r.args) = r.args
        BY <3>1, <3>2, <3>3
    <3> QED BY <1>11, <3>4, Zenon
  <2> QED BY <2>1, <2>2
<1>17. \A v \in r.keys \cap Listed(f) : \E k \in r.args \cap DOMAIN f : f[k] = v
  <2> SUFFICES ASSUME NEW v \in r.keys \cap Listed(f) PROVE \E k \in r.args \cap DOMAIN f : f[k] = v
      OBVIOUS
  <2>1. v \in keys /\ v \in N /\ v \in Listed(f)
      BY <1>1, <1>14
  <2>2. Through(g, v) # Dropped /\ Through(g, v) \in DOMAIN f /\ f[Through(g, v)] = v
      BY <1>13, <2>1, Zenon
  <2>3. Through(g, v) \in Renaming(g, keys)
      BY <2>1, <2>2 DEF Renaming
  <2> QED BY <1>6, <2>2, <2>3
<1>18. Comes(tools, mode, r)
  <2>1. \E i \in DOMAIN tools : tools[i] = r.name
      BY <1>2, <1>3, Zenon DEF Declared
  <2>2. r.keys \ Borrowed(r.called, f, mode) \subseteq DisguiseKeys(r.name, r.args, mode)
      BY <1>1, <1>15, <1>16, Zenon DEF lost
  <2>3. DisguiseKeys(r.name, r.args, mode) \cap KeysOf(r.called) \subseteq r.keys
      BY <1>1, <1>15, <1>16, Zenon DEF N
  <2> QED BY <1>8, <1>9, <1>17, <2>1, <2>2, <2>3, Zenon DEF Comes
<1> QED BY <1>18 DEF r

(* A call of any tool that was offered comes back.                           *)
LEMMA CallsComeBackHolds == ConvertInv => CallsComeBack
<1> SUFFICES ASSUME ConvertInv, pc = "replied" PROVE Comes(in.tools, in.mode, reply[1])
    BY Zenon DEF CallsComeBack, Comes
<1> DEFINE ctx == Context(in.tools, in.mode)
<1>1. in \in InputType /\ Answering
    BY Zenon DEF ConvertInv
<1>2. in.tools \in Seq(STRING) /\ in.mode \in {"hybrid", "strict", "passthrough"}
    BY <1>1, InputFacts, Zenon
<1>3. PICK n \in DOMAIN ctx.out : \E keys \in SUBSET KeysOf(ctx.out[n]) :
        reply = << Restored(ctx.out[n], keys, ctx, in.mode) >>
    BY <1>1, Zenon DEF Answering
<1>4. PICK keys \in SUBSET KeysOf(ctx.out[n]) : reply = << Restored(ctx.out[n], keys, ctx, in.mode) >>
    BY <1>3, Zenon
<1>5. reply[1] = Restored(ctx.out[n], keys, ctx, in.mode)
  <2> DEFINE r == Restored(ctx.out[n], keys, ctx, in.mode)
  <2>1. reply = << r >>
      BY <1>4
  <2> HIDE DEF r
  <2>2. reply[1] = r
      BY <2>1
  <2> QED BY <2>2 DEF r
<1>6. CASE in.mode = "passthrough"
  <2>1. ctx.out = in.tools
      BY <1>6, PassthroughContext, Zenon
  <2> HIDE DEF ctx
  <2>2. reply[1] = Restored(in.tools[n], keys, ctx, "passthrough") /\ n \in DOMAIN in.tools
      BY <1>3, <1>5, <1>6, <2>1, Zenon
  <2>3. Comes(in.tools, "passthrough", Restored(in.tools[n], keys, ctx, "passthrough"))
      BY <2>2, UndisguisedComes, Zenon
  <2> QED BY <1>6, <2>2, <2>3, Zenon
<1>7. CASE in.mode # "passthrough"
  <2>1. GoodContext(in.tools, ctx)
      BY <1>2, <1>7, ContextGood, Zenon
  <2> HIDE DEF ctx
  <2> DEFINE name == ctx.out[n]
  <2>2. name \in ctx.pass \/ (name \notin ctx.pass /\ name \in DOMAIN ctx.restore)
      BY <1>3, <2>1, Zenon DEF GoodContext
  <2>3. keys \in SUBSET KeysOf(name)
      BY <1>4
  <2> HIDE DEF name
  <2>4. Comes(in.tools, in.mode, Restored(name, keys, ctx, in.mode))
      BY <1>7, <2>1, <2>2, <2>3, PassedComes, DisguisedComes, Zenon
  <2> QED BY <1>5, <2>4, Zenon DEF name
<1> QED BY <1>6, <1>7

(* Whatever tools the agent declares and whichever of them share a native    *)
(* name, a call of the model always comes back under a declared name whose   *)
(* disguise is the name called; the keys the agent's table lists come under  *)
(* the agent's names, and when the call is sent again the model sees what it *)
(* gave and nothing more, but for the keys of the application that the table *)
(* does not list (tool_disguise.py, ta3.py).                                 *)
THEOREM CallsComeBackAlways == Spec => []CallsComeBack
  BY ConvertTyping, CallsComeBackHolds, PTL

-------------------------------------------------------------------------------
(* Repair is stable                                                          *)

(* No message calls one id twice.                                            *)
Single(f) == \A i \in DOMAIN f : \A k \in DOMAIN f[i].calls, j \in DOMAIN f[i].calls :
               f[i].calls[k].id = f[i].calls[j].id => k = j

(* Nor does one list of calls.                                               *)
DistinctIds(q) == \A a \in DOMAIN q, b \in DOMAIN q : q[a].id = q[b].id => a = b

(* Picking calls keeps their ids distinct.                                   *)
LEMMA ThoseDistinct ==
  ASSUME NEW q \in Seq(CallType), NEW O, DistinctIds(q)
  PROVE  DistinctIds(Those(q, O))
<1> DEFINE t == Those(q, O)
<1>1. /\ t \in Seq(CallType)
      /\ \E g \in [1 .. Len(t) -> 1 .. Len(q)] :
           /\ \A x \in 1 .. Len(t) : g[x] \in O /\ t[x] = q[g[x]]
           /\ \A x \in 1 .. Len(t), y \in 1 .. Len(t) : x < y => g[x] < g[y]
           /\ \A x \in 1 .. Len(q) : x \in O => \E y \in 1 .. Len(t) : g[y] = x
    BY ThosePlaces
<1> HIDE DEF t
<1>2. PICK g \in [1 .. Len(t) -> 1 .. Len(q)] :
           /\ \A x \in 1 .. Len(t) : t[x] = q[g[x]]
           /\ \A x \in 1 .. Len(t), y \in 1 .. Len(t) : x < y => g[x] < g[y]
    BY <1>1, Zenon
<1>3. DOMAIN t = 1 .. Len(t) /\ DOMAIN q = 1 .. Len(q) /\ Len(t) \in Nat /\ Len(q) \in Nat
    BY <1>1, SeqFacts, Zenon
<1>4. ASSUME NEW k \in 1 .. Len(t), NEW j \in 1 .. Len(t), t[k].id = t[j].id PROVE k = j
  <2>1. g[k] \in 1 .. Len(q) /\ g[j] \in 1 .. Len(q) /\ q[g[k]].id = q[g[j]].id
      BY <1>2, <1>4, Zenon
  <2>2. g[k] = g[j]
      BY <1>3, <2>1, Zenon DEF DistinctIds
  <2>3. (k < j => g[k] < g[j]) /\ (j < k => g[j] < g[k])
      BY <1>2, Zenon
  <2>4. \A n \in 1 .. Len(q) : ~(n < n)
      BY <1>3
  <2>5. ~(k < j) /\ ~(j < k)
      BY <2>1, <2>2, <2>3, <2>4, Zenon
  <2>6. \A m \in 1 .. Len(t), n \in 1 .. Len(t) : m < n \/ n < m \/ m = n
      BY <1>3
  <2> QED BY <2>5, <2>6, Zenon
<1>5. DistinctIds(t)
    BY <1>3, <1>4, Zenon DEF DistinctIds
<1> QED BY <1>5 DEF t

(* Every message of a repacked history is one of the history before.         *)
LEMMA RepackFrom ==
  ASSUME NEW f \in Seq(Msg)
  PROVE  Repack(f) \in Seq(Msg) /\ \A x \in 1 .. Len(Repack(f)) : \E j \in 1 .. Len(f) : Repack(f)[x] = f[j]
<1>1. Repack(f) = f \/ Repack(f) = FlattenSeq(RepackParts(f))
    BY Zenon DEF Repack, RepackParts
<1>2. FlattenSeq(RepackParts(f)) \in Seq(Of(f))
    BY PartsFrom, Zenon
<1>3. f \in Seq(Of(f))
  <2> DEFINE S == Of(f)
  <2>1. \A i \in 1 .. Len(f) : f[i] \in S
      BY Zenon DEF Of
  <2>2. Len(f) \in Nat /\ f = [i \in 1 .. Len(f) |-> f[i]]
      BY SeqFacts, Zenon
  <2> HIDE DEF S
  <2>3. f \in [1 .. Len(f) -> S]
      BY <2>1, <2>2, Zenon
  <2>4. f \in Seq(S)
      BY <2>2, <2>3
  <2> QED BY <2>4 DEF S
<1> DEFINE r == Repack(f)
<1>4. r \in Seq(Of(f))
    BY <1>1, <1>2, <1>3, Zenon
<1> HIDE DEF r
<1>5. \A x \in 1 .. Len(r) : r[x] \in Of(f)
    BY <1>4, SeqFacts, Zenon
<1>6. \A x \in 1 .. Len(r) : \E j \in 1 .. Len(f) : r[x] = f[j]
    BY <1>5, Zenon DEF Of
<1> QED BY <1>6, RepackIn, Zenon DEF r

(* Repair of what is in time leaves no id called twice in a message.         *)
LEMMA RepairSingle ==
  ASSUME NEW f \in Seq(Msg), InTime(Merge(f))
  PROVE  Single(Repair(f))
<1> DEFINE F == Fill(Merge(f))
           P == Repack(F)
           K == Kept(P)
           R == Clean(P, K)
<1>1. F \in Seq(Msg) /\ InTime(F)
    BY MergeIn, FillInTime, Zenon
<1>2. Repair(f) = R
    BY Zenon DEF Repair, Cleanup
<1> HIDE DEF F
<1>3. P \in Seq(Msg) /\ \A x \in 1 .. Len(P) : \E j \in 1 .. Len(F) : P[x] = F[j]
    BY <1>1, RepackFrom, Zenon
<1> HIDE DEF P, K
<1>4. R \in Seq(Msg) /\ \A x \in 1 .. Len(R) : \E i \in 1 .. Len(P) : ~Gone(P[i], K) /\ R[x] = Pruned(P[i], K)
    BY <1>3, CleanIn, CleanFrom, Zenon
<1> HIDE DEF R
<1>5. DOMAIN R = 1 .. Len(R)
    BY <1>4, SeqFacts, Zenon
<1>6. ASSUME NEW x \in 1 .. Len(R), NEW k \in DOMAIN R[x].calls, NEW j \in DOMAIN R[x].calls,
             R[x].calls[k].id = R[x].calls[j].id
      PROVE  k = j
  <2>1. PICK i \in 1 .. Len(P) : R[x] = Pruned(P[i], K)
      BY <1>4, Zenon
  <2>2. PICK y \in 1 .. Len(F) : P[i] = F[y]
      BY <1>3, Zenon
  <2> DEFINE m == F[y]
             q == m.calls
             O == Ours(m, K)
             t == Those(q, O)
  <2>3. m \in Msg
      BY <1>1
  <2>4. R[x].calls = t
      BY <2>1, <2>2, <2>3, PrunedFacts, ZenonT(60)
  <2>5. q \in Seq(CallType) /\ DistinctIds(q)
    <3>1. \A a \in DOMAIN q, b \in DOMAIN q : q[a].id = q[b].id => a = b
        BY <1>1, CallSame, Zenon
    <3> QED BY <2>3, <3>1, MsgFacts, Zenon DEF DistinctIds
  <2>6. DistinctIds(t)
      BY <2>5, ThoseDistinct, Zenon
  <2> QED BY <1>6, <2>4, <2>6, Zenon DEF DistinctIds
<1>7. Single(R)
    BY <1>5, <1>6, Zenon DEF Single
<1> QED BY <1>2, <1>7, Zenon

(* A paired history is left alone by merging,                                *)
LEMMA MergeStays ==
  ASSUME NEW f \in Seq(Msg), Paired(f)
  PROVE  Merge(f) = f
<1> DEFINE c == Merging(f)
           N == Len(f)
           I == {n \in Nat : n <= N => c[n] = SubSeq(f, 1, n)}
<1>0. N \in Nat /\ DOMAIN f = 1 .. N /\ \A n \in 1 .. N : f[n] \in Msg
    OBVIOUS
<1>1. Merge(f) = c[N] /\ c[0] = <<>> /\ \A n \in 1 .. N : c[n] = MergeStep(c[n - 1], f[n])
    BY MergingFacts, Zenon
<1>2. ASSUME NEW n \in 1 .. N, n + 1 <= N PROVE ~Joins(f[n], f[n + 1])
  <2>1. CASE IsHead(f[n])
    <3>1. 1 \in DOMAIN f[n].calls
      <4> DEFINE q == f[n].calls
      <4>1. q \in Seq(CallType) /\ q # <<>>
          BY <1>0, <2>1, MsgFacts, Zenon DEF IsHead
      <4> HIDE DEF q
      <4>2. 1 \in DOMAIN q
          BY <4>1
      <4> QED BY <4>2 DEF q
    <3>2. f[n + 1].role = "tool"
        BY <1>0, <3>1, Zenon DEF Paired
    <3>3. f[n + 1].role # "assistant"
        BY <3>2
    <3> QED BY <3>3, Zenon DEF Joins
  <2>2. CASE ~IsHead(f[n])
      BY <2>2, Zenon DEF Joins
  <2> QED BY <2>1, <2>2
<1>3. SubSeq(f, 1, N) = f /\ SubSeq(f, 1, 0) = <<>>
    OBVIOUS
<1>4. ASSUME NEW n \in 1 .. N, n + 1 <= N
      PROVE  /\ SubSeq(f, 1, n) # <<>> /\ Last(SubSeq(f, 1, n)) = f[n]
             /\ Append(SubSeq(f, 1, n), f[n + 1]) = SubSeq(f, 1, n + 1)
    BY DEF Last
<1>5. 1 <= N => Append(<<>>, f[1]) = SubSeq(f, 1, 1)
    OBVIOUS
<1> HIDE DEF c, N
<1>6. 0 \in I
    BY <1>1, <1>3
<1>7. ASSUME NEW n \in Nat, n \in I PROVE n + 1 \in I
  <2> SUFFICES ASSUME n + 1 <= N PROVE c[n + 1] = SubSeq(f, 1, n + 1)
      OBVIOUS
  <2>1. n <= N /\ n + 1 \in 1 .. N /\ (n + 1) - 1 = n
      BY <1>0
  <2>2. c[n] = SubSeq(f, 1, n)
      BY <1>7, <2>1, Zenon
  <2>3. c[n + 1] = MergeStep(c[n], f[n + 1])
      BY <1>1, <2>1
  <2>4. CASE n = 0
    <3>1. c[n] = <<>>
        BY <1>1, <2>4, Zenon
    <3>2. c[n + 1] = Append(<<>>, f[n + 1])
        BY <2>3, <3>1, Zenon DEF MergeStep
    <3>3. n + 1 = 1 /\ 1 <= N
        BY <1>0, <2>1, <2>4
    <3> QED BY <1>5, <3>2, <3>3, Zenon
  <2>5. CASE n # 0
    <3>1. n \in 1 .. N
        BY <2>1, <2>5
    <3>2. ~Joins(Last(c[n]), f[n + 1])
        BY <1>2, <1>4, <2>2, <3>1, Zenon
    <3>3. c[n + 1] = Append(c[n], f[n + 1])
        BY <2>3, <3>2, Zenon DEF MergeStep
    <3> QED BY <1>4, <2>2, <3>1, <3>3, Zenon
  <2> QED BY <2>4, <2>5
<1> HIDE DEF I
<1>8. N \in I
    BY <1>0, <1>6, <1>7, SetInduction, Zenon
<1>9. c[N] = SubSeq(f, 1, N)
    BY <1>0, <1>8 DEF I
<1> QED BY <1>1, <1>3, <1>9, Zenon

(* by filling,                                                               *)
LEMMA FillStays ==
  ASSUME NEW f \in Seq(Msg), Paired(f)
  PROVE  Fill(f) = f
<1>0. DOMAIN f = 1 .. Len(f) /\ Len(f) \in Nat /\ \A i \in 1 .. Len(f) : f[i] \in Msg
    OBVIOUS
<1>1. ASSUME NEW i \in 1 .. Len(f) PROVE Behind(f, i, ResultIds(f)) = <<>>
  <2> DEFINE b == Behind(f, i, ResultIds(f))
  <2>1. b \in Seq(Msg) /\ \A x \in 1 .. Len(b) : StubAt(f, i, b[x])
      BY BehindFacts, Zenon
  <2>2. ASSUME NEW s, StubAt(f, i, s) PROVE FALSE
    <3>1. PICK h \in 1 .. Len(f) : StubOf(f[h], ResultIds(f), s)
        BY <2>2, Zenon DEF StubAt
    <3>2. PICK k \in DOMAIN f[h].calls : f[h].calls[k].id = s.for
        BY <3>1, Zenon DEF StubOf
    <3>3. h + k \in DOMAIN f /\ f[h + k].role = "tool" /\ f[h + k].for = s.for
        BY <1>0, <3>2, Zenon DEF Paired
    <3>4. s.for # "" /\ s.for \notin ResultIds(f)
        BY <3>1, Zenon DEF StubOf
    <3> QED BY <3>3, <3>4, Zenon DEF ResultIds
  <2> HIDE DEF b
  <2>3. \A x \in 1 .. Len(b) : FALSE
      BY <2>1, <2>2, Zenon
  <2>4. b = <<>>
      BY <2>1, <2>3
  <2> QED BY <2>4 DEF b
<1>2. \A i \in DOMAIN f : << f[i] >> \o <<>> = << f[i] >>
  <2>1. ASSUME NEW i \in DOMAIN f PROVE << f[i] >> \o <<>> = << f[i] >>
    <3> DEFINE m == f[i]
    <3>1. m \in Msg
        BY <1>0
    <3> HIDE DEF m
    <3>2. << m >> \in Seq(Msg)
        BY <3>1
    <3>3. << m >> \o <<>> = << m >>
        BY <3>2
    <3> QED BY <3>3 DEF m
  <2> QED BY <2>1
<1>3. Fill(f) = FlattenSeq([i \in DOMAIN f |-> << f[i] >>])
  <2>1. \A i \in DOMAIN f : << f[i] >> \o Behind(f, i, ResultIds(f)) = << f[i] >>
    <3> SUFFICES ASSUME NEW i \in DOMAIN f PROVE << f[i] >> \o Behind(f, i, ResultIds(f)) = << f[i] >>
        OBVIOUS
    <3>1. Behind(f, i, ResultIds(f)) = <<>>
        BY <1>0, <1>1, Zenon
    <3> QED BY <1>2, <3>1
  <2>2. [i \in DOMAIN f |-> << f[i] >> \o Behind(f, i, ResultIds(f))] = [i \in DOMAIN f |-> << f[i] >>]
      BY <2>1, Zenon
  <2> QED BY <2>2, Zenon DEF Fill
<1> QED BY <1>3, FlatSingles, Zenon

(* A message given the calls it has is the same.                             *)
LEMMA SameCalls ==
  ASSUME NEW m \in MsgType
  PROVE  [m EXCEPT !.calls = m.calls] = m
  BY DEF MsgType

(* Pruning leaves a message alone whose calls are all kept.                  *)
LEMMA PrunedStays ==
  ASSUME NEW m \in Msg, NEW K, \A k \in DOMAIN m.calls : m.calls[k].id \in K
  PROVE  Pruned(m, K) = m
<1> DEFINE q == m.calls
           O == {k \in DOMAIN q : q[k].id \in K}
<1>1. q \in Seq(CallType) /\ DOMAIN q = 1 .. Len(q)
    BY MsgFacts, Zenon
<1>2. Pruned(m, K) = [m EXCEPT !.calls = Those(q, O)]
    BY Zenon DEF Pruned
<1>3. \A k \in 1 .. Len(q) : k \in O
    BY <1>1, Zenon
<1>4. m \in MsgType
    BY Zenon DEF Msg
<1> HIDE DEF O
<1>5. Those(q, O) = q
  <2> HIDE DEF q
  <2> QED BY <1>1, <1>3, ThoseAll, Zenon
<1> QED BY <1>2, <1>4, <1>5, SameCalls, Zenon

(* A paired history with named calls is left alone by cleaning.              *)
LEMMA CleanupStays ==
  ASSUME NEW f \in Seq(Msg), Paired(f), Named(f)
  PROVE  Cleanup(f) = f
<1> DEFINE K == Kept(f)
<1>0. DOMAIN f = 1 .. Len(f) /\ Len(f) \in Nat /\ \A i \in 1 .. Len(f) : f[i] \in Msg
    OBVIOUS
<1>1. ASSUME NEW h \in 1 .. Len(f), NEW k \in DOMAIN f[h].calls PROVE f[h].calls[k].id \in K
  <2> DEFINE x == f[h].calls[k].id
  <2>1. x # "" /\ \A g \in 1 .. Len(f) : \A j \in DOMAIN f[g].calls : f[g].calls[j].name # ""
      BY <1>0, Zenon DEF Named
  <2>2. h + k \in 1 .. Len(f) /\ f[h + k].role = "tool" /\ f[h + k].for = x
      BY <1>0, Zenon DEF Paired
  <2>3. \E i \in 1 .. Len(f) : f[i].role = "tool" /\ f[i].for = x
      BY <2>2, Zenon
  <2>4. \E g \in 1 .. Len(f) : \E j \in DOMAIN f[g].calls : f[g].calls[j].id = x
      BY Zenon
  <2> HIDE DEF x
  <2>5. x \in Kept(f)
    <3>1. \A h1 \in 1 .. Len(f) : \A k1 \in DOMAIN f[h1].calls : f[h1].calls[k1].id = x => f[h1].calls[k1].name # ""
        BY <2>1, Zenon
    <3>2. x # ""
        BY <2>1
    <3> QED BY <2>3, <2>4, <3>1, <3>2, KeptFacts
  <2> QED BY <2>5 DEF x, K
<1>2. ASSUME NEW i \in 1 .. Len(f), f[i].role = "tool" PROVE f[i].for \in K
  <2>1. PICK h \in 1 .. i - 1 : i - h <= Len(f[h].calls)
      BY <1>0, <1>2, Zenon DEF Paired
  <2>2. h \in 1 .. Len(f) /\ h + (i - h) = i /\ i - h \in Nat /\ i - h >= 1
      BY <1>0, <2>1
  <2>3. Len(f[h].calls) \in Nat /\ DOMAIN f[h].calls = 1 .. Len(f[h].calls)
      BY <1>0, <2>2, MsgFacts, Zenon
  <2>4. i - h \in DOMAIN f[h].calls
    <3> DEFINE n == Len(f[h].calls)
    <3>1. n \in Nat /\ i - h <= n
        BY <2>1, <2>3
    <3> HIDE DEF n
    <3>2. i - h \in 1 .. n
        BY <2>2, <3>1
    <3> QED BY <2>3, <3>2, Zenon DEF n
  <2>5. f[h + (i - h)].for = f[h].calls[i - h].id
      BY <1>0, <2>2, <2>4, Zenon DEF Paired
  <2>6. f[i].for = f[h].calls[i - h].id
      BY <2>2, <2>5
  <2> QED BY <1>1, <2>2, <2>4, <2>6, Zenon
<1> HIDE DEF K
<1>3. ASSUME NEW i \in DOMAIN f PROVE CleanOne(f[i], K) = << f[i] >>
  <2>1. f[i] \in Msg /\ i \in 1 .. Len(f)
      BY <1>0
  <2>2. ~Gone(f[i], K)
      BY <1>2, <2>1, Zenon DEF Gone
  <2>3. Pruned(f[i], K) = f[i]
      BY <1>1, <2>1, PrunedStays, Zenon
  <2>4. CleanOne(f[i], K) = << Pruned(f[i], K) >>
      BY <2>1, <2>2, CleanOneFacts, Zenon
  <2> QED BY <2>3, <2>4, Zenon
<1>4. [i \in DOMAIN f |-> CleanOne(f[i], K)] = [i \in DOMAIN f |-> << f[i] >>]
    BY <1>3, Zenon
<1>5. Cleanup(f) = FlattenSeq([i \in DOMAIN f |-> << f[i] >>])
    BY <1>4, Zenon DEF Cleanup, Clean, K
<1> QED BY <1>5, FlatSingles, Zenon

(* A piece of a sequence cut in two.                                         *)
LEMMA SplitSeq ==
  ASSUME NEW S, NEW s \in Seq(S), NEW a \in 1 .. Len(s) + 1, NEW b \in a - 1 .. Len(s), NEW c \in b .. Len(s)
  PROVE  SubSeq(s, a, b) \o SubSeq(s, b + 1, c) = SubSeq(s, a, c)
  OBVIOUS

(* Picking the places behind n gives the tail.                               *)
LEMMA ThoseTail ==
  ASSUME NEW S, NEW s \in Seq(S), NEW n \in 0 .. Len(s), NEW K, \A k \in 1 .. Len(s) : k \in K <=> k > n
  PROVE  Those(s, K) = SubSeq(s, n + 1, Len(s))
<1> DEFINE a == SubSeq(s, 1, n)
           b == SubSeq(s, n + 1, Len(s))
           e == [k \in 1 .. n |-> <<>>]
           d == [k \in DOMAIN b |-> << b[k] >>]
           p == ThoseParts(s, K)
<1>0. Len(s) \in Nat /\ n \in Nat /\ n <= Len(s) /\ DOMAIN s = 1 .. Len(s)
    OBVIOUS
<1>1. b \in Seq(S) /\ Len(b) = Len(s) - n /\ \A k \in 1 .. Len(b) : b[k] = s[n + k]
    OBVIOUS
<1>2. e \in Seq(Seq(S)) /\ Len(e) = n /\ \A k \in 1 .. n : e[k] = <<>>
    OBVIOUS
<1>3. d \in Seq(Seq(S)) /\ Len(d) = Len(b) /\ \A k \in 1 .. Len(b) : d[k] = << b[k] >>
  <2> HIDE DEF b
  <2>1. b \in Seq(S) /\ DOMAIN b = 1 .. Len(b) /\ Len(b) \in Nat
      BY <1>1
  <2>2. \A k \in 1 .. Len(b) : << b[k] >> \in Seq(S)
      BY <2>1
  <2>3. d \in [1 .. Len(b) -> Seq(S)] /\ \A k \in 1 .. Len(b) : d[k] = << b[k] >>
      BY <2>1, <2>2, Zenon
  <2> HIDE DEF d
  <2>4. d \in Seq(Seq(S)) /\ Len(d) = Len(b)
      BY <2>1, <2>3, FunSeq, Zenon
  <2> QED BY <2>3, <2>4, Zenon
<1>4. FlattenSeq(d) = b
  <2> HIDE DEF b
  <2> QED BY <1>1, FlatSingles, Zenon
<1> HIDE DEF e, d, b, a
<1>5. FlattenSeq(e) = <<>>
  <2>1. e = ThoseParts(SubSeq(s, 1, n), {})
    <3> DEFINE z == SubSeq(s, 1, n)
    <3>1. DOMAIN z = 1 .. n
        BY <1>0
    <3> HIDE DEF z
    <3>2. \A k : (IF k \in {} THEN << z[k] >> ELSE <<>>) = <<>>
        BY Zenon
    <3>3. e = ThoseParts(z, {})
        BY <3>1, <3>2, Zenon DEF ThoseParts, e
    <3> QED BY <3>3 DEF z
  <2>2. SubSeq(s, 1, n) \in Seq(S)
      BY <1>0
  <2>3. Those(SubSeq(s, 1, n), {}) = <<>>
      BY <2>2, ThoseNone, Zenon
  <2> QED BY <2>1, <2>3, Zenon DEF Those, ThoseParts
<1>6. /\ p \in Seq(Seq(S)) /\ Len(p) = Len(s)
      /\ \A k \in 1 .. Len(s) : p[k] = IF k \in K THEN << s[k] >> ELSE <<>>
  <2>1. /\ ThoseParts(s, K) \in Seq(Seq(S)) /\ Len(ThoseParts(s, K)) = Len(s)
        /\ \A k \in 1 .. Len(s) : ThoseParts(s, K)[k] = IF k \in K THEN << s[k] >> ELSE <<>>
    <3>1. s \in Seq(S)
        OBVIOUS
    <3> QED BY <3>1, ThosePartsIn
  <2> QED BY <2>1 DEF p
<1> HIDE DEF p
<1>7. /\ e \o d \in Seq(Seq(S)) /\ Len(e \o d) = Len(e) + Len(d)
      /\ \A i \in 1 .. Len(e) : (e \o d)[i] = e[i]
      /\ \A i \in 1 .. Len(d) : (e \o d)[Len(e) + i] = d[i]
  <2>1. e \in Seq(Seq(S)) /\ d \in Seq(Seq(S))
      BY <1>2, <1>3
  <2> QED BY <2>1, ConcatFacts
<1>8. p = e \o d
  <2>1. Len(e \o d) = Len(p)
      BY <1>0, <1>1, <1>2, <1>3, <1>6, <1>7
  <2>2. ASSUME NEW k \in 1 .. Len(p) PROVE p[k] = (e \o d)[k]
    <3>1. CASE k <= n
      <4>1. k \in 1 .. Len(e) /\ k \in 1 .. n /\ k \in 1 .. Len(s) /\ ~(k > n)
          BY <1>0, <1>2, <1>6, <3>1
      <4>2. p[k] = <<>>
          BY <1>6, <4>1, Zenon
      <4> QED BY <1>2, <1>7, <4>1, <4>2, Zenon
    <3>2. CASE k > n
      <4>1. k - n \in 1 .. Len(d) /\ Len(e) + (k - n) = k /\ k \in 1 .. Len(s) /\ k - n \in 1 .. Len(b) /\ n + (k - n) = k
          BY <1>0, <1>1, <1>2, <1>3, <1>6, <3>2
      <4>2. p[k] = << s[k] >>
          BY <1>6, <3>2, <4>1, Zenon
      <4>3. (e \o d)[Len(e) + (k - n)] = d[k - n] /\ d[k - n] = << b[k - n] >> /\ b[k - n] = s[n + (k - n)]
          BY <1>1, <1>3, <1>7, <4>1, Zenon
      <4> QED BY <4>1, <4>2, <4>3
    <3>3. k \in Int /\ n \in Int
        BY <1>0, <1>6
    <3>4. k <= n \/ k > n
        BY <3>3
    <3> QED BY <3>1, <3>2, <3>4
  <2> QED BY <1>6, <1>7, <2>1, <2>2, SeqEqual
<1>9. FlattenSeq(e \o d) = FlattenSeq(e) \o FlattenSeq(d)
    BY <1>2, <1>3, FlatConcat, Zenon
<1>10. FlattenSeq(p) = b
  <2>1. <<>> \o b = b
      BY <1>1
  <2> QED BY <1>4, <1>5, <1>8, <1>9, <2>1, Zenon
<1> QED BY <1>10, Zenon DEF Those, ThoseParts, p, b

(* The empty sequence has no member.                                         *)
LEMMA EmptySeqLen == Len(<<>>) = 0
  OBVIOUS

(* What stands behind the head h of a history that is paired. *)
LEMMA BatchFacts ==
  ASSUME NEW f \in Seq(Msg), Paired(f), NEW h \in 1 .. Len(f), IsHead(f[h])
  PROVE  /\ \A k \in 1 .. Len(f[h].calls) : k \in 1 .. Len(Window(f, h))
         /\ \A k \in 1 .. Len(f[h].calls) : /\ Window(f, h)[k].role = "tool"
                                            /\ Window(f, h)[k].for = f[h].calls[k].id
         /\ \A k \in 1 .. Len(Window(f, h)) : k > Len(f[h].calls) => Window(f, h)[k].role # "tool"
<1> DEFINE n == Len(f[h].calls)
           N == Len(f)
           e == NextHead(f, h)
           w == Window(f, h)
<1>0. /\ N \in Nat /\ DOMAIN f = 1 .. N /\ \A i \in 1 .. N : f[i] \in Msg
      /\ h \in 1 .. N
    OBVIOUS
<1>1. n \in Nat /\ DOMAIN f[h].calls = 1 .. n
    BY <1>0, MsgFacts, Zenon
<1>2. /\ e \in h + 1 .. N + 1
      /\ \A j \in h + 1 .. e - 1 : j \in 1 .. N /\ ~IsHead(f[j])
      /\ e <= N => IsHead(f[e])
    BY NextHeadFacts, Zenon
<1>3. /\ w \in Seq(Msg) /\ Len(w) = e - 1 - h
      /\ \A k \in 1 .. Len(w) : h + k \in h + 1 .. e - 1 /\ w[k] = f[h + k]
    BY WindowFacts, Zenon
<1>4. \A k \in 1 .. n : h + k \in 1 .. N /\ f[h + k].role = "tool" /\ f[h + k].for = f[h].calls[k].id
    BY <1>0, <1>1, Zenon DEF Paired
<1> HIDE DEF n, e, N, w
<1>5. \A g \in 1 .. N : IsHead(f[g]) => f[g].role # "tool"
  <2>1. \A g \in 1 .. N : IsHead(f[g]) => f[g].role = "assistant"
      BY Zenon DEF IsHead
  <2>2. "assistant" # "tool"
      OBVIOUS
  <2> QED BY <2>1, <2>2, Zenon
<1>6. ASSUME NEW k \in 1 .. n PROVE k \in 1 .. Len(w)
  <2> SUFFICES ASSUME ~(k \in 1 .. Len(w)) PROVE FALSE
      OBVIOUS
  <2>1. e - h \in 1 .. n /\ h + (e - h) = e /\ e \in 1 .. N /\ e <= N
    <3>1. h + k <= N
        BY <1>0, <1>4
    <3> QED BY <1>0, <1>1, <1>2, <1>3, <3>1
  <2>2. f[h + (e - h)].role = "tool"
      BY <1>4, <2>1, Zenon
  <2>3. f[e].role = "tool"
      BY <2>1, <2>2
  <2>4. IsHead(f[e])
      BY <1>2, <2>1, Zenon
  <2> QED BY <1>5, <2>1, <2>3, <2>4, Zenon
<1>7. \A k \in 1 .. n : w[k].role = "tool" /\ w[k].for = f[h].calls[k].id
    BY <1>3, <1>4, <1>6, Zenon
<1>8. ASSUME NEW k \in 1 .. Len(w), k > n PROVE w[k].role # "tool"
  <2> SUFFICES ASSUME w[k].role = "tool" PROVE FALSE
      OBVIOUS
  <2> DEFINE i == h + k
  <2>1. i \in h + 1 .. e - 1 /\ w[k] = f[i]
      BY <1>3
  <2>2. i \in 1 .. N /\ f[i].role = "tool"
      BY <1>2, <2>1, Zenon
  <2>3. PICK g \in 1 .. i - 1 : i - g <= Len(f[g].calls)
      BY <1>0, <2>2, Zenon DEF Paired
  <2>4. g \in 1 .. N
      BY <1>0, <2>2, <2>3
  <2>5. Len(f[g].calls) \in Nat /\ DOMAIN f[g].calls = 1 .. Len(f[g].calls)
      BY <1>0, <2>4, MsgFacts, Zenon
  <2> DEFINE c == Len(f[g].calls)
  <2>6. c \in Nat /\ i - g <= c /\ i - g >= 1
      BY <1>0, <2>2, <2>3, <2>5
  <2>7. g # h
    <3> SUFFICES ASSUME g = h PROVE FALSE
        OBVIOUS
    <3>1. c = n
        BY DEF n
    <3> HIDE DEF c
    <3> QED BY <1>0, <1>1, <1>8, <2>6, <3>1
  <2>8. f[g].calls # <<>>
    <3> SUFFICES ASSUME f[g].calls = <<>> PROVE FALSE
        OBVIOUS
    <3>1. c = 0
        BY Zenon, EmptySeqLen
    <3> HIDE DEF c
    <3> QED BY <2>2, <2>3, <2>6, <3>1
  <2>9. IsHead(f[g])
      BY <1>0, <2>4, <2>8, MsgFacts, Zenon DEF IsHead
  <2>10. ~(g \in h + 1 .. e - 1)
      BY <1>2, <2>9, Zenon
  <2> HIDE DEF c
  <2>11. h - g \in 1 .. c /\ g + (h - g) = h
    <3>1. e \in Int /\ i \in Int /\ h \in Int /\ g \in Int /\ i <= e - 1 /\ g <= i - 1 /\ h + 1 <= i
        BY <1>0, <1>2, <2>1, <2>2, <2>3
    <3> HIDE DEF i
    <3> QED BY <2>6, <2>7, <2>10, <3>1
  <2>12. f[g + (h - g)].role = "tool"
    <3>1. h - g \in DOMAIN f[g].calls
        BY <2>5, <2>11, Zenon DEF c
    <3> QED BY <1>0, <2>4, <3>1, Zenon DEF Paired
  <2>13. f[h].role = "tool"
      BY <2>11, <2>12
  <2> QED BY <1>0, <1>5, <2>13, Zenon
<1>9. n = Len(f[h].calls) /\ w = Window(f, h)
    BY DEF n, w
<1> QED BY <1>6, <1>7, <1>8, <1>9

(* What repair leaves: paired, named, no id twice in a message.              *)
Settled(f) == Paired(f) /\ Named(f) /\ Single(f)

(* In such a history the result chosen for a call is the one that stands in  *)
(* its place,                                                                *)
LEMMA ChosenStays ==
  ASSUME NEW f \in Seq(Msg), Settled(f), NEW h \in 1 .. Len(f), IsHead(f[h]), NEW k \in 1 .. Len(f[h].calls)
  PROVE  Chosen(f[h], Window(f, h), k) = << Window(f, h)[k] >>
<1> DEFINE m == f[h]
           w == Window(f, h)
           n == Len(m.calls)
           id == m.calls[k].id
           O == {j \in DOMAIN w : Answers(m, w[j]) /\ w[j].for = id}
           t == ResultsOf(m, w, id)
<1>0. m \in Msg /\ DOMAIN f = 1 .. Len(f)
    OBVIOUS
<1>1. n \in Nat /\ DOMAIN m.calls = 1 .. n
    BY <1>0, MsgFacts, Zenon
<1>2. w \in Seq(Msg)
    BY WindowFacts, Zenon
<1>3. DOMAIN w = 1 .. Len(w) /\ Len(w) \in Nat
    BY <1>2, SeqFacts, Zenon
<1>4. /\ \A j \in 1 .. n : j \in 1 .. Len(w) /\ w[j].role = "tool" /\ w[j].for = m.calls[j].id
      /\ \A j \in 1 .. Len(w) : j > n => w[j].role # "tool"
    BY BatchFacts, Zenon DEF Settled
<1>5. \A j \in 1 .. n : m.calls[j].id # "" /\ (m.calls[j].id = id => j = k)
    BY <1>0, <1>1, Zenon DEF Settled, Named, Single
<1>6. t = Those(w, O)
    BY Zenon DEF ResultsOf
<1> HIDE DEF w, id
<1>7. k \in O
  <2>1. id \in Ids(m)
    <3>1. id \in {m.calls[j].id : j \in DOMAIN m.calls} /\ id # ""
        BY <1>1, <1>5, Zenon DEF id
    <3> QED BY <3>1, Zenon DEF Ids
  <2>2. Answers(m, w[k]) /\ w[k].for = id
      BY <1>4, <2>1, Zenon DEF Answers, id
  <2> QED BY <1>3, <1>4, <2>2, Zenon
<1>8. ASSUME NEW j \in O PROVE j = k
  <2>1. j \in 1 .. Len(w) /\ w[j].role = "tool" /\ w[j].for = id
      BY <1>3, Zenon DEF Answers
  <2>2. ~(j > n)
      BY <1>4, <2>1, Zenon
  <2>3. j \in 1 .. n
    <3> HIDE DEF n
    <3> QED BY <1>1, <1>3, <2>1, <2>2
  <2> QED BY <1>4, <1>5, <2>1, <2>3, Zenon
<1>15. k \in 1 .. Len(w)
    BY <1>4, Zenon
<1> HIDE DEF O, t, m
<1>9. Len(t) = 1 /\ t[1] = w[k]
  <2>2. Len(Those(w, O)) = 1 /\ Those(w, O)[1] = w[k]
      BY <1>2, <1>7, <1>8, <1>15, OnlyOne
  <2> QED BY <1>6, <2>2, Zenon
<1>10. t \in Seq(Msg)
    BY <1>2, <1>6, ThosePlaces, Zenon
<1>11. t # <<>>
  <2>1. 1 # 0
      OBVIOUS
  <2> QED BY <1>9, <2>1, EmptySeqLen, Zenon
<1>12. BestResult(t) = w[k]
  <2>1. PICK x \in 1 .. Len(t) : BestResult(t) = t[x]
      BY <1>10, <1>11, BestIn, Zenon
  <2>2. x = 1
      BY <1>9, <2>1
  <2> QED BY <1>9, <2>1, <2>2
<1>13. IsLast(m.calls, k)
  <2>1. \A j \in 1 .. n : m.calls[j].id = m.calls[k].id => j <= k
    <3>1. k <= k
        BY <1>1 DEF m
    <3> QED BY <1>5, <3>1, Zenon DEF id
  <2> QED BY <1>1, <2>1, Zenon DEF IsLast
<1>14. Chosen(m, w, k) = << w[k] >>
    BY <1>11, <1>12, <1>13, Zenon DEF Chosen, t, id
<1> QED BY <1>14 DEF m, w

(* so a window is gathered as it stands.                                     *)
LEMMA GatheredStays ==
  ASSUME NEW f \in Seq(Msg), Settled(f), NEW h \in 1 .. Len(f), IsHead(f[h])
  PROVE  Gathered(f[h], Window(f, h)) = Window(f, h)
<1> DEFINE m == f[h]
           w == Window(f, h)
           n == Len(m.calls)
           O == {k \in DOMAIN w : ~Answers(m, w[k])}
           p == ChosenParts(m, w)
           q == SubSeq(w, 1, n)
<1>0. m \in Msg /\ DOMAIN f = 1 .. Len(f)
    OBVIOUS
<1>1. n \in Nat /\ DOMAIN m.calls = 1 .. n
    BY <1>0, MsgFacts, Zenon
<1>2. w \in Seq(Msg)
    BY WindowFacts, Zenon
<1>3. DOMAIN w = 1 .. Len(w) /\ Len(w) \in Nat
    BY <1>2, SeqFacts, Zenon
<1>4. /\ \A j \in 1 .. n : j \in 1 .. Len(w) /\ w[j].role = "tool" /\ w[j].for = m.calls[j].id
      /\ \A j \in 1 .. Len(w) : j > n => w[j].role # "tool"
    BY BatchFacts, Zenon DEF Settled
<1>5. \A j \in 1 .. n : Answers(m, w[j])
  <2>1. \A j \in 1 .. n : m.calls[j].id # ""
      BY <1>0, <1>1, Zenon DEF Settled, Named
  <2> QED BY <1>1, <1>4, <2>1, Zenon DEF Answers, Ids
<1>6. n <= Len(w)
  <2> HIDE DEF n, w
  <2>1. \A j \in 1 .. n : j \in 1 .. Len(w)
      BY <1>4, Zenon
  <2> QED BY <1>1, <1>3, <2>1
<1>7. \A k \in 1 .. n : Chosen(m, w, k) = << w[k] >>
    BY ChosenStays, Zenon
<1>8. p = [k \in 1 .. n |-> Chosen(m, w, k)]
    BY <1>1, Zenon DEF ChosenParts
<1>9. Gathered(m, w) = FlattenSeq(p) \o Those(w, O)
    BY Zenon DEF Gathered, ChosenParts
<1> HIDE DEF p, w, m, n
<1>10. q \in Seq(Msg) /\ DOMAIN q = 1 .. n /\ \A k \in 1 .. n : q[k] = w[k]
    BY <1>1, <1>2, <1>3, <1>6
<1> HIDE DEF q
<1>11. p = [k \in DOMAIN q |-> << q[k] >>]
    BY <1>7, <1>8, <1>10, Zenon
<1>12. FlattenSeq(p) = q
    BY <1>10, <1>11, FlatSingles, Zenon
<1>13. \A k \in 1 .. Len(w) : k \in O <=> k > n
  <2>1. ASSUME NEW k \in 1 .. Len(w) PROVE k \in O <=> k > n
    <3>1. CASE k > n
        BY <1>3, <1>4, <3>1, Zenon DEF Answers
    <3>2. CASE ~(k > n)
      <4>1. k \in 1 .. n
          BY <1>1, <1>3, <3>2
      <4> QED BY <1>5, <3>2, <4>1, Zenon
    <3> QED BY <3>1, <3>2
  <2> QED BY <2>1
<1> HIDE DEF O
<1>14. Those(w, O) = SubSeq(w, n + 1, Len(w))
  <2>1. n \in 0 .. Len(w)
      BY <1>1, <1>3, <1>6
  <2> QED BY <1>2, <1>13, <2>1, ThoseTail, Zenon
<1>15. q \o SubSeq(w, n + 1, Len(w)) = w
  <2>1. 1 \in 1 .. Len(w) + 1 /\ n \in 1 - 1 .. Len(w) /\ Len(w) \in n .. Len(w)
      BY <1>1, <1>3, <1>6
  <2>2. SubSeq(w, 1, n) \o SubSeq(w, n + 1, Len(w)) = SubSeq(w, 1, Len(w))
      BY <1>2, <2>1, SplitSeq, Zenon
  <2>3. SubSeq(w, 1, Len(w)) = w
      BY <1>2
  <2> QED BY <2>2, <2>3, Zenon DEF q
<1>16. Gathered(m, w) = w
    BY <1>9, <1>12, <1>14, <1>15, Zenon
<1> QED BY <1>16 DEF m, w

(* Whether there is a head up to n, and how far the history is written once  *)
(* the first n parts are.                                                    *)
HeadIn(f, n) == \E h \in 1 .. n : IsHead(f[h])

Reach(f, n) == IF HeadIn(f, n) THEN NextHead(f, n) - 1 ELSE n

(* A head writes up to the next one;                                         *)
LEMMA ReachHead ==
  ASSUME NEW f \in Seq(Msg), NEW i \in 1 .. Len(f), IsHead(f[i])
  PROVE  Reach(f, i - 1) = i - 1 /\ Reach(f, i) = NextHead(f, i) - 1
<1>0. Len(f) \in Nat /\ i \in 1 .. i
    OBVIOUS
<1>1. Reach(f, i) = NextHead(f, i) - 1
    BY <1>0, Zenon DEF Reach, HeadIn
<1>2. ASSUME HeadIn(f, i - 1) PROVE NextHead(f, i - 1) - 1 = i - 1
  <2>1. PICK h \in 1 .. i - 1 : IsHead(f[h])
      BY <1>2, Zenon DEF HeadIn
  <2>2. i - 1 \in 1 .. Len(f)
      BY <1>0, <2>1
  <2> DEFINE e == NextHead(f, i - 1)
  <2>3. /\ e \in (i - 1) + 1 .. Len(f) + 1
        /\ \A j \in (i - 1) + 1 .. e - 1 : ~IsHead(f[j])
      BY <2>2, NextHeadFacts, Zenon
  <2> HIDE DEF e
  <2>4. ~(i \in (i - 1) + 1 .. e - 1)
      BY <2>3, Zenon
  <2>5. e - 1 = i - 1
      BY <1>0, <2>3, <2>4
  <2> QED BY <2>5 DEF e
<1>3. Reach(f, i - 1) = i - 1
    BY <1>2, Zenon DEF Reach
<1> QED BY <1>1, <1>3

(* what stands behind a head writes nothing;                                 *)
LEMMA ReachInside ==
  ASSUME NEW f \in Seq(Msg), NEW i \in 1 .. Len(f), ~IsHead(f[i]), HeadIn(f, i - 1)
  PROVE  Reach(f, i - 1) = Reach(f, i)
<1>0. Len(f) \in Nat
    OBVIOUS
<1>1. PICK h \in 1 .. i - 1 : IsHead(f[h])
    BY Zenon DEF HeadIn
<1>2. i - 1 \in 1 .. Len(f) /\ h \in 1 .. i /\ (i - 1) + 1 = i
    BY <1>0, <1>1
<1> DEFINE d == NextHead(f, i - 1)
           e == NextHead(f, i)
           N == Len(f)
<1>3. /\ d \in (i - 1) + 1 .. N + 1
      /\ \A j \in (i - 1) + 1 .. d - 1 : ~IsHead(f[j])
      /\ d <= N => IsHead(f[d])
    BY <1>2, NextHeadFacts, Zenon
<1>4. /\ e \in i + 1 .. N + 1
      /\ \A j \in i + 1 .. e - 1 : ~IsHead(f[j])
      /\ e <= N => IsHead(f[e])
    BY NextHeadFacts, Zenon
<1>5. N \in Nat
    BY <1>0
<1>6. Reach(f, i - 1) = d - 1 /\ Reach(f, i) = e - 1
    BY <1>1, <1>2, Zenon DEF Reach, HeadIn
<1> HIDE DEF d, e, N
<1>7. d # i
  <2>1. i <= N
      BY DEF N
  <2> QED BY <1>3, <2>1, Zenon
<1>8. ~(d < e)
  <2> SUFFICES ASSUME d < e PROVE FALSE
      OBVIOUS
  <2>1. d \in i + 1 .. e - 1 /\ d <= N
      BY <1>3, <1>4, <1>5, <1>7
  <2> QED BY <1>3, <1>4, <2>1, Zenon
<1>9. ~(e < d)
  <2> SUFFICES ASSUME e < d PROVE FALSE
      OBVIOUS
  <2>1. e \in (i - 1) + 1 .. d - 1 /\ e <= N
      BY <1>3, <1>4, <1>5
  <2> QED BY <1>3, <1>4, <2>1, Zenon
<1>10. d = e
    BY <1>3, <1>4, <1>5, <1>8, <1>9
<1> QED BY <1>6, <1>10

(* what stands before every head writes itself.                              *)
LEMMA ReachBefore ==
  ASSUME NEW f \in Seq(Msg), NEW i \in 1 .. Len(f), ~IsHead(f[i]), ~HeadIn(f, i - 1)
  PROVE  Reach(f, i - 1) = i - 1 /\ Reach(f, i) = i
<1>1. ~HeadIn(f, i)
  <2> SUFFICES ASSUME NEW h \in 1 .. i, IsHead(f[h]) PROVE FALSE
      BY Zenon DEF HeadIn
  <2>1. h # i
      BY Zenon
  <2>2. h \in 1 .. i - 1
      BY <2>1
  <2> QED BY <2>2, Zenon DEF HeadIn
<1> QED BY <1>1, Zenon DEF Reach

(* A beginning of a sequence, one longer and longer still.                   *)
LEMMA SplitOne ==
  ASSUME NEW S, NEW s \in Seq(S), NEW i \in 1 .. Len(s), NEW e \in i .. Len(s)
  PROVE  /\ SubSeq(s, 1, i - 1) \o << s[i] >> = SubSeq(s, 1, i)
         /\ SubSeq(s, 1, i - 1) \o (<< s[i] >> \o SubSeq(s, i + 1, e)) = SubSeq(s, 1, e)
<1>1. << s[i] >> = SubSeq(s, i, i)
    OBVIOUS
<1>2. Len(s) \in Nat /\ 1 \in 1 .. Len(s) + 1 /\ i - 1 \in 1 - 1 .. Len(s) /\ i \in i - 1 .. Len(s) /\ (i - 1) + 1 = i
      /\ i \in 1 .. Len(s) + 1 /\ e \in i - 1 .. Len(s)
    OBVIOUS
<1>3. SubSeq(s, 1, i - 1) \o SubSeq(s, (i - 1) + 1, i) = SubSeq(s, 1, i)
    BY <1>2, SplitSeq, Zenon
<1>4. SubSeq(s, 1, i - 1) \o SubSeq(s, (i - 1) + 1, e) = SubSeq(s, 1, e)
    BY <1>2, SplitSeq, Zenon
<1>5. SubSeq(s, i, i) \o SubSeq(s, i + 1, e) = SubSeq(s, i, e)
    BY <1>2, SplitSeq, Zenon
<1> QED BY <1>1, <1>2, <1>3, <1>4, <1>5, Zenon

(* The part of each message takes the written history from one reach to the  *)
(* next.                                                                     *)
LEMMA PartStays ==
  ASSUME NEW f \in Seq(Msg), Settled(f), NEW i \in 1 .. Len(f)
  PROVE  SubSeq(f, 1, Reach(f, i - 1)) \o Part(f, i) = SubSeq(f, 1, Reach(f, i))
<1>1. CASE IsHead(f[i])
  <2>1. Part(f, i) = << f[i] >> \o Gathered(f[i], Window(f, i))
      BY <1>1, Zenon DEF Part, Window
  <2>2. Gathered(f[i], Window(f, i)) = SubSeq(f, i + 1, NextHead(f, i) - 1)
      BY <1>1, GatheredStays, Zenon DEF Window
  <2>3. Reach(f, i - 1) = i - 1 /\ Reach(f, i) = NextHead(f, i) - 1
      BY <1>1, ReachHead, Zenon
  <2>4. NextHead(f, i) \in i + 1 .. Len(f) + 1 /\ Len(f) \in Nat
      BY NextHeadFacts
  <2>5. NextHead(f, i) - 1 \in i .. Len(f)
      BY <2>4
  <2>6. SubSeq(f, 1, i - 1) \o (<< f[i] >> \o SubSeq(f, i + 1, NextHead(f, i) - 1)) = SubSeq(f, 1, NextHead(f, i) - 1)
      BY <2>5, SplitOne, Zenon
  <2> QED BY <2>1, <2>2, <2>3, <2>6, Zenon
<1>2. CASE ~IsHead(f[i]) /\ HeadIn(f, i - 1)
  <2>1. Part(f, i) = <<>>
      BY <1>2, Zenon DEF Part, HeadIn
  <2>2. Reach(f, i - 1) = Reach(f, i)
      BY <1>2, ReachInside, Zenon
  <2> DEFINE s == SubSeq(f, 1, Reach(f, i))
  <2>3. s \in Seq(Msg)
    <3>1. NextHead(f, i) - 1 \in i .. Len(f) /\ Len(f) \in Nat
        BY NextHeadFacts
    <3>2. Reach(f, i) = NextHead(f, i) - 1 \/ Reach(f, i) = i
        BY Zenon DEF Reach
    <3>3. Reach(f, i) \in 1 .. Len(f)
        BY <3>1, <3>2
    <3> QED BY <3>3
  <2> HIDE DEF s
  <2>4. s \o <<>> = s
      BY <2>3
  <2> QED BY <2>1, <2>2, <2>4, Zenon DEF s
<1>3. CASE ~IsHead(f[i]) /\ ~HeadIn(f, i - 1)
  <2>1. Part(f, i) = << f[i] >>
      BY <1>3, Zenon DEF Part, HeadIn
  <2>2. Reach(f, i - 1) = i - 1 /\ Reach(f, i) = i
      BY <1>3, ReachBefore, Zenon
  <2>3. i \in i .. Len(f)
      OBVIOUS
  <2>4. SubSeq(f, 1, i - 1) \o << f[i] >> = SubSeq(f, 1, i)
      BY <2>3, SplitOne, Zenon
  <2> QED BY <2>1, <2>2, <2>4, Zenon
<1> QED BY <1>1, <1>2, <1>3

(* A settled history is left alone by repacking,                             *)
LEMMA RepackStays ==
  ASSUME NEW f \in Seq(Msg), Settled(f)
  PROVE  Repack(f) = f
<1> DEFINE p == RepackParts(f)
           N == Len(f)
           I == {n \in Nat : n <= N => Pre(p, n) = SubSeq(f, 1, Reach(f, n))}
<1>0. N \in Nat /\ SubSeq(f, 1, 0) = <<>> /\ SubSeq(f, 1, N) = f
    OBVIOUS
<1>1. p \in Seq(Seq(Msg)) /\ Len(p) = N /\ \A i \in 1 .. N : p[i] = Part(f, i)
  <2>2. p \in Seq(Seq(Msg))
      BY PartsFrom, Zenon
  <2>3. DOMAIN f = 1 .. N
      OBVIOUS
  <2>4. p = [i \in 1 .. N |-> Part(f, i)]
      BY <2>3, Zenon DEF RepackParts
  <2> HIDE DEF p, N
  <2>5. Len(p) = N
      BY <1>0, <2>2, <2>4
  <2>6. \A i \in 1 .. N : p[i] = Part(f, i)
      BY <2>4, Zenon
  <2> QED BY <2>2, <2>5, <2>6
<1> HIDE DEF p
<1>2. /\ FlattenSeq(p) = Pre(p, N) /\ Pre(p, 0) = <<>>
      /\ \A n \in 1 .. N : Pre(p, n) = Pre(p, n - 1) \o p[n]
    BY <1>1, FlatNext, Zenon
<1>3. Reach(f, 0) = 0
  <2>1. ~HeadIn(f, 0)
    <3>1. \A h \in 1 .. 0 : FALSE
        OBVIOUS
    <3> QED BY <3>1, Zenon DEF HeadIn
  <2> QED BY <2>1, Zenon DEF Reach
<1>4. 0 \in I
    BY <1>0, <1>2, <1>3
<1>5. ASSUME NEW n \in Nat, n \in I PROVE n + 1 \in I
  <2> SUFFICES ASSUME n + 1 <= N PROVE Pre(p, n + 1) = SubSeq(f, 1, Reach(f, n + 1))
      OBVIOUS
  <2>1. n <= N /\ n + 1 \in 1 .. N /\ (n + 1) - 1 = n
      BY <1>0
  <2>2. Pre(p, n) = SubSeq(f, 1, Reach(f, n))
      BY <1>5, <2>1, Zenon
  <2>3. Pre(p, n + 1) = Pre(p, n) \o Part(f, n + 1)
    <3>1. Pre(p, n + 1) = Pre(p, (n + 1) - 1) \o p[n + 1] /\ p[n + 1] = Part(f, n + 1)
        BY <1>1, <1>2, <2>1, Zenon
    <3> QED BY <2>1, <3>1
  <2>4. SubSeq(f, 1, Reach(f, (n + 1) - 1)) \o Part(f, n + 1) = SubSeq(f, 1, Reach(f, n + 1))
      BY <2>1, PartStays, Zenon
  <2> QED BY <2>1, <2>2, <2>3, <2>4, Zenon
<1> HIDE DEF I
<1>6. N \in I
    BY <1>0, <1>4, <1>5, SetInduction, Zenon
<1>7. Pre(p, N) = SubSeq(f, 1, Reach(f, N))
    BY <1>0, <1>6 DEF I
<1>8. Reach(f, N) = N
  <2>1. CASE HeadIn(f, N)
    <3>1. N \in 1 .. N
        BY <1>0, <2>1 DEF HeadIn
    <3>2. NextHead(f, N) \in N + 1 .. N + 1
        BY <3>1, NextHeadFacts, Zenon
    <3>3. NextHead(f, N) - 1 = N
        BY <1>0, <3>2
    <3> QED BY <2>1, <3>3, Zenon DEF Reach
  <2>2. CASE ~HeadIn(f, N)
      BY <2>2, Zenon DEF Reach
  <2> QED BY <2>1, <2>2
<1>9. FlattenSeq(p) = f
    BY <1>0, <1>2, <1>7, <1>8, Zenon
<1> QED BY <1>9, Zenon DEF Repack, RepackParts, p

(* and by repair as a whole.                                                 *)
LEMMA RepairStays ==
  ASSUME NEW f \in Seq(Msg), Settled(f)
  PROVE  Repair(f) = f
<1>1. Merge(f) = f /\ Fill(f) = f /\ Repack(f) = f /\ Cleanup(f) = f
    BY MergeStays, FillStays, RepackStays, CleanupStays, Zenon DEF Settled
<1> QED BY <1>1, Zenon DEF Repair

(* Repairing what is repaired changes nothing.                               *)
LEMMA RepairIsStableHolds == ConvertInv => RepairIsStable
<1> SUFFICES ASSUME ConvertInv, pc = "chat", InTime(Merge(chat)) PROVE Repair(Repair(chat)) = Repair(chat)
    BY Zenon DEF RepairIsStable
<1>1. Parsed /\ Request(in.proto, in.wire)
  <2>1. pc # "wire"
      OBVIOUS
  <2> QED BY <2>1, Zenon DEF ConvertInv
<1>2. chat \in Seq(Msg)
    BY <1>1, ParseIn, Zenon DEF Parsed
<1>3. Repair(chat) \in Seq(Msg) /\ Settled(Repair(chat))
    BY <1>2, RepairPaired, RepairNamed, RepairSingle, Zenon DEF Settled
<1> QED BY <1>3, RepairStays, Zenon

(* A history that is in time once merged always reaches WorkBuddy with one   *)
(* result for every call, right behind its head and in the order of the      *)
(* calls; no call without a name or an id reaches it in any history; and     *)
(* repairing a repaired history changes nothing more (tool_repair.py).      *)
THEOREM RepairHoldsAlways == Spec => []RepairHolds
<1>1. ConvertInv => RepairHolds
    BY RepairedIsPairedHolds, RepairIsStableHolds, Zenon DEF RepairHolds
<1> QED BY <1>1, ConvertTyping, PTL

-------------------------------------------------------------------------------
(* Reasoning stays with what it precedes                                     *)

(* Every place that is picked is there.                                      *)
LEMMA PickedPlaces ==
  ASSUME NEW S, NEW s \in Seq(S), NEW K
  PROVE  \E g \in [1 .. Len(Those(s, K)) -> 1 .. Len(s)] :
           /\ \A x \in 1 .. Len(Those(s, K)) : g[x] \in K /\ Those(s, K)[x] = s[g[x]]
           /\ \A y \in 1 .. Len(s) : y \in K => \E x \in 1 .. Len(Those(s, K)) : g[x] = y
  BY ThosePlaces

(* A sequence that has a member.                                             *)
HasPlace(h, x) == \E z \in DOMAIN h : h[z] = x

(* So it is for positions.                                                   *)
LEMMA PickedAll ==
  ASSUME NEW a \in Nat, NEW b \in Nat, NEW j \in a .. b, NEW K, NEW k \in K, k = j - a + 1
  PROVE  HasPlace(Those(Positions(a, b), K), j)
<1> DEFINE s == Positions(a, b)
           n == b - a + 1
           t == Those(s, K)
<1>1. n \in Nat /\ k \in 1 .. n /\ a + k - 1 = j /\ \A x \in 1 .. n : a + x - 1 \in Int
    OBVIOUS
<1>2. s \in [1 .. n -> Int]
    BY <1>1, Zenon DEF Positions
<1>3. s[k] = j
    BY <1>1 DEF Positions
<1> HIDE DEF s, n
<1>4. s \in Seq(Int) /\ Len(s) = n
    BY <1>1, <1>2, FunSeq, Zenon
<1>5. s \in Seq(Int)
    BY <1>4
<1>6. /\ Those(s, K) \in Seq(Int)
      /\ \E g \in [1 .. Len(Those(s, K)) -> 1 .. Len(s)] :
           /\ \A x \in 1 .. Len(Those(s, K)) : g[x] \in K /\ Those(s, K)[x] = s[g[x]]
           /\ \A y \in 1 .. Len(s) : y \in K => \E x \in 1 .. Len(Those(s, K)) : g[x] = y
  <2>1. Those(s, K) \in Seq(Int)
      BY <1>5, ThosePlaces
  <2>2. \E g \in [1 .. Len(Those(s, K)) -> 1 .. Len(s)] :
           /\ \A x \in 1 .. Len(Those(s, K)) : g[x] \in K /\ Those(s, K)[x] = s[g[x]]
           /\ \A y \in 1 .. Len(s) : y \in K => \E x \in 1 .. Len(Those(s, K)) : g[x] = y
      BY <1>5, PickedPlaces
  <2> QED BY <2>1, <2>2
<1> HIDE DEF t
<1>7. PICK g \in [1 .. Len(t) -> 1 .. Len(s)] :
        /\ \A x \in 1 .. Len(t) : g[x] \in K /\ t[x] = s[g[x]]
        /\ \A y \in 1 .. Len(s) : y \in K => \E x \in 1 .. Len(t) : g[x] = y
    BY <1>6, Zenon DEF t
<1>8. k \in 1 .. Len(s) /\ k \in K
    BY <1>1, <1>4
<1>9. PICK x \in 1 .. Len(t) : g[x] = k
    BY <1>7, <1>8, Zenon
<1>10. t[x] = j
    BY <1>3, <1>7, <1>9, Zenon
<1>11. DOMAIN t = 1 .. Len(t)
    BY <1>6, SeqFacts, Zenon DEF t
<1> QED BY <1>9, <1>10, <1>11, Zenon DEF t, s, HasPlace

(* Every piece is in the message of some first piece, which is of its side.  *)
LEMMA FirstPiece ==
  ASSUME NEW proto, NEW w \in Wires, Glued(proto, w), NEW i \in 1 .. Len(w)
  PROVE  \E a \in 1 .. i : ~w[a].glue /\ i \in a .. GroupEnd(w, a)
<1> DEFINE N == Len(w)
           In(n) == \E a \in 1 .. n : ~w[a].glue /\ n \in a .. GroupEnd(w, a)
           I == {n \in Nat : n + 1 <= N => In(n + 1)}
<1>1. N \in Nat /\ DOMAIN w = 1 .. N
    BY WireFacts, Zenon
<1>2. \A a \in 1 .. N : /\ GroupEnd(w, a) \in a .. N /\ (GroupEnd(w, a) = N \/ ~w[GroupEnd(w, a) + 1].glue)
    BY GroupEndFacts, Zenon
<1> HIDE DEF N
<1>3. ASSUME NEW n \in 1 .. N, ~w[n].glue PROVE In(n)
  <2>1. GroupEnd(w, n) \in n .. N
      BY <1>2, <1>3
  <2>2. n \in 1 .. n /\ n \in n .. GroupEnd(w, n)
      BY <1>1, <2>1
  <2> QED BY <1>3, <2>2
<1>4. 0 \in I
  <2> SUFFICES ASSUME 0 + 1 <= N PROVE In(0 + 1)
      OBVIOUS
  <2>1. 1 \in 1 .. N /\ 0 + 1 = 1
      BY <1>1
  <2>2. ~w[1].glue
    <3>1. ~(1 > 1)
        OBVIOUS
    <3> QED BY <1>1, <2>1, <3>1, Zenon DEF Glued
  <2>3. In(1)
      BY <1>3, <2>1, <2>2
  <2> QED BY <2>1, <2>3
<1>5. ASSUME NEW n \in Nat, n \in I PROVE n + 1 \in I
  <2> SUFFICES ASSUME n + 1 + 1 <= N PROVE In(n + 1 + 1)
      OBVIOUS
  <2> DEFINE m == n + 1
  <2>1. m \in 1 .. N /\ m + 1 \in 1 .. N /\ m <= N /\ m # N /\ m \in Nat
      BY <1>1
  <2>2. In(m)
      BY <1>5, <2>1
  <2> HIDE DEF m
  <2>3. CASE ~w[m + 1].glue
    <3>1. In(m + 1)
        BY <1>3, <2>1, <2>3
    <3> QED BY <3>1 DEF m
  <2>4. CASE w[m + 1].glue
    <3>1. PICK a \in 1 .. m : ~w[a].glue /\ m \in a .. GroupEnd(w, a)
        BY <2>2
    <3>2. a \in 1 .. N /\ a \in 1 .. m + 1
        BY <1>1, <2>1, <3>1
    <3>3. GroupEnd(w, a) \in a .. N /\ (GroupEnd(w, a) = N \/ ~w[GroupEnd(w, a) + 1].glue)
        BY <1>2, <3>2, Zenon
    <3> DEFINE e == GroupEnd(w, a)
    <3> HIDE DEF e
    <3>4. e # m
        BY <2>1, <2>4, <3>3, Zenon DEF e
    <3>5. m + 1 \in a .. e
        BY <1>1, <2>1, <3>1, <3>2, <3>3, <3>4 DEF e
    <3>6. In(m + 1)
        BY <3>1, <3>2, <3>5, Zenon DEF e
    <3> QED BY <3>6 DEF m
  <2> QED BY <2>3, <2>4
<1> HIDE DEF I
<1>6. \A n \in Nat : n \in I
    BY <1>4, <1>5, SetInduction, Zenon
<1>7. i - 1 \in Nat /\ (i - 1) + 1 = i /\ i <= N
    BY <1>1 DEF N
<1>8. In(i)
    BY <1>6, <1>7 DEF I
<1> QED BY <1>8

(* A piece glued to the one before is in the message of that one.            *)
LEMMA SameFirst ==
  ASSUME NEW proto, NEW w \in Wires, Glued(proto, w), NEW i \in 1 .. Len(w), i + 1 \in 1 .. Len(w), w[i + 1].glue
  PROVE  \E a \in 1 .. i : ~w[a].glue /\ i \in a .. GroupEnd(w, a) /\ i + 1 \in a .. GroupEnd(w, a)
<1>1. PICK a \in 1 .. i : ~w[a].glue /\ i \in a .. GroupEnd(w, a)
    BY FirstPiece, Zenon
<1>2. a \in 1 .. Len(w) /\ i # Len(w) /\ Len(w) \in Nat
  <2>1. Len(w) \in Nat
      BY WireFacts, Zenon
  <2> QED BY <2>1
<1>3. GroupEnd(w, a) \in a .. Len(w) /\ (GroupEnd(w, a) = Len(w) \/ ~w[GroupEnd(w, a) + 1].glue)
    BY <1>2, GroupEndFacts, Zenon
<1> DEFINE e == GroupEnd(w, a)
<1> HIDE DEF e
<1>4. e # i
    BY <1>2, <1>3, Zenon DEF e
<1>5. i + 1 \in a .. e
    BY <1>1, <1>2, <1>3, <1>4 DEF e
<1> QED BY <1>1, <1>5, Zenon DEF e

(* What message m should hold of piece i and of the next piece.              *)
Holds(proto, w, i, m) ==
  /\ HasPlace(m.think, i)
  /\ IF w[i + 1].k = "say" THEN HasPlace(m.text, i + 1) ELSE HasPlace(m.calls, CallOf(proto, w, i + 1))

(* The four fields of a message given them.                                  *)
LEMMA FilledFields ==
  ASSUME NEW r \in MsgType, NEW t, NEW g, NEW h, NEW c
  PROVE  Filled(r, t, g, h, c).think = h /\ Filled(r, t, g, h, c).text = t /\ Filled(r, t, g, h, c).calls = c
  BY DEF MsgType, Filled

(* One message of the pieces a .. b has what each of them is.                *)
LEMMA GroupedHas ==
  ASSUME NEW proto, NEW role \in Roles, NEW w \in Wires, NEW a \in 1 .. Len(w), NEW b \in a .. Len(w), NEW j \in a .. b
  PROVE  /\ w[j].k = "think" => HasPlace(Grouped(proto, role, w, a, b).think, j)
         /\ w[j].k = "say" => HasPlace(Grouped(proto, role, w, a, b).text, j)
         /\ IsCall(w[j]) => HasPlace(Grouped(proto, role, w, a, b).calls, CallOf(proto, w, j))
<1> DEFINE KT == {k \in 1 .. b - a + 1 : w[a + k - 1].k \in {"user", "say", "system"}}
           KH == {k \in 1 .. b - a + 1 : w[a + k - 1].k = "think"}
           KC == {k \in 1 .. b - a + 1 : IsCall(w[a + k - 1])}
           t == Those(Positions(a, b), KT)
           h == Those(Positions(a, b), KH)
           g == \E l \in a .. b : w[l].k = "image"
           d == Those(Positions(a, b), KC)
           c == MadeCalls(proto, w, d)
           r == Message(role)
<1>1. a \in Nat /\ b \in Nat /\ a <= b
  <2>1. Len(w) \in Nat
      BY WireFacts
  <2> QED BY <2>1
<1>2. r \in MsgType
    BY MessageFacts, Zenon DEF Msg, Roles
<1>3. Grouped(proto, role, w, a, b) = Filled(r, t, g, h, c)
    BY Zenon DEF Grouped, Pick, Positions, Filled, MadeCalls
<1> DEFINE q == Grouped(proto, role, w, a, b)
<1>4. q.think = h /\ q.text = t /\ q.calls = c
  <2> HIDE DEF t, h, g, c, r, q
  <2> DEFINE f == Filled(r, t, g, h, c)
  <2>1. f.think = h /\ f.text = t /\ f.calls = c
      BY <1>2, FilledFields
  <2>2. q = f
      BY <1>3, Zenon DEF q
  <2> HIDE DEF f
  <2> QED BY <2>1, <2>2
<1> DEFINE y == j - a + 1
<1>5. j \in a .. b /\ y \in 1 .. b - a + 1 /\ a + y - 1 = j /\ y = j - a + 1
    BY <1>1
<1> HIDE DEF y
<1>6. ASSUME w[j].k = "think" PROVE HasPlace(h, j)
  <2>1. y \in KH
      BY <1>5, <1>6
  <2> HIDE DEF KH
  <2> QED BY <1>1, <1>5, <2>1, PickedAll, Zenon
<1>7. ASSUME w[j].k = "say" PROVE HasPlace(t, j)
  <2>1. y \in KT
      BY <1>5, <1>7
  <2> HIDE DEF KT
  <2> QED BY <1>1, <1>5, <2>1, PickedAll, Zenon
<1>8. ASSUME IsCall(w[j]) PROVE HasPlace(c, CallOf(proto, w, j))
  <2>1. y \in KC
      BY <1>5, <1>8
  <2> HIDE DEF KC
  <2>2. HasPlace(d, j)
      BY <1>1, <1>5, <2>1, PickedAll, Zenon
  <2>3. PICK z \in DOMAIN d : d[z] = j
      BY <2>2, Zenon DEF HasPlace
  <2> HIDE DEF d
  <2>4. z \in DOMAIN c /\ c[z] = CallOf(proto, w, j)
      BY <2>3, Zenon DEF MadeCalls
  <2> HIDE DEF c
  <2> QED BY <2>4, Zenon DEF HasPlace
<1> HIDE DEF t, h, c, q
<1> QED BY <1>4, <1>6, <1>7, <1>8, Zenon DEF q

(* So one message holds what it should of the two.                           *)
LEMMA GroupedHolds ==
  ASSUME NEW proto, NEW role \in Roles, NEW w \in Wires, NEW a \in 1 .. Len(w), NEW b \in a .. Len(w),
         NEW i \in a .. b, i + 1 \in a .. b, w[i].k = "think", w[i + 1].k = "say" \/ IsCall(w[i + 1])
  PROVE  Holds(proto, w, i, Grouped(proto, role, w, a, b))
<1> DEFINE q == Grouped(proto, role, w, a, b)
           j == i + 1
<1>1. j \in a .. b
    OBVIOUS
<1> HIDE DEF j
<1>2. HasPlace(q.think, i)
    BY GroupedHas, Zenon
<1>3. /\ w[j].k = "say" => HasPlace(q.text, j)
      /\ IsCall(w[j]) => HasPlace(q.calls, CallOf(proto, w, j))
    BY <1>1, GroupedHas, Zenon
<1> QED BY <1>2, <1>3, Zenon DEF Holds, j

(* A message that is in a part is in the join.                               *)
LEMMA InJoin ==
  ASSUME NEW S, NEW p \in Seq(Seq(S)), NEW i \in 1 .. Len(p), NEW k \in 1 .. Len(p[i])
  PROVE  HasPlace(FlattenSeq(p), p[i][k])
<1>1. At(p, i, k) \in 1 .. Len(FlattenSeq(p)) /\ FlattenSeq(p)[At(p, i, k)] = p[i][k]
    BY FlatPlaces, Zenon
<1>2. DOMAIN FlattenSeq(p) = 1 .. Len(FlattenSeq(p))
    BY FlatIn, SeqFacts, Zenon
<1> QED BY <1>1, <1>2, Zenon DEF HasPlace

(* The pieces of a group are of the side of its first one.                   *)
LEMMA ThinkSide ==
  ASSUME NEW proto \in Protos, NEW w \in Wires, Glued(proto, w), NEW a \in 1 .. Len(w),
         NEW i \in a .. GroupEnd(w, a), w[i].k = "think"
  PROVE  Side(proto, w[a]) = "assistant"
<1>1. Side(proto, w[i]) = "assistant"
  <2>1. i \in 1 .. Len(w)
    <3>1. Len(w) \in Nat /\ GroupEnd(w, a) \in a .. Len(w)
        BY WireFacts, GroupEndFacts, Zenon
    <3> QED BY <3>1
  <2>2. w[i].k \in Kinds
      BY <2>1, WireFacts, Zenon
  <2>3. ~IsCall(w[i]) /\ ~IsResult(w[i])
      BY <2>2, SideFacts, Zenon
  <2> QED BY <2>3 DEF Side
<1>2. GroupEnd(w, a) \in a .. Len(w) /\ \A j \in a + 1 .. GroupEnd(w, a) : w[j].glue
    BY GroupEndFacts, Zenon
<1>3. \A j \in a .. GroupEnd(w, a) : Side(proto, w[j]) = Side(proto, w[a])
    BY <1>2, SameSide
<1> QED BY <1>1, <1>3, Zenon

(* In Chat Completions reasoning stays in the message it is glued to.        *)
LEMMA ChatReasons ==
  ASSUME NEW w, Request("chat", w), NEW i \in 1 .. Len(w), i + 1 \in 1 .. Len(w),
         w[i].k = "think", w[i + 1].k = "say" \/ IsCall(w[i + 1]), w[i + 1].glue
  PROVE  \E x \in DOMAIN ParseChat(w) : Holds("chat", w, i, ParseChat(w)[x])
<1>1. "chat" \in Protos /\ w \in Wires /\ Glued("chat", w)
    BY DEF Request, Protos
<1>2. PICK a \in 1 .. i : ~w[a].glue /\ i \in a .. GroupEnd(w, a) /\ i + 1 \in a .. GroupEnd(w, a)
    BY <1>1, SameFirst, Zenon
<1> DEFINE b == GroupEnd(w, a)
           side == Side("chat", w[a])
           m == Grouped("chat", side, w, a, b)
           p == ChatParts(w)
<1>3. a \in 1 .. Len(w)
  <2>1. Len(w) \in Nat
      BY <1>1, WireFacts, Zenon
  <2> QED BY <2>1
<1>4. b \in a .. Len(w)
    BY <1>1, <1>3, GroupEndFacts, Zenon
<1>5. side = "assistant"
    BY <1>1, <1>2, <1>3, ThinkSide, Zenon
<1>6. ~IsResult(w[a])
  <2>1. w[a].k \in Kinds
      BY <1>1, <1>3, WireFacts, Zenon
  <2> QED BY <1>1, <1>5, <2>1, SideFacts, Zenon
<1>7. p[a] = << m >>
  <2>1. DOMAIN w = 1 .. Len(w)
      BY <1>1, WireFacts, Zenon
  <2> QED BY <1>2, <1>3, <1>6, <2>1, Zenon DEF ChatParts
<1>8. Holds("chat", w, i, m)
  <2>1. side \in Roles
      BY <1>5 DEF Roles
  <2> HIDE DEF side, b
  <2>2. i \in a .. b /\ i + 1 \in a .. b
      BY <1>2 DEF b
  <2> QED BY <1>1, <1>3, <1>4, <2>1, <2>2, GroupedHolds, Zenon
<1>9. ParseChat(w) = FlattenSeq(p) /\ p \in Seq(Seq(Msg)) /\ Len(p) = Len(w)
    BY ChatIn, Zenon
<1> HIDE DEF m, p
<1>10. a \in 1 .. Len(p) /\ 1 \in 1 .. Len(p[a]) /\ p[a][1] = m
    BY <1>3, <1>7, <1>9
<1>11. HasPlace(FlattenSeq(p), p[a][1])
    BY <1>3, <1>9, <1>10, InJoin
<1>12. PICK x \in DOMAIN FlattenSeq(p) : FlattenSeq(p)[x] = m
    BY <1>10, <1>11, Zenon DEF HasPlace
<1> QED BY <1>8, <1>9, <1>12, Zenon

(* And so it does in Anthropic messages.                                     *)
LEMMA AnthropicReasons ==
  ASSUME NEW w, Request("anthropic", w), NEW i \in 1 .. Len(w), i + 1 \in 1 .. Len(w),
         w[i].k = "think", w[i + 1].k = "say" \/ IsCall(w[i + 1]), w[i + 1].glue
  PROVE  \E x \in DOMAIN ParseAnthropic(w) : Holds("anthropic", w, i, ParseAnthropic(w)[x])
<1>1. "anthropic" \in Protos /\ w \in Wires /\ Glued("anthropic", w)
    BY DEF Request, Protos
<1>2. PICK a \in 1 .. i : ~w[a].glue /\ i \in a .. GroupEnd(w, a) /\ i + 1 \in a .. GroupEnd(w, a)
    BY <1>1, SameFirst, Zenon
<1> DEFINE b == GroupEnd(w, a)
           m == Grouped("anthropic", "assistant", w, a, b)
           p == AnthropicParts(w)
<1>3. a \in 1 .. Len(w)
  <2>1. Len(w) \in Nat
      BY <1>1, WireFacts, Zenon
  <2> QED BY <2>1
<1>4. b \in a .. Len(w)
    BY <1>1, <1>3, GroupEndFacts, Zenon
<1>5. Side("anthropic", w[a]) = "assistant"
    BY <1>1, <1>2, <1>3, ThinkSide, Zenon
<1>7. p[a] = << m >>
  <2>1. DOMAIN w = 1 .. Len(w)
      BY <1>1, WireFacts, Zenon
  <2> QED BY <1>2, <1>3, <1>5, <2>1, Zenon DEF AnthropicParts, AnthropicPart
<1>8. Holds("anthropic", w, i, m)
  <2>1. "assistant" \in Roles
      BY DEF Roles
  <2> HIDE DEF b
  <2>2. i \in a .. b /\ i + 1 \in a .. b
      BY <1>2 DEF b
  <2> QED BY <1>1, <1>3, <1>4, <2>1, <2>2, GroupedHolds, Zenon
<1>9. ParseAnthropic(w) = FlattenSeq(p) /\ p \in Seq(Seq(Msg)) /\ Len(p) = Len(w)
    BY AnthropicIn, Zenon
<1> HIDE DEF m, p
<1>10. a \in 1 .. Len(p) /\ 1 \in 1 .. Len(p[a]) /\ p[a][1] = m
    BY <1>3, <1>7, <1>9
<1>11. HasPlace(FlattenSeq(p), p[a][1])
    BY <1>3, <1>9, <1>10, InJoin
<1>12. PICK x \in DOMAIN FlattenSeq(p) : FlattenSeq(p)[x] = m
    BY <1>10, <1>11, Zenon DEF HasPlace
<1> QED BY <1>8, <1>9, <1>12, Zenon

(* What flushing does to the fields.                                         *)
LEMMA FlushFields ==
  ASSUME NEW s \in Flow
  PROVE  /\ FlushResults(s).out = s.out \o s.pending
         /\ FlushResults(s).think = s.think /\ FlushResults(s).cur = s.cur
         /\ s.cur = <<>> => FlushAssistant(s) = s
         /\ s.cur # <<>> => /\ FlushAssistant(s).cur = <<>>
                            /\ s.cur[1].calls = <<>> => FlushAssistant(s).out = s.out
                            /\ s.cur[1].calls # <<>> =>
                                 FlushAssistant(s).out = Append(s.out, [s.cur[1] EXCEPT !.think = s.think])
<1>1. FlushResults(s).out = s.out \o s.pending /\ FlushResults(s).think = s.think /\ FlushResults(s).cur = s.cur
  <2> DEFINE o == s.out \o s.pending
             e == <<>>
  <2>1. FlushResults(s) = [s EXCEPT !.out = o, !.pending = e]
      BY Zenon DEF FlushResults
  <2> HIDE DEF o, e
  <2>2. FlushResults(s).out = o /\ FlushResults(s).think = s.think /\ FlushResults(s).cur = s.cur
      BY <2>1 DEF Flow
  <2> QED BY <2>2 DEF o
<1>2. ASSUME s.cur = <<>> PROVE FlushAssistant(s) = s
    BY <1>2, Zenon DEF FlushAssistant
<1>3. ASSUME s.cur # <<>>
      PROVE  /\ FlushAssistant(s).cur = <<>>
             /\ s.cur[1].calls = <<>> => FlushAssistant(s).out = s.out
             /\ s.cur[1].calls # <<>> =>
                  FlushAssistant(s).out = Append(s.out, [s.cur[1] EXCEPT !.think = s.think])
  <2> DEFINE o == IF s.cur[1].calls = <<>> THEN s.out ELSE Append(s.out, [s.cur[1] EXCEPT !.think = s.think])
             e == <<>>
  <2>1. FlushAssistant(s) = [s EXCEPT !.cur = e, !.think = e, !.out = o]
      BY <1>3, Zenon DEF FlushAssistant
  <2> HIDE DEF o, e
  <2>2. FlushAssistant(s).cur = e /\ FlushAssistant(s).out = o
      BY <2>1 DEF Flow
  <2> QED BY <2>2, Zenon DEF o, e
<1> QED BY <1>1, <1>2, <1>3, Zenon

(* The message being put together, or a new one.                             *)
Current(s) == IF s.cur = <<>> THEN Message("assistant") ELSE s.cur[1]
Called(s, w, i) == IF Calls[w[i].k].name = "" THEN Current(s)
                   ELSE [Current(s) EXCEPT !.calls = Append(@, CallOf("responses", w, i))]
Worded(s, w, i) == LET m == Grouped("responses", Side("responses", w[i]), w, i, i)
                   IN  IF m.role = "assistant" THEN [m EXCEPT !.think = s.think] ELSE m

(* What reading one item does to the fields.                                 *)
LEMMA ItemFields ==
  ASSUME NEW w, Request("responses", w), NEW i \in 1 .. Len(w), NEW s \in Flow
  PROVE  LET next == ResponsesStep(s, w, i)
             t    == FlushResults(FlushAssistant(s))
         IN  /\ w[i].k = "think" => next.out = s.out /\ next.cur = s.cur /\ next.think = Append(s.think, i)
             /\ IsCall(w[i]) => /\ next.out = s.out \o s.pending /\ next.think = s.think
                                /\ next.cur = << Called(s, w, i) >>
             /\ IsResult(w[i]) => next.out = t.out /\ next.cur = t.cur
             /\ (w[i].k # "think" /\ ~IsCall(w[i]) /\ ~IsResult(w[i])) =>
                  next.out = Append(t.out, Worded(t, w, i)) /\ next.cur = t.cur
<1>1. /\ IsCall(w[i]) => ~IsResult(w[i])
      /\ w[i].k = "think" => ~IsCall(w[i]) /\ ~IsResult(w[i])
  <2>1. w \in Wires /\ "responses" \in Protos
      BY DEF Request
  <2>2. w[i].k \in Kinds
      BY <2>1, WireFacts, Zenon
  <2> QED BY <2>1, <2>2, SideFacts, Zenon
<1> DEFINE next == ResponsesStep(s, w, i)
           u == FlushResults(s)
           t == FlushResults(FlushAssistant(s))
<1>2. u \in Flow /\ t \in Flow
    BY FlushIn, Zenon
<1>3. u.out = s.out \o s.pending /\ u.think = s.think /\ u.cur = s.cur
    BY FlushFields, Zenon
<1>4. ASSUME w[i].k = "think" PROVE next.out = s.out /\ next.cur = s.cur /\ next.think = Append(s.think, i)
  <2> DEFINE k == Append(s.think, i)
  <2>1. next = [s EXCEPT !.think = k]
      BY <1>1, <1>4, Zenon DEF ResponsesStep
  <2> HIDE DEF k, next
  <2>2. next.out = s.out /\ next.cur = s.cur /\ next.think = k
      BY <2>1 DEF Flow
  <2> QED BY <2>2, Zenon DEF k
<1>5. ASSUME IsCall(w[i])
      PROVE  next.out = s.out \o s.pending /\ next.think = s.think /\ next.cur = << Called(s, w, i) >>
  <2> DEFINE c == << Called(s, w, i) >>
  <2>1. next = ResponsesCall(s, w, i)
      BY <1>1, <1>5, Zenon DEF ResponsesStep
  <2>2. ResponsesCall(s, w, i) = [u EXCEPT !.cur = << Called(u, w, i) >>]
      BY Zenon DEF ResponsesCall, Called, Current
  <2>3. Called(u, w, i) = Called(s, w, i)
      BY <1>3, Zenon DEF Called, Current
  <2> HIDE DEF next, u
  <2>4. next = [u EXCEPT !.cur = c]
      BY <2>1, <2>2, <2>3
  <2> HIDE DEF c
  <2>5. next.cur = c /\ next.out = u.out /\ next.think = u.think
      BY <1>2, <2>4 DEF Flow
  <2> QED BY <1>3, <2>5 DEF c
<1>6. ASSUME IsResult(w[i]) PROVE next.out = t.out /\ next.cur = t.cur
  <2> DEFINE p == << ResultOf("responses", w, i) >>
  <2>1. next = [t EXCEPT !.pending = p]
      BY <1>1, <1>6, Zenon DEF ResponsesStep, ResponsesOutput
  <2> HIDE DEF p, t, next
  <2> QED BY <1>2, <2>1 DEF Flow
<1>7. ASSUME w[i].k # "think", ~IsCall(w[i]), ~IsResult(w[i])
      PROVE  next.out = Append(t.out, Worded(t, w, i)) /\ next.cur = t.cur
  <2> DEFINE o == Append(t.out, Worded(t, w, i))
             e == <<>>
  <2>1. next = [t EXCEPT !.out = o, !.think = e]
      BY <1>7, Zenon DEF ResponsesStep, ResponsesMessage, Worded
  <2> HIDE DEF o, e, t, next
  <2>2. next.out = o /\ next.cur = t.cur
      BY <1>2, <2>1 DEF Flow
  <2> QED BY <2>2 DEF o
<1> HIDE DEF next, t
<1>8. /\ w[i].k = "think" => next.out = s.out /\ next.cur = s.cur /\ next.think = Append(s.think, i)
      /\ IsCall(w[i]) => /\ next.out = s.out \o s.pending /\ next.think = s.think
                         /\ next.cur = << Called(s, w, i) >>
      /\ IsResult(w[i]) => next.out = t.out /\ next.cur = t.cur
      /\ (w[i].k # "think" /\ ~IsCall(w[i]) /\ ~IsResult(w[i])) =>
           next.out = Append(t.out, Worded(t, w, i)) /\ next.cur = t.cur
    BY <1>4, <1>5, <1>6, <1>7, Zenon
<1> QED BY <1>8, Zenon DEF next, t

(* A longer sequence has what it had, and what it was given.                 *)
LEMMA HasAppend ==
  ASSUME NEW S, NEW h \in Seq(S), NEW y \in S
  PROVE  /\ HasPlace(Append(h, y), y)
         /\ \A x : HasPlace(h, x) => HasPlace(Append(h, y), x)
<1> DEFINE a == Append(h, y)
<1>1. /\ DOMAIN h = 1 .. Len(h) /\ DOMAIN a = 1 .. Len(h) + 1 /\ Len(h) \in Nat
      /\ \A z \in 1 .. Len(h) : a[z] = h[z]
      /\ a[Len(h) + 1] = y
    OBVIOUS
<1>2. Len(h) + 1 \in DOMAIN a /\ \A z \in DOMAIN h : z \in DOMAIN a /\ a[z] = h[z]
    BY <1>1
<1> HIDE DEF a
<1>3. HasPlace(a, y)
    BY <1>1, <1>2, Zenon DEF HasPlace
<1>4. ASSUME NEW x, HasPlace(h, x) PROVE HasPlace(a, x)
    BY <1>2, <1>4, Zenon DEF HasPlace
<1> QED BY <1>3, <1>4, Zenon DEF a

(* What a message must hold has been handed on.                              *)
KeptIn(w, i, o) == \E x \in DOMAIN o : Holds("responses", w, i, o[x])

(* What was handed on stays in a longer history.                             *)
LEMMA KeptGrows ==
  ASSUME NEW w, NEW i, NEW o \in Seq(Msg), NEW d \in Seq(Msg), KeptIn(w, i, o)
  PROVE  KeptIn(w, i, o \o d)
<1> DEFINE a == o \o d
<1>1. \A z \in DOMAIN o : z \in DOMAIN a /\ a[z] = o[z]
  <2> DEFINE S == Msg
  <2>1. o \in Seq(S) /\ d \in Seq(S)
      OBVIOUS
  <2> HIDE DEF S
  <2> QED BY <2>1
<1> HIDE DEF a
<1>2. KeptIn(w, i, a)
    BY <1>1, Zenon DEF KeptIn
<1> QED BY <1>2 DEF a

(* And a message that holds it hands it on.                                  *)
LEMMA KeptAppend ==
  ASSUME NEW w, NEW i, NEW o \in Seq(Msg), NEW m \in Msg
  PROVE  /\ KeptIn(w, i, o) => KeptIn(w, i, Append(o, m))
         /\ Holds("responses", w, i, m) => KeptIn(w, i, Append(o, m))
<1> DEFINE S == Msg
           a == Append(o, m)
<1>1. o \in Seq(S) /\ m \in S
    OBVIOUS
<1> HIDE DEF S
<1>2. /\ DOMAIN o = 1 .. Len(o) /\ DOMAIN a = 1 .. Len(o) + 1 /\ Len(o) \in Nat
      /\ \A z \in 1 .. Len(o) : a[z] = o[z]
      /\ a[Len(o) + 1] = m
    BY <1>1
<1>3. Len(o) + 1 \in DOMAIN a /\ a[Len(o) + 1] = m /\ \A z \in DOMAIN o : z \in DOMAIN a /\ a[z] = o[z]
    BY <1>2
<1> HIDE DEF a
<1>4. KeptIn(w, i, o) => KeptIn(w, i, a)
    BY <1>3, Zenon DEF KeptIn
<1>5. Holds("responses", w, i, m) => KeptIn(w, i, a)
    BY <1>3, Zenon DEF KeptIn
<1> QED BY <1>4, <1>5 DEF a

(* Or the message that will hold it is being put together.                   *)
Waiting(w, i, s) == /\ s.cur # <<>> /\ HasPlace(s.think, i) /\ w[i + 1].k # "say"
                    /\ HasPlace(s.cur[1].calls, CallOf("responses", w, i + 1))

(* The message being put together with the reasoning that waits for it.      *)
LEMMA ThoughtFields ==
  ASSUME NEW m \in Spokesman, NEW k
  PROVE  [m EXCEPT !.think = k].think = k /\ [m EXCEPT !.think = k].calls = m.calls
                                          /\ [m EXCEPT !.think = k].text = m.text
<1>1. m \in MsgType
    BY Zenon DEF Spokesman, Msg
<1> QED BY <1>1 DEF MsgType

(* Closing the message being put together hands on what it holds.            *)
LEMMA FlushKeeps ==
  ASSUME NEW w, NEW i, NEW s \in Flow
  PROVE  /\ (KeptIn(w, i, s.out) \/ Waiting(w, i, s)) => KeptIn(w, i, FlushAssistant(s).out)
         /\ (KeptIn(w, i, s.out) \/ Waiting(w, i, s)) => KeptIn(w, i, FlushResults(FlushAssistant(s)).out)
<1> DEFINE t == FlushAssistant(s)
<1>1. t \in Flow
    BY FlushIn, Zenon
<1>2. ASSUME KeptIn(w, i, s.out) \/ Waiting(w, i, s) PROVE KeptIn(w, i, t.out)
  <2>1. CASE s.cur = <<>>
    <3>1. t = s
        BY <2>1, FlushFields, Zenon
    <3>2. KeptIn(w, i, s.out)
        BY <1>2, <2>1, Zenon DEF Waiting
    <3> QED BY <3>1, <3>2
  <2>2. CASE s.cur # <<>>
    <3> DEFINE n == s.cur[1]
               m == [n EXCEPT !.think = s.think]
    <3>1. n \in Spokesman /\ s.out \in Seq(Msg) /\ s.think \in Seq(Int)
        BY <2>2, FlowFacts, Zenon
    <3>2. m \in Msg
        BY <3>1, SpokesmanFacts, Zenon DEF Spokesman
    <3>3. (n.calls = <<>> => t.out = s.out) /\ (n.calls # <<>> => t.out = Append(s.out, m))
        BY <2>2, FlushFields, Zenon
    <3>4. m.think = s.think /\ m.calls = n.calls
        BY <3>1, ThoughtFields, Zenon
    <3> HIDE DEF m, t
    <3>5. CASE KeptIn(w, i, s.out)
        BY <3>1, <3>2, <3>3, <3>5, KeptAppend, Zenon
    <3>6. CASE Waiting(w, i, s)
      <4>1. HasPlace(m.think, i) /\ HasPlace(m.calls, CallOf("responses", w, i + 1)) /\ w[i + 1].k # "say"
          BY <3>4, <3>6, Zenon DEF Waiting
      <4>2. Holds("responses", w, i, m)
          BY <4>1, Zenon DEF Holds
      <4>3. n.calls # <<>>
        <5>1. HasPlace(n.calls, CallOf("responses", w, i + 1))
            BY <3>4, <4>1
        <5>2. DOMAIN n.calls # {}
            BY <5>1, Zenon DEF HasPlace
        <5>3. DOMAIN <<>> = {}
            OBVIOUS
        <5> QED BY <5>2, <5>3, Zenon
      <4> QED BY <3>1, <3>2, <3>3, <4>2, <4>3, KeptAppend, Zenon
    <3> QED BY <1>2, <3>5, <3>6
  <2> QED BY <2>1, <2>2
<1> HIDE DEF t
<1>3. ASSUME KeptIn(w, i, t.out) PROVE KeptIn(w, i, FlushResults(t).out)
  <2>1. FlushResults(t).out = t.out \o t.pending /\ t.out \in Seq(Msg) /\ t.pending \in Seq(Msg)
      BY <1>1, FlushFields, FlowFacts, Zenon
  <2>2. KeptIn(w, i, t.out \o t.pending)
      BY <1>3, <2>1, KeptGrows, Zenon
  <2> QED BY <2>1, <2>2, Zenon
<1> QED BY <1>2, <1>3, Zenon DEF t

(* The message of a piece that is no call.                                   *)
LEMMA WordedIn ==
  ASSUME NEW w, Request("responses", w), NEW i \in 1 .. Len(w), ~IsCall(w[i]), NEW t \in Flow
  PROVE  Worded(t, w, i) \in Msg
<1> DEFINE proto == "responses"
           side == Side(proto, w[i])
           m == Grouped(proto, side, w, i, i)
<1>0. w \in Wires /\ Len(w) <= MaxPieces /\ Glued(proto, w) /\ proto \in Protos
    BY DEF Request, Protos
<1>1. w[i].k \in Kinds
    BY <1>0, WireFacts, Zenon
<1>2. m \in Msg
  <2>1. side \in Roles
      BY <1>0, <1>1, SideFacts, Zenon
  <2>2. i \in i .. Len(w) /\ \A j \in i .. i : j = i
    <3>1. Len(w) \in Nat
        BY <1>0, WireFacts, Zenon
    <3> QED BY <3>1
  <2>3. ~\E j \in i .. i : IsCall(w[j])
      BY <2>2, Zenon
  <2> HIDE DEF side
  <2> QED BY <1>0, <2>1, <2>2, <2>3, GroupedIn, Zenon
<1> HIDE DEF m
<1>3. t.think \in Seq(Int)
    BY FlowFacts, Zenon
<1>4. ASSUME m.role = "assistant" PROVE [m EXCEPT !.think = t.think] \in Msg
  <2>1. m \in Spokesman
      BY <1>2, <1>4, Zenon DEF Spokesman
  <2>2. [m EXCEPT !.think = t.think] \in Spokesman
      BY <1>3, <2>1, SpokesmanFacts, Zenon
  <2> QED BY <2>2 DEF Spokesman
<1>5. Worded(t, w, i) = IF m.role = "assistant" THEN [m EXCEPT !.think = t.think] ELSE m
    BY Zenon DEF Worded, m
<1> QED BY <1>2, <1>4, <1>5, Zenon

(* The calls of the message being put together, with one more.               *)
LEMMA CalledFields ==
  ASSUME NEW w, Request("responses", w), NEW i \in 1 .. Len(w), IsCall(w[i]), NEW s \in Flow
  PROVE  /\ Current(s) \in Spokesman
         /\ CallOf("responses", w, i) \in CallType
         /\ Calls[w[i].k].name = "" => Called(s, w, i) = Current(s)
         /\ Calls[w[i].k].name # "" => Called(s, w, i).calls = Append(Current(s).calls, CallOf("responses", w, i))
<1>1. Current(s) \in Spokesman
  <2>1. "assistant" \in {"user", "assistant", "tool", "system"}
      OBVIOUS
  <2>2. Message("assistant") \in Spokesman
      BY <2>1, MessageFacts, Zenon DEF Spokesman
  <2> QED BY <2>2, FlowFacts, Zenon DEF Current
<1>2. CallOf("responses", w, i) \in CallType
    BY CallFacts, Zenon DEF Request
<1>3. ASSUME Calls[w[i].k].name # ""
      PROVE  Called(s, w, i).calls = Append(Current(s).calls, CallOf("responses", w, i))
  <2> DEFINE m == Current(s)
             c == Append(m.calls, CallOf("responses", w, i))
  <2>1. Called(s, w, i) = [m EXCEPT !.calls = c]
      BY <1>3, Zenon DEF Called
  <2>2. m \in MsgType
      BY <1>1, Zenon DEF Spokesman, Msg
  <2> HIDE DEF c, m
  <2>3. Called(s, w, i).calls = c
      BY <2>1, <2>2 DEF MsgType
  <2> QED BY <2>3 DEF c, m
<1> QED BY <1>1, <1>2, <1>3, Zenon DEF Called

(* One or the other.                                                         *)
Held(w, i, s) == KeptIn(w, i, s.out) \/ Waiting(w, i, s)

(* What was handed on, or waits to be, stays so with every item.             *)
LEMMA ItemKeeps ==
  ASSUME NEW w, Request("responses", w), NEW i, NEW n \in 1 .. Len(w), NEW s \in Flow, Held(w, i, s)
  PROVE  Held(w, i, ResponsesStep(s, w, n))
<1> DEFINE next == ResponsesStep(s, w, n)
           t == FlushResults(FlushAssistant(s))
<1>1. t \in Flow /\ t.out \in Seq(Msg) /\ s.out \in Seq(Msg) /\ s.pending \in Seq(Msg) /\ s.think \in Seq(Int)
    BY FlushIn, FlowFacts, Zenon
<1>2. KeptIn(w, i, t.out)
    BY FlushKeeps, Zenon DEF Held
<1> HIDE DEF next, t
<1>3. CASE w[n].k = "think"
  <2>1. next.out = s.out /\ next.cur = s.cur /\ next.think = Append(s.think, n)
      BY <1>3, ItemFields, ZenonT(60) DEF next
  <2>2. HasPlace(s.think, i) => HasPlace(next.think, i)
    <3>1. n \in Int
        OBVIOUS
    <3>2. HasPlace(s.think, i) => HasPlace(Append(s.think, n), i)
        BY <1>1, <3>1, HasAppend
    <3> QED BY <2>1, <3>2, Zenon
  <2> QED BY <2>1, <2>2, Zenon DEF Held, Waiting, next
<1>4. CASE IsCall(w[n])
  <2>1. next.out = s.out \o s.pending /\ next.think = s.think /\ next.cur = << Called(s, w, n) >>
      BY <1>4, ItemFields, ZenonT(60) DEF next
  <2>2. CASE KeptIn(w, i, s.out)
    <3>1. KeptIn(w, i, s.out \o s.pending)
        BY <1>1, <2>2, KeptGrows, Zenon
    <3> QED BY <2>1, <3>1, Zenon DEF Held, next
  <2>3. CASE Waiting(w, i, s)
    <3> DEFINE m == Called(s, w, n)
               c == CallOf("responses", w, i + 1)
    <3>1. Current(s) = s.cur[1]
        BY <2>3, Zenon DEF Current, Waiting
    <3>2. HasPlace(Current(s).calls, c)
        BY <2>3, <3>1, Zenon DEF Waiting
    <3>3. HasPlace(m.calls, c)
      <4>1. CASE Calls[w[n].k].name = ""
        <5>1. m = Current(s)
            BY <1>4, <4>1, CalledFields, Zenon
        <5> QED BY <3>2, <5>1, Zenon
      <4>2. CASE Calls[w[n].k].name # ""
        <5> DEFINE d == Append(Current(s).calls, CallOf("responses", w, n))
        <5>1. m.calls = d /\ CallOf("responses", w, n) \in CallType /\ Current(s) \in Spokesman
            BY <1>4, <4>2, CalledFields, Zenon
        <5>2. Current(s).calls \in Seq(CallType)
          <6>1. Current(s) \in MsgType
              BY <5>1, Zenon DEF Spokesman, Msg
          <6> QED BY <6>1 DEF MsgType
        <5>3. HasPlace(d, c)
            BY <3>2, <5>1, <5>2, HasAppend
        <5> QED BY <5>1, <5>3, Zenon
      <4> QED BY <4>1, <4>2
    <3> HIDE DEF m, c
    <3>4. next.cur # <<>> /\ next.cur[1] = m
        BY <2>1 DEF m
    <3> QED BY <2>1, <2>3, <3>3, <3>4, Zenon DEF Held, Waiting, next, c
  <2> QED BY <2>2, <2>3 DEF Held
<1>5. CASE IsResult(w[n])
  <2>1. next.out = t.out
      BY <1>5, ItemFields, ZenonT(60) DEF next, t
  <2> QED BY <1>2, <2>1, Zenon DEF Held, next
<1>6. CASE w[n].k # "think" /\ ~IsCall(w[n]) /\ ~IsResult(w[n])
  <2>1. next.out = Append(t.out, Worded(t, w, n))
      BY <1>6, ItemFields, ZenonT(60) DEF next, t
  <2>2. Worded(t, w, n) \in Msg
      BY <1>1, <1>6, WordedIn, Zenon
  <2>3. KeptIn(w, i, Append(t.out, Worded(t, w, n)))
      BY <1>1, <1>2, <2>2, KeptAppend, Zenon
  <2> QED BY <2>1, <2>3, Zenon DEF Held, next
<1> QED BY <1>3, <1>4, <1>5, <1>6

(* What reading one item does to the calls being put together.               *)
LEMMA ItemCur ==
  ASSUME NEW w, Request("responses", w), NEW i \in 1 .. Len(w), NEW s \in Flow
  PROVE  /\ w[i].k = "think" => ResponsesStep(s, w, i).cur = s.cur
         /\ (w[i].k # "think" /\ ~IsCall(w[i])) =>
              ResponsesStep(s, w, i).cur = FlushResults(FlushAssistant(s)).cur
<1>1. w[i].k = "think" => ResponsesStep(s, w, i).cur = s.cur
    BY ItemFields, ZenonT(60)
<1>2. IsResult(w[i]) => ResponsesStep(s, w, i).cur = FlushResults(FlushAssistant(s)).cur
    BY ItemFields, ZenonT(60)
<1>3. (w[i].k # "think" /\ ~IsCall(w[i]) /\ ~IsResult(w[i])) =>
         ResponsesStep(s, w, i).cur = FlushResults(FlushAssistant(s)).cur
    BY ItemFields, ZenonT(60)
<1> QED BY <1>1, <1>2, <1>3, Zenon

(* A call and nothing but reasoning since: where calls are being put         *)
(* together.                                                                 *)
CallsOpen(w, n) == \E j \in 1 .. n : IsCall(w[j]) /\ \A k \in j + 1 .. n : w[k].k = "think"

(* Reading one item keeps that.                                              *)
LEMMA OpenKeeps ==
  ASSUME NEW w, Request("responses", w), NEW n \in Nat, n + 1 \in 1 .. Len(w), NEW s \in Flow,
         s.cur # <<>> => CallsOpen(w, n)
  PROVE  ResponsesStep(s, w, n + 1).cur # <<>> => CallsOpen(w, n + 1)
<1> DEFINE l == n + 1
           next == ResponsesStep(s, w, l)
           t == FlushResults(FlushAssistant(s))
<1>0. l \in 1 .. Len(w)
    OBVIOUS
<1>1. l = n + 1
    OBVIOUS
<1>2. t.cur = <<>>
  <2>1. FlushAssistant(s) \in Flow /\ FlushAssistant(s).cur = <<>>
      BY FlushIn, FlushFields, Zenon
  <2> QED BY <2>1, FlushFields, Zenon
<1> HIDE DEF l, next, t
<1>3. CASE w[l].k = "think"
  <2>1. next.cur = s.cur
      BY <1>0, <1>3, ItemCur, Zenon DEF next
  <2>2. ASSUME CallsOpen(w, n) PROVE CallsOpen(w, l)
    <3>1. PICK j \in 1 .. n : IsCall(w[j]) /\ \A k \in j + 1 .. n : w[k].k = "think"
        BY <2>2, Zenon DEF CallsOpen
    <3>2. j \in 1 .. l /\ \A k \in j + 1 .. l : k \in j + 1 .. n \/ k = l
        BY <1>1
    <3>3. \A k \in j + 1 .. l : w[k].k = "think"
        BY <1>3, <3>1, <3>2, Zenon
    <3> QED BY <3>1, <3>2, <3>3, Zenon DEF CallsOpen
  <2> QED BY <2>1, <2>2 DEF next, l
<1>4. CASE IsCall(w[l])
  <2>1. l \in 1 .. l /\ l + 1 .. l = {}
      BY <1>1
  <2>2. CallsOpen(w, l)
      BY <1>4, <2>1, Zenon DEF CallsOpen
  <2> QED BY <2>2 DEF l
<1>5. CASE w[l].k # "think" /\ ~IsCall(w[l])
  <2>1. next.cur = t.cur
      BY <1>0, <1>5, ItemCur, Zenon DEF next, t
  <2> QED BY <1>2, <2>1 DEF next, l
<1> QED BY <1>3, <1>4, <1>5

(* The reasoning before a named call, or before words that no open calls     *)
(* precede, is to be handed on.                                              *)
ThoughtFor(w, i) == /\ w[i].k = "think"
                   /\ \/ w[i + 1].k = "say" /\ ~OpenCalls(w, i)
                      \/ IsCall(w[i + 1]) /\ Calls[w[i + 1].k].name # ""

(* So calls are being put together only there.                               *)
LEMMA CallsAreOpen ==
  ASSUME NEW w, Request("responses", w), NEW n \in 0 .. Len(w), Flowing(w)[n].cur # <<>>
  PROVE  CallsOpen(w, n)
<1> DEFINE N == Len(w)
           c == Flowing(w)
           I == {l \in Nat : l <= N => (c[l].cur # <<>> => CallsOpen(w, l))}
<1>1. N \in Nat
    BY WireFacts, Zenon DEF Request
<1>2. c[0] = NothingYet /\ \A l \in 0 .. N : c[l] \in Flow
    BY FlowingFacts, Zenon
<1>3. \A l \in 1 .. N : c[l] = ResponsesStep(c[l - 1], w, l)
    BY FlowingFacts, Zenon
<1> HIDE DEF c
<1>4. 0 \in I
  <2>1. c[0].cur = <<>>
      BY <1>2 DEF NothingYet
  <2> QED BY <2>1
<1>5. ASSUME NEW l \in Nat, l \in I PROVE l + 1 \in I
  <2> SUFFICES ASSUME l + 1 <= N PROVE c[l + 1].cur # <<>> => CallsOpen(w, l + 1)
      OBVIOUS
  <2>1. l + 1 \in 1 .. N /\ l \in 0 .. N /\ l <= N /\ (l + 1) - 1 = l
      BY <1>1
  <2>2. c[l].cur # <<>> => CallsOpen(w, l)
      BY <1>5, <2>1
  <2>3. c[l + 1] = ResponsesStep(c[l], w, l + 1)
      BY <1>3, <2>1
  <2> HIDE DEF I
  <2>4. c[l] \in Flow /\ l + 1 \in 1 .. Len(w)
      BY <1>2, <2>1
  <2>5. ResponsesStep(c[l], w, l + 1).cur # <<>> => CallsOpen(w, l + 1)
      BY <2>2, <2>4, OpenKeeps, Zenon
  <2> QED BY <2>3, <2>5
<1> HIDE DEF I
<1>6. \A l \in Nat : l \in I
    BY <1>4, <1>5, SetInduction, Zenon
<1>7. n \in I /\ n <= N
    BY <1>1, <1>6
<1> QED BY <1>7 DEF I, c

(* The reasoning and the piece after it, once both are read.                 *)
LEMMA BothRead ==
  ASSUME NEW w, Request("responses", w), NEW i \in 1 .. Len(w), i + 1 \in 1 .. Len(w), ThoughtFor(w, i)
  PROVE  Held(w, i, Flowing(w)[i + 1])
<1> DEFINE c == Flowing(w)
           j == i + 1
           b == c[i - 1]
           s == c[i]
           next == c[j]
           t == FlushResults(FlushAssistant(s))
<1>1. /\ i - 1 \in 0 .. Len(w) /\ i \in 0 .. Len(w) /\ i \in Nat
      /\ j \in 1 .. Len(w) /\ j - 1 = i /\ i \in Int
  <2>1. Len(w) \in Nat
      BY WireFacts, Zenon DEF Request
  <2> QED BY <2>1
<1>2. b \in Flow /\ s \in Flow
    BY <1>1, FlowingFacts, Zenon
<1>3. s = ResponsesStep(b, w, i) /\ next = ResponsesStep(s, w, j)
  <2>1. \A l \in 1 .. Len(w) : c[l] = ResponsesStep(c[l - 1], w, l)
      BY FlowingFacts, Zenon
  <2> HIDE DEF c, j
  <2> QED BY <1>1, <2>1
<1>4. w[i].k = "think" /\ j = i + 1
    BY Zenon DEF ThoughtFor
<1> HIDE DEF b, next, t
<1>5. HasPlace(s.think, i)
  <2>1. s.think = Append(b.think, i)
    <3>1. ResponsesStep(b, w, i).think = Append(b.think, i)
        BY <1>2, <1>4, ItemFields, ZenonT(60)
    <3> QED BY <1>3, <3>1
  <2>2. b.think \in Seq(Int)
      BY <1>2, FlowFacts, Zenon
  <2>3. HasPlace(Append(b.think, i), i)
      BY <1>1, <2>2, HasAppend
  <2> QED BY <2>1, <2>3, Zenon
<1>6. CASE w[j].k = "say"
  <2>1. ~OpenCalls(w, i)
    <3>1. ~IsCall(w[j])
      <4>1. w \in Wires /\ w[j].k \in Kinds
          BY <1>1, WireFacts, Zenon DEF Request
      <4> QED BY <1>6 DEF IsCall, Calls
    <3> QED BY <1>4, <3>1, Zenon DEF ThoughtFor
  <2>2. s.cur = <<>>
    <3>1. ASSUME CallsOpen(w, i) PROVE FALSE
      <4>1. PICK l \in 1 .. i : IsCall(w[l]) /\ \A k \in l + 1 .. i : w[k].k = "think"
          BY <3>1, Zenon DEF CallsOpen
      <4>2. l # i
        <5>1. ~IsCall(w[i])
            BY <1>4 DEF IsCall, Calls
        <5> QED BY <4>1, <5>1
      <4>3. l \in 1 .. i - 1 /\ \A k \in l + 1 .. i - 1 : k \in l + 1 .. i
          BY <1>1, <4>2
      <4>4. OpenCalls(w, i)
          BY <4>1, <4>3, Zenon DEF OpenCalls
      <4> QED BY <2>1, <4>4
    <3> HIDE DEF s
    <3>2. s.cur # <<>> => CallsOpen(w, i)
        BY <1>1, CallsAreOpen, Zenon DEF s
    <3> QED BY <3>1, <3>2
  <2> HIDE DEF s
  <2>3. t = FlushResults(s) /\ t \in Flow
      BY <1>2, <2>2, FlushFields, FlushIn, Zenon DEF t
  <2>4. HasPlace(t.think, i)
      BY <1>2, <1>5, <2>3, FlushFields, Zenon
  <2>5. ~IsCall(w[j]) /\ ~IsResult(w[j]) /\ w[j].k # "think" /\ Side("responses", w[j]) = "assistant"
    <3>1. ~IsCall(w[j]) /\ ~IsResult(w[j]) /\ w[j].k # "think"
        BY <1>6 DEF IsCall, Calls, IsResult, Results
    <3> QED BY <1>6, <3>1 DEF Side
  <2>6. next.out = Append(t.out, Worded(t, w, j))
    <3> HIDE DEF j
    <3>0. j \in 1 .. Len(w)
        BY <1>1
    <3>1. ResponsesStep(s, w, j).out = Append(t.out, Worded(t, w, j))
        BY <1>2, <2>5, <3>0, ItemFields, ZenonT(60) DEF t
    <3> QED BY <1>3, <3>1
  <2>7. Worded(t, w, j) \in Msg
      BY <1>1, <2>3, <2>5, WordedIn, Zenon
  <2>8. Holds("responses", w, i, Worded(t, w, j))
    <3> DEFINE m == Grouped("responses", Side("responses", w[j]), w, j, j)
               n == [m EXCEPT !.think = t.think]
    <3>1. m \in Msg /\ m.role = "assistant" /\ HasPlace(m.text, j)
      <4> DEFINE role == Side("responses", w[j])
      <4>1. role = "assistant" /\ role \in Roles
          BY <2>5 DEF Roles
      <4>2. w \in Wires /\ Len(w) <= MaxPieces
          BY DEF Request
      <4>3. Len(w) \in Nat
          BY <4>2, WireFacts, Zenon
      <4> HIDE DEF role, j
      <4>4. j \in 1 .. Len(w) /\ j \in j .. Len(w) /\ j \in j .. j
          BY <1>1, <4>3
      <4>5. Grouped("responses", role, w, j, j) \in Msg /\ Grouped("responses", role, w, j, j).role = role
          BY <4>1, <4>2, <4>4, GroupedIn, ZenonT(60)
      <4>6. HasPlace(Grouped("responses", role, w, j, j).text, j)
          BY <1>6, <4>1, <4>2, <4>4, GroupedHas, Zenon
      <4> QED BY <4>1, <4>5, <4>6, Zenon DEF role
    <3>2. Worded(t, w, j) = n
        BY <3>1, Zenon DEF Worded
    <3>3. n.think = t.think /\ n.text = m.text
      <4>1. m \in Spokesman
          BY <3>1, Zenon DEF Spokesman
      <4> HIDE DEF m
      <4> QED BY <4>1, ThoughtFields, Zenon
    <3> HIDE DEF m, n
    <3>4. HasPlace(n.think, i) /\ HasPlace(n.text, j)
        BY <2>4, <3>1, <3>3, Zenon
    <3> QED BY <1>4, <1>6, <3>2, <3>4, Zenon DEF Holds
  <2>9. KeptIn(w, i, Append(t.out, Worded(t, w, j)))
    <3>1. t.out \in Seq(Msg)
        BY <2>3, FlowFacts, Zenon
    <3> QED BY <2>7, <2>8, <3>1, KeptAppend, Zenon
  <2> QED BY <2>6, <2>9, Zenon DEF Held, next
<1>7. CASE w[j].k # "say"
  <2> HIDE DEF s
  <2>1. IsCall(w[j]) /\ Calls[w[j].k].name # ""
      BY <1>4, <1>7, Zenon DEF ThoughtFor
  <2> DEFINE m == Called(s, w, j)
             x == CallOf("responses", w, j)
  <2>2. next.think = s.think /\ next.cur = << m >>
    <3> HIDE DEF j
    <3>0. j \in 1 .. Len(w)
        BY <1>1
    <3>1. ResponsesStep(s, w, j).think = s.think /\ ResponsesStep(s, w, j).cur = << m >>
      <4>1. IsCall(w[j])
          BY <2>1
      <4> HIDE DEF x
      <4>2. s \in Flow
          BY <1>2
      <4>3. /\ ResponsesStep(s, w, j).out = s.out \o s.pending /\ ResponsesStep(s, w, j).think = s.think
            /\ ResponsesStep(s, w, j).cur = << Called(s, w, j) >>
          BY <3>0, <4>1, <4>2, ItemFields, ZenonT(60)
      <4> QED BY <4>3
    <3> QED BY <1>3, <3>1
  <2>3. HasPlace(m.calls, x)
    <3>1. m.calls = Append(Current(s).calls, x) /\ x \in CallType /\ Current(s) \in Spokesman
        BY <1>1, <1>2, <2>1, CalledFields, Zenon
    <3>2. Current(s).calls \in Seq(CallType)
      <4>1. Current(s) \in MsgType
          BY <3>1, Zenon DEF Spokesman, Msg
      <4> QED BY <4>1 DEF MsgType
    <3> HIDE DEF x, m
    <3>3. HasPlace(Append(Current(s).calls, x), x)
        BY <3>1, <3>2, HasAppend
    <3> QED BY <3>1, <3>3, Zenon
  <2> HIDE DEF m
  <2>4. next.cur # <<>> /\ next.cur[1] = m
      BY <2>2
  <2> QED BY <1>4, <1>5, <1>7, <2>2, <2>3, <2>4, Zenon DEF Held, Waiting, next
<1> QED BY <1>6, <1>7

(* In the Responses protocol reasoning goes with the words or the call       *)
(* after it.                                                                 *)
LEMMA ResponsesReasons ==
  ASSUME NEW w, Request("responses", w), NEW i \in 1 .. Len(w), i + 1 \in 1 .. Len(w), ThoughtFor(w, i)
  PROVE  KeptIn(w, i, ParseResponses(w))
<1> DEFINE c == Flowing(w)
           N == Len(w)
           I == {d \in Nat : i + 1 + d <= N => Held(w, i, c[i + 1 + d])}
<1>1. N \in Nat /\ i \in Nat /\ N - (i + 1) \in Nat /\ i + 1 + (N - (i + 1)) = N /\ N \in 0 .. N
  <2>1. Len(w) \in Nat
      BY WireFacts, Zenon DEF Request
  <2> QED BY <2>1
<1>2. \A l \in 0 .. N : c[l] \in Flow
    BY FlowingFacts, Zenon
<1>3. \A l \in 1 .. N : c[l] = ResponsesStep(c[l - 1], w, l)
    BY FlowingFacts, Zenon
<1>4. Held(w, i, c[i + 1])
    BY BothRead, Zenon
<1> HIDE DEF c
<1>5. 0 \in I
  <2>1. i + 1 + 0 = i + 1
      BY <1>1
  <2> QED BY <1>4, <2>1
<1>6. ASSUME NEW d \in Nat, d \in I PROVE d + 1 \in I
  <2> SUFFICES ASSUME i + 1 + (d + 1) <= N PROVE Held(w, i, c[i + 1 + (d + 1)])
      OBVIOUS
  <2> DEFINE l == i + 1 + d
             n == i + 1 + (d + 1)
  <2>1. l \in 0 .. N /\ n \in 1 .. N /\ n - 1 = l /\ l <= N
      BY <1>1
  <2>2. Held(w, i, c[l])
      BY <1>6, <2>1
  <2> HIDE DEF l, n
  <2>3. c[n] = ResponsesStep(c[l], w, n) /\ c[l] \in Flow
      BY <1>2, <1>3, <2>1
  <2>4. n \in 1 .. Len(w)
      BY <2>1
  <2>5. Held(w, i, ResponsesStep(c[l], w, n))
      BY <2>2, <2>3, <2>4, ItemKeeps, Zenon
  <2> QED BY <2>3, <2>5 DEF n
<1> HIDE DEF I
<1>7. \A d \in Nat : d \in I
    BY <1>5, <1>6, SetInduction, Zenon
<1>8. N - (i + 1) \in I
    BY <1>1, <1>7
<1>9. Held(w, i, c[N])
  <2>1. Held(w, i, c[i + 1 + (N - (i + 1))])
      BY <1>1, <1>8 DEF I
  <2> QED BY <1>1, <2>1
<1>10. c[N] \in Flow
    BY <1>1, <1>2
<1>11. KeptIn(w, i, FlushResults(FlushAssistant(c[N])).out)
    BY <1>9, <1>10, FlushKeeps, Zenon DEF Held
<1> QED BY <1>11, FlowingFacts, Zenon DEF c, N

(* What must be handed on of piece i.                                        *)
Precedes(proto, w, i) ==
  LET next == w[i + 1] IN
  /\ w[i].k = "think"
  /\ ~(proto = "responses" /\ next.k = "say" /\ OpenCalls(w, i))
  /\ next.k = "say" \/ (IsCall(next) /\ Calls[next.k].name # "")
  /\ next.glue \/ proto = "responses"

(* Reasoning stays with what it precedes, in every protocol.                 *)
LEMMA Reasons ==
  ASSUME NEW proto, NEW w, Request(proto, w), NEW i \in 1 .. Len(w), i + 1 \in 1 .. Len(w), Precedes(proto, w, i)
  PROVE  \E x \in DOMAIN ParseMessages(proto, w) : Holds(proto, w, i, ParseMessages(proto, w)[x])
<1>1. proto = "chat" \/ proto = "anthropic" \/ proto = "responses"
    BY DEF Request, Protos
<1>2. w[i].k = "think" /\ (w[i + 1].k = "say" \/ IsCall(w[i + 1]))
    BY Zenon DEF Precedes
<1>3. CASE proto = "chat"
  <2>1. ParseMessages("chat", w) = ParseChat(w) /\ w[i + 1].glue
      BY <1>3 DEF ParseMessages, Precedes
  <2>2. \E x \in DOMAIN ParseChat(w) : Holds("chat", w, i, ParseChat(w)[x])
      BY <1>2, <1>3, <2>1, ChatReasons, Zenon
  <2> QED BY <1>3, <2>1, <2>2, Zenon
<1>4. CASE proto = "anthropic"
  <2>1. ParseMessages("anthropic", w) = ParseAnthropic(w) /\ w[i + 1].glue
      BY <1>4 DEF ParseMessages, Precedes
  <2>2. \E x \in DOMAIN ParseAnthropic(w) : Holds("anthropic", w, i, ParseAnthropic(w)[x])
      BY <1>2, <1>4, <2>1, AnthropicReasons, Zenon
  <2> QED BY <1>4, <2>1, <2>2, Zenon
<1>5. CASE proto = "responses"
  <2>1. ParseMessages("responses", w) = ParseResponses(w)
      BY DEF ParseMessages
  <2>2. ThoughtFor(w, i)
      BY <1>5, Zenon DEF Precedes, ThoughtFor
  <2>3. KeptIn(w, i, ParseResponses(w))
      BY <1>5, <2>2, ResponsesReasons, Zenon
  <2> QED BY <1>5, <2>1, <2>3, Zenon DEF KeptIn
<1> QED BY <1>1, <1>3, <1>4, <1>5

(* So it is in what is parsed of every request.                              *)
LEMMA ReasoningStaysHolds == ConvertInv => ReasoningStays
<1> SUFFICES ASSUME ConvertInv, pc = "chat", NEW i \in 1 .. Len(in.wire) - 1, Precedes(in.proto, in.wire, i)
             PROVE  \E j \in DOMAIN chat :
                      /\ \E t \in DOMAIN chat[j].think : chat[j].think[t] = i
                      /\ IF in.wire[i + 1].k = "say" THEN \E t \in DOMAIN chat[j].text : chat[j].text[t] = i + 1
                         ELSE \E k \in DOMAIN chat[j].calls : chat[j].calls[k] = CallOf(in.proto, in.wire, i + 1)
    BY Zenon DEF ReasoningStays, Precedes
<1> DEFINE proto == in.proto
           w == in.wire
<1>1. Parsed /\ Request(proto, w)
  <2>1. pc # "wire"
      OBVIOUS
  <2> QED BY <2>1, Zenon DEF ConvertInv
<1>2. chat = ParseMessages(proto, w)
    BY <1>1, Zenon DEF Parsed
<1>3. i \in 1 .. Len(w) /\ i + 1 \in 1 .. Len(w)
  <2>1. Len(w) \in Nat
      BY <1>1, WireFacts, Zenon DEF Request
  <2> QED BY <2>1
<1>4. \E x \in DOMAIN chat : Holds(proto, w, i, chat[x])
    BY <1>1, <1>2, <1>3, Reasons, Zenon
<1>5. PICK x \in DOMAIN chat : Holds(proto, w, i, chat[x])
    BY <1>4, Zenon
<1> QED BY <1>5, Zenon DEF Holds, HasPlace

(* In every request of every protocol the reasoning directly before words or *)
(* a named call of the assistant is handed on in one message with them; in   *)
(* the Responses protocol whatever comes between the items and whichever     *)
(* calls and results wait meanwhile (protocol_adapter.py, oai_adapter.py).   *)
THEOREM ReasoningStaysAlways == Spec => []ReasoningStays
<1> QED BY ConvertTyping, ReasoningStaysHolds, PTL

=============================================================================
