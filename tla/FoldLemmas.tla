----------------------------- MODULE FoldLemmas -----------------------------
(***************************************************************************)
(* What the proofs about loops rest on.  A loop of the code is a FoldLeft   *)
(* of the model, and FoldLeft is a recursive function over the sets of      *)
(* positions.  FoldExists says that the recursion has a solution when the   *)
(* loop's step is a function on some set of states; FoldTrace turns a       *)
(* solution into the sequence of states the loop goes through, about which  *)
(* an invariant is shown by Counting.                                       *)
(***************************************************************************)
EXTENDS Sublists, FiniteSetTheorems, WellFoundedInduction, TLAPS

\* A set of natural numbers that is not empty has a least element.
LEMMA LeastExists ==
  ASSUME NEW S \in SUBSET Nat, S # {}
  PROVE  \E n \in S : \A m \in S : n <= m
<1>1. PICK n \in S : \A m \in S : ~(<<m, n>> \in OpToRel(<, Nat))
  BY WFMin, NatLessThanWellFounded, Zenon
<1>2. \A m \in S : ~(m < n)
  BY <1>1 DEF OpToRel
<1> QED BY <1>2

\* A set of positions with the first and, with each, the next one has them all.
LEMMA Counting ==
  ASSUME NEW n \in Nat, NEW S, 0 \in S, \A k \in 1..n : k - 1 \in S => k \in S
  PROVE  \A k \in 0..n : k \in S
<1> SUFFICES ASSUME NEW q \in 0..n, q \notin S PROVE FALSE
  OBVIOUS
<1> DEFINE Out == {k \in 0..n : k \notin S}
<1>1. Out \in SUBSET Nat /\ Out # {}
  OBVIOUS
<1>2. PICK k \in Out : \A m \in Out : k <= m
  BY <1>1, LeastExists
<1>3. k \in 1..n /\ k - 1 \in 0..n /\ ~(k <= k - 1)
  BY <1>2
<1> QED BY <1>2, <1>3

\* Max, which FoldLeft uses to take positions from the last to the first.
LEMMA MaxOfPositions ==
  ASSUME NEW n \in Nat, NEW s \in SUBSET (1..n), s # {}
  PROVE  Max(s) \in s /\ \A x \in s : x <= Max(s)
<1> DEFINE Up == {m \in Nat : \A x \in s : x <= m}
<1>1. Up \in SUBSET Nat /\ n \in Up
  OBVIOUS
<1>2. PICK m \in Up : \A k \in Up : m <= k
  <2> HIDE DEF Up
  <2> QED BY <1>1, LeastExists
<1>3. PICK x \in s : TRUE
  OBVIOUS
<1>4. m \in Nat /\ 1 <= x /\ x <= m /\ \A y \in s : y <= m
  BY <1>2, <1>3
<1>5. m \in s
  <2> SUFFICES ASSUME m \notin s PROVE FALSE
    OBVIOUS
  <2>1. m - 1 \in Nat /\ \A y \in s : y <= m - 1
    BY <1>4
  <2>2. m <= m - 1
    BY <1>2, <2>1
  <2> QED BY <1>4, <2>2
<1>6. \E y \in s : \A z \in s : y >= z
  <2>1. \A z \in s : m >= z
    BY <1>4
  <2> QED BY <1>5, <2>1
<1>7. Max(s) \in s /\ \A z \in s : Max(s) >= z
  <2> HIDE <1>2
  <2> QED BY <1>6, Zenon DEF Max
<1> QED BY <1>7

Solves(g, base, step, n) ==
  \A s \in SUBSET (1..n) :
    g[s] = IF s = {} THEN base ELSE step[<<g[s \ {Max(s)}], Max(s)>>]

\* A loop over n positions whose step keeps to the states T can be folded.
LEMMA FoldExists ==
  ASSUME NEW T, NEW base \in T, NEW n \in Nat, NEW step \in [T \X (1..n) -> T]
  PROVE  \E g \in [SUBSET (1..n) -> T] : Solves(g, base, step, n)
<1> DEFINE S == {k \in 0..n : \E g \in [SUBSET (1..k) -> T] : Solves(g, base, step, k)}
<1>1. 0 \in S
  <2> DEFINE g == [s \in SUBSET (1..0) |-> base]
  <2>1. \A s \in SUBSET (1..0) : s = {}
    OBVIOUS
  <2>2. g \in [SUBSET (1..0) -> T] /\ Solves(g, base, step, 0)
    BY <2>1 DEF Solves
  <2> QED BY <2>2
<1>2. ASSUME NEW k \in 1..n, k - 1 \in S PROVE k \in S
  <2>1. PICK h \in [SUBSET (1..(k - 1)) -> T] : Solves(h, base, step, k - 1)
    BY <1>2
  <2> DEFINE g == [s \in SUBSET (1..k) |->
                     IF k \in s THEN step[<<h[s \ {k}], k>>] ELSE h[s]]
  <2>2. \A s \in SUBSET (1..k) : s \ {k} \in SUBSET (1..(k - 1)) /\ k \notin s \ {k}
                                 /\ s \ {k} \in SUBSET (1..k)
    OBVIOUS
  <2>3. \A s \in SUBSET (1..k) : k \notin s => s \in SUBSET (1..(k - 1))
    OBVIOUS
  <2>4. g \in [SUBSET (1..k) -> T]
    <3>1. ASSUME NEW s \in SUBSET (1..k) PROVE g[s] \in T
      <4>1. CASE k \in s
        <5>1. h[s \ {k}] \in T
          BY <2>1, <2>2
        <5>2. <<h[s \ {k}], k>> \in T \X (1..n)
          BY <5>1
        <5> QED BY <4>1, <5>2
      <4>2. CASE k \notin s
        <5>1. s \in SUBSET (1..(k - 1)) BY <2>3, <4>2
        <5> QED BY <4>2, <5>1, <2>1
      <4> QED BY <4>1, <4>2
    <3> QED BY <3>1
  <2>5. ASSUME NEW s \in SUBSET (1..k)
        PROVE  g[s] = IF s = {} THEN base ELSE step[<<g[s \ {Max(s)}], Max(s)>>]
    <3>1. CASE k \in s
      <4>0. k \in Nat /\ s # {}
        BY <3>1
      <4>1. Max(s) \in s /\ \A x \in s : x <= Max(s)
        BY <4>0, MaxOfPositions
      <4>2. Max(s) = k
        <5>1. Max(s) \in 1..k /\ k <= Max(s)
          BY <3>1, <4>1
        <5> QED BY <5>1
      <4>3. g[s \ {k}] = h[s \ {k}]
        BY <2>2
      <4>4. g[s] = step[<<h[s \ {k}], k>>]
        BY <3>1
      <4> QED BY <3>1, <4>2, <4>3, <4>4, Zenon
    <3>2. CASE k \notin s
      <4>1. s \in SUBSET (1..(k - 1)) /\ g[s] = h[s]
        BY <2>3, <3>2
      <4>2. h[s] = IF s = {} THEN base ELSE step[<<h[s \ {Max(s)}], Max(s)>>]
        BY <2>1, <4>1 DEF Solves
      <4>3. s \ {Max(s)} \in SUBSET (1..k) /\ k \notin s \ {Max(s)}
        BY <3>2
      <4>4. g[s \ {Max(s)}] = h[s \ {Max(s)}]
        BY <4>3
      <4> QED BY <4>1, <4>2, <4>4, Zenon
    <3> QED BY <3>1, <3>2
  <2>6. Solves(g, base, step, k)
    BY <2>5 DEF Solves
  <2>7. \E f \in [SUBSET (1..k) -> T] : Solves(f, base, step, k)
    BY <2>4, <2>6
  <2> QED BY <2>7
<1>3. \A k \in 0..n : k \in S
  <2> HIDE DEF S
  <2> QED BY <1>1, <1>2, Counting
<1>4. n \in S
  <2>1. n \in 0..n
    OBVIOUS
  <2> HIDE DEF S
  <2> QED BY <1>3, <2>1
<1> QED BY <1>4

\* A recursion over sets of positions, known only as long as its values are in T.
Iterates(it, base, step, T, n) ==
  /\ it[{}] = base
  /\ \A s \in SUBSET (1..n) : (s # {} /\ it[s \ {Max(s)}] \in T) =>
       it[s] = step[<<it[s \ {Max(s)}], Max(s)>>]

\* The loop goes through the states c[0], ..., c[n].
Passes(c, base, step, n, last) ==
  /\ c[0] = base /\ c[n] = last
  /\ \A k \in 1..n : c[k] = step[<<c[k - 1], k>>]

\* The states a folded loop goes through.
LEMMA FoldTrace ==
  ASSUME NEW T, NEW base \in T, NEW n \in Nat, NEW step \in [T \X (1..n) -> T], NEW it,
         Iterates(it, base, step, T, n)
  PROVE  \E c \in [0..n -> T] : Passes(c, base, step, n, it[1..n])
<1> USE DEF Iterates, Passes
<1>1. ASSUME NEW k \in 1..n, it[1..(k - 1)] \in T
      PROVE  it[1..k] \in T /\ it[1..k] = step[<<it[1..(k - 1)], k>>]
  <2>1. 1..k \in SUBSET (1..n) /\ 1..k # {}
    OBVIOUS
  <2>2. Max(1..k) \in 1..k /\ \A x \in 1..k : x <= Max(1..k)
    BY <2>1, MaxOfPositions
  <2>3. Max(1..k) = k
    <3> DEFINE m == Max(1..k)
    <3>1. m \in 1..k /\ k <= m
      BY <2>2
    <3> HIDE DEF m
    <3>2. m = k
      BY <3>1
    <3> QED BY <3>2 DEF m
  <2>4. (1..k) \ {k} = 1..(k - 1)
    OBVIOUS
  <2>5. it[1..k] = step[<<it[1..(k - 1)], k>>]
    BY <1>1, <2>1, <2>3, <2>4
  <2>6. <<it[1..(k - 1)], k>> \in T \X (1..n)
    BY <1>1
  <2> QED BY <2>5, <2>6
<1> DEFINE S == {k \in 0..n : it[1..k] \in T}
<1>2. 0 \in S /\ it[1..0] = base
  <2>1. 1..0 = {}
    OBVIOUS
  <2> QED BY <2>1
<1>3. \A k \in 1..n : k - 1 \in S => k \in S
  <2> SUFFICES ASSUME NEW k \in 1..n, k - 1 \in S PROVE k \in S
    OBVIOUS
  <2>1. k \in 0..n /\ it[1..(k - 1)] \in T
    OBVIOUS
  <2>2. it[1..k] \in T
    BY <1>1, <2>1
  <2> QED BY <2>1, <2>2
<1>4. \A k \in 0..n : k \in S
  <2> HIDE DEF S
  <2> QED BY <1>2, <1>3, Counting
<1> DEFINE c == [k \in 0..n |-> it[1..k]]
<1>5. c \in [0..n -> T]
  BY <1>4
<1>6. ASSUME NEW k \in 1..n PROVE c[k] = step[<<c[k - 1], k>>]
  <2>1. k - 1 \in 0..n /\ k \in 0..n
    OBVIOUS
  <2>2. it[1..(k - 1)] \in T
    BY <1>4, <2>1
  <2>3. it[1..k] = step[<<it[1..(k - 1)], k>>]
    BY <1>1, <2>2
  <2>4. c[k] = it[1..k] /\ c[k - 1] = it[1..(k - 1)]
    BY <2>1
  <2> QED BY <2>3, <2>4, Zenon
<1>7. c[0] = base /\ c[n] = it[1..n]
  BY <1>2
<1> HIDE DEF c
<1> QED BY <1>5, <1>6, <1>7

-----------------------------------------------------------------------------
(* Filtering *)

\* Appending adds one element.
LEMMA AppendElements ==
  ASSUME NEW U, NEW seq \in Seq(U), NEW x
  PROVE  ToSet(Append(seq, x)) = ToSet(seq) \cup {x}
<1>1. DOMAIN Append(seq, x) = DOMAIN seq \cup {Len(seq) + 1} /\ Len(seq) + 1 \notin DOMAIN seq
  OBVIOUS
<1>2. \A i \in DOMAIN seq : Append(seq, x)[i] = seq[i]
  OBVIOUS
<1>3. Append(seq, x)[Len(seq) + 1] = x
  OBVIOUS
<1> QED BY <1>1, <1>2, <1>3 DEF ToSet

\* c holds what SelectIn has built, position by position.
Filters(c, seq, keep) ==
  /\ c[0] = <<>> /\ c[Len(seq)] = SelectIn(seq, keep)
  /\ \A k \in 1..Len(seq) :
       c[k] = IF seq[k] \in keep THEN Append(c[k - 1], seq[k]) ELSE c[k - 1]

\* The fold goes through such states.
LEMMA SelectInTrace ==
  ASSUME NEW U, NEW seq \in Seq(U), NEW keep
  PROVE  \E c \in [0..Len(seq) -> Seq(U)] : Filters(c, seq, keep)
<1> DEFINE n == Len(seq)
           T == Seq(U)
           op(a, i) == IF seq[i] \in keep THEN Append(a, seq[i]) ELSE a
           step == [p \in T \X (1..n) |-> op(p[1], p[2])]
           it == CHOOSE f : f = [s \in SUBSET DOMAIN seq |->
                   IF s = {} THEN <<>> ELSE op(f[s \ {Max(s)}], Max(s))]
<1>1. n \in Nat /\ DOMAIN seq = 1..n /\ <<>> \in T
  OBVIOUS
<1>2. SelectIn(seq, keep) = it[DOMAIN seq]
  BY Zenon DEF SelectIn, FoldLeft, MapThenFoldSet
<1>3. step \in [T \X (1..n) -> T] /\ \A a \in T, i \in 1..n : step[<<a, i>>] = op(a, i)
  <2>1. \A a \in T, i \in 1..n : op(a, i) \in T
    OBVIOUS
  <2> HIDE DEF op, T, n
  <2> QED BY <2>1
<1> HIDE DEF op, step, T, n
<1>4. PICK g \in [SUBSET (1..n) -> T] : Solves(g, <<>>, step, n)
  BY <1>1, <1>3, FoldExists
<1>5. \A s \in SUBSET (1..n) : s # {} => Max(s) \in 1..n /\ s \ {Max(s)} \in SUBSET (1..n)
  BY <1>1, MaxOfPositions
<1>6. g = [s \in SUBSET DOMAIN seq |-> IF s = {} THEN <<>> ELSE op(g[s \ {Max(s)}], Max(s))]
  <2>1. ASSUME NEW s \in SUBSET (1..n)
        PROVE  g[s] = IF s = {} THEN <<>> ELSE op(g[s \ {Max(s)}], Max(s))
    <3>1. CASE s = {}
      BY <1>4, <3>1 DEF Solves
    <3>2. CASE s # {}
      <4>1. g[s \ {Max(s)}] \in T /\ Max(s) \in 1..n
        BY <1>4, <1>5, <3>2
      <4>2. g[s] = step[<<g[s \ {Max(s)}], Max(s)>>]
        BY <1>4, <3>2 DEF Solves
      <4> QED BY <1>3, <3>2, <4>1, <4>2
    <3> QED BY <3>1, <3>2
  <2> QED BY <1>1, <1>4, <2>1
<1>7. it = [s \in SUBSET DOMAIN seq |-> IF s = {} THEN <<>> ELSE op(it[s \ {Max(s)}], Max(s))]
  BY <1>6, Zenon
<1> HIDE DEF it
<1>8. Iterates(it, <<>>, step, T, n)
  BY <1>1, <1>3, <1>5, <1>7 DEF Iterates
<1>9. PICK c \in [0..n -> T] : Passes(c, <<>>, step, n, it[1..n])
  BY <1>1, <1>3, <1>8, FoldTrace
<1>10. ASSUME NEW k \in 1..n PROVE c[k] = op(c[k - 1], k)
  <2>1. k - 1 \in 0..n
    BY <1>1
  <2> QED BY <1>3, <1>9, <2>1 DEF Passes
<1> QED BY <1>1, <1>2, <1>9, <1>10 DEF n, T, op, Passes, Filters

\* A filtered sequence has the kept elements and no others.
LEMMA SelectInElements ==
  ASSUME NEW U, NEW seq \in Seq(U), NEW keep
  PROVE  /\ SelectIn(seq, keep) \in Seq(U)
         /\ ToSet(SelectIn(seq, keep)) = ToSet(seq) \cap keep
<1> DEFINE n == Len(seq)
<1>1. PICK c \in [0..n -> Seq(U)] : Filters(c, seq, keep)
  BY SelectInTrace
<1> USE DEF Filters
<1> DEFINE S == {k \in 0..n : ToSet(c[k]) = {seq[i] : i \in 1..k} \cap keep}
<1>2. n \in Nat /\ 0 \in 0..n /\ n \in 0..n
  OBVIOUS
<1>3. 0 \in S
  BY <1>1 DEF ToSet
<1>4. ASSUME NEW k \in 1..n, k - 1 \in S PROVE k \in S
  <2>1. k - 1 \in 0..n /\ k \in 0..n /\ c[k - 1] \in Seq(U) /\ seq[k] \in U
    BY <1>1, SMTT(30)
  <2>2. {seq[i] : i \in 1..k} = {seq[i] : i \in 1..(k - 1)} \cup {seq[k]}
    BY <2>1
  <2>3. ToSet(Append(c[k - 1], seq[k])) = ToSet(c[k - 1]) \cup {seq[k]}
    BY <2>1, AppendElements
  <2>4. ToSet(c[k - 1]) = {seq[i] : i \in 1..(k - 1)} \cap keep
    BY <1>4
  <2>5. ToSet(c[k]) = {seq[i] : i \in 1..k} \cap keep
    <3>1. CASE seq[k] \in keep
      BY <1>1, <2>2, <2>3, <2>4, <3>1
    <3>2. CASE seq[k] \notin keep
      BY <1>1, <2>2, <2>4, <3>2
    <3> QED BY <3>1, <3>2
  <2> QED BY <2>1, <2>5
<1>5. n \in S
  <2> HIDE DEF S
  <2> QED BY <1>2, <1>3, <1>4, Counting
<1>6. ToSet(seq) = {seq[i] : i \in 1..n}
  BY DEF ToSet
<1> QED BY <1>1, <1>2, <1>5, <1>6

\* Where in the first n positions of seq the kept elements come from.
Picks(f, out, seq, keep, n) ==
  /\ \A a, b \in 1..Len(out) : a < b => f[a] < f[b]
  /\ \A a \in 1..Len(out) : out[a] = seq[f[a]] /\ out[a] \in keep
  /\ \A i \in 1..n : seq[i] \in keep => \E a \in 1..Len(out) : f[a] = i

\* A filtered sequence keeps the order.
LEMMA SelectInOrder ==
  ASSUME NEW U, NEW seq \in Seq(U), NEW keep
  PROVE  \E f \in [1..Len(SelectIn(seq, keep)) -> 1..Len(seq)] :
           Picks(f, SelectIn(seq, keep), seq, keep, Len(seq))
<1> DEFINE n == Len(seq)
<1>1. PICK c \in [0..n -> Seq(U)] : Filters(c, seq, keep)
  BY SelectInTrace
<1> DEFINE Q == {k \in 0..n : \E f \in [1..Len(c[k]) -> 1..k] : Picks(f, c[k], seq, keep, k)}
<1>2. n \in Nat /\ 0 \in 0..n /\ n \in 0..n
  OBVIOUS
<1>3. 0 \in Q
  <2> DEFINE f == [a \in 1..0 |-> a]
  <2>1. Len(c[0]) = 0 /\ f \in [1..Len(c[0]) -> 1..0]
    BY <1>1, <1>2 DEF Filters
  <2>2. Picks(f, c[0], seq, keep, 0)
    BY <2>1 DEF Picks
  <2> QED BY <1>2, <2>1, <2>2
<1>4. ASSUME NEW k \in 1..n, k - 1 \in Q PROVE k \in Q
  <2>1. k - 1 \in 0..n /\ k \in 0..n /\ c[k - 1] \in Seq(U) /\ seq[k] \in U
    BY <1>1
  <2>2. PICK f \in [1..Len(c[k - 1]) -> 1..(k - 1)] : Picks(f, c[k - 1], seq, keep, k - 1)
    BY <1>4
  <2> DEFINE m == Len(c[k - 1])
  <2>3. m \in Nat
    BY <2>1
  <2>4. CASE seq[k] \in keep
    <3> DEFINE g == [a \in 1..(m + 1) |-> IF a = m + 1 THEN k ELSE f[a]]
               out == c[k]
    <3>1. out = Append(c[k - 1], seq[k])
      BY <1>1, <2>4 DEF Filters
    <3>2. /\ Len(out) = m + 1 /\ out[m + 1] = seq[k]
          /\ \A a \in 1..m : out[a] = c[k - 1][a]
      BY <2>1, <3>1
    <3>3. g[m + 1] = k /\ \A a \in 1..m : g[a] = f[a] /\ f[a] \in 1..(k - 1)
      BY <2>2, <2>3
    <3>4. g \in [1..Len(out) -> 1..k]
      BY <2>2, <2>3, <3>2
    <3> HIDE DEF g, out, m
    <3>5. \A a \in 1..(m + 1) : a = m + 1 \/ a \in 1..m
      BY <2>3
    <3>6. \A a, b \in 1..Len(out) : a < b => g[a] < g[b]
      <4> SUFFICES ASSUME NEW a \in 1..(m + 1), NEW b \in 1..(m + 1), a < b PROVE g[a] < g[b]
        BY <3>2
      <4>1. a \in 1..m
        BY <2>3
      <4>2. CASE b = m + 1
        BY <3>3, <4>1, <4>2
      <4>3. CASE b \in 1..m
        BY <2>2, <3>3, <4>1, <4>3 DEF Picks, m
      <4> QED BY <3>5, <4>2, <4>3
    <3>7. \A a \in 1..Len(out) : out[a] = seq[g[a]] /\ out[a] \in keep
      BY <2>2, <2>4, <3>2, <3>3, <3>5 DEF Picks, m
    <3>8. ASSUME NEW i \in 1..k, seq[i] \in keep PROVE \E a \in 1..Len(out) : g[a] = i
      <4>1. CASE i = k
        BY <2>3, <3>2, <3>3, <4>1
      <4>2. CASE i # k
        <5>1. PICK a \in 1..m : f[a] = i
          BY <2>2, <3>8, <4>2 DEF Picks, m
        <5>2. a \in 1..(m + 1)
          BY <2>3
        <5> QED BY <3>2, <3>3, <5>1, <5>2
      <4> QED BY <4>1, <4>2
    <3>9. Picks(g, out, seq, keep, k)
      BY <3>6, <3>7, <3>8 DEF Picks
    <3> QED BY <2>1, <3>4, <3>9 DEF out
  <2>5. CASE seq[k] \notin keep
    <3>1. c[k] = c[k - 1]
      BY <1>1, <2>5 DEF Filters
    <3>2. f \in [1..Len(c[k]) -> 1..k]
      BY <2>2, <3>1
    <3>3. \A i \in 1..k : seq[i] \in keep => i \in 1..(k - 1)
      BY <2>5
    <3>4. Picks(f, c[k], seq, keep, k)
      BY <2>2, <3>1, <3>3 DEF Picks
    <3> QED BY <2>1, <3>2, <3>4
  <2> QED BY <2>4, <2>5
<1>5. n \in Q
  <2> HIDE DEF Q
  <2> QED BY <1>2, <1>3, <1>4, Counting
<1>6. c[n] = SelectIn(seq, keep)
  BY <1>1 DEF Filters
<1> QED BY <1>5, <1>6

-----------------------------------------------------------------------------
(* Cutting and joining *)

\* A stretch of a sequence, which may be empty.
LEMMA SubSeqElements ==
  ASSUME NEW U, NEW seq \in Seq(U), NEW i \in Nat, NEW j \in Nat,
         1 <= i, i <= j + 1, j <= Len(seq)
  PROVE  /\ SubSeq(seq, i, j) \in Seq(U) /\ Len(SubSeq(seq, i, j)) = j - i + 1
         /\ \A p \in 1..(j - i + 1) : SubSeq(seq, i, j)[p] = seq[i + p - 1]
<1>1. Len(SubSeq(seq, i, j)) = j - i + 1
  BY SMT
<1>2. ASSUME NEW p \in 1..(j - i + 1) PROVE SubSeq(seq, i, j)[p] = seq[i + p - 1]
  BY SMT
<1>3. SubSeq(seq, i, j) \in Seq(U)
  BY SMT
<1> QED BY <1>1, <1>2, <1>3

\* Two sequences, one after the other.
LEMMA ConcatElements ==
  ASSUME NEW U, NEW a \in Seq(U), NEW b \in Seq(U)
  PROVE  /\ a \o b \in Seq(U) /\ Len(a \o b) = Len(a) + Len(b)
         /\ \A p \in 1..Len(a) : (a \o b)[p] = a[p]
         /\ \A p \in (Len(a) + 1)..(Len(a) + Len(b)) : (a \o b)[p] = b[p - Len(a)]
  BY SMT

\* Two sequences hold what either holds, and repeat nothing if they share nothing.
LEMMA ConcatSets ==
  ASSUME NEW U, NEW a \in Seq(U), NEW b \in Seq(U)
  PROVE  /\ a \o b \in Seq(U) /\ ToSet(a \o b) = ToSet(a) \cup ToSet(b)
         /\ (IsInjective(a) /\ IsInjective(b) /\ ToSet(a) \cap ToSet(b) = {}) =>
              IsInjective(a \o b)
<1> DEFINE both == a \o b
           m == Len(a)
           n == Len(b)
<1>1. /\ both \in Seq(U) /\ Len(both) = m + n
      /\ \A p \in 1..m : both[p] = a[p]
      /\ \A p \in (m + 1)..(m + n) : both[p] = b[p - m]
  BY ConcatElements
<1>2. m \in Nat /\ n \in Nat /\ DOMAIN a = 1..m /\ DOMAIN b = 1..n
  OBVIOUS
<1> HIDE DEF both, m, n
<1>3. DOMAIN both = 1..(m + n)
  BY <1>1, <1>2
<1>4. \A p \in 1..(m + n) : p \in 1..m \/ (p \in (m + 1)..(m + n) /\ p - m \in 1..n)
  BY <1>2
<1>5. ToSet(a) = {a[p] : p \in 1..m} /\ ToSet(b) = {b[p] : p \in 1..n}
      /\ ToSet(both) = {both[p] : p \in 1..(m + n)}
  BY <1>2, <1>3 DEF ToSet
<1>6. ToSet(both) = ToSet(a) \cup ToSet(b)
  <2>1. ASSUME NEW x \in ToSet(both) PROVE x \in ToSet(a) \cup ToSet(b)
    <3>1. PICK p \in 1..(m + n) : x = both[p]
      BY <1>5
    <3>2. CASE p \in 1..m
      BY <1>1, <1>5, <3>1, <3>2
    <3>3. CASE p \in (m + 1)..(m + n) /\ p - m \in 1..n
      BY <1>1, <1>5, <3>1, <3>3
    <3> QED BY <1>4, <3>1, <3>2, <3>3
  <2>2. ASSUME NEW x \in ToSet(a) PROVE x \in ToSet(both)
    <3>1. PICK p \in 1..m : x = a[p]
      BY <1>5
    <3>2. p \in 1..(m + n)
      BY <1>2
    <3> QED BY <1>1, <1>5, <3>1, <3>2
  <2>3. ASSUME NEW x \in ToSet(b) PROVE x \in ToSet(both)
    <3>1. PICK p \in 1..n : x = b[p]
      BY <1>5
    <3>2. p + m \in (m + 1)..(m + n) /\ p + m \in 1..(m + n) /\ (p + m) - m = p
      BY <1>2
    <3>3. both[p + m] = x
      BY <1>1, <3>1, <3>2
    <3> QED BY <1>5, <3>2, <3>3
  <2> QED BY <2>1, <2>2, <2>3
<1>7. ASSUME IsInjective(a), IsInjective(b), ToSet(a) \cap ToSet(b) = {},
             NEW p \in 1..(m + n), NEW q \in 1..(m + n), both[p] = both[q]
      PROVE  p = q
  <2>1. CASE p \in 1..m /\ q \in 1..m
    BY <1>1, <1>2, <1>7, <2>1 DEF IsInjective
  <2>2. CASE /\ p \in (m + 1)..(m + n) /\ p - m \in 1..n
             /\ q \in (m + 1)..(m + n) /\ q - m \in 1..n
    <3>1. b[p - m] = b[q - m]
      BY <1>1, <1>7, <2>2
    <3>2. p - m = q - m
      BY <1>2, <1>7, <2>2, <3>1 DEF IsInjective
    <3> QED BY <1>2, <3>2
  <2>3. \A x \in 1..m, y \in 1..n : a[x] # b[y]
    BY <1>5, <1>7
  <2>4. ~(p \in 1..m /\ q \in (m + 1)..(m + n) /\ q - m \in 1..n)
    BY <1>1, <1>7, <2>3
  <2>5. ~(q \in 1..m /\ p \in (m + 1)..(m + n) /\ p - m \in 1..n)
    BY <1>1, <1>7, <2>3
  <2> QED BY <1>4, <2>1, <2>2, <2>4, <2>5
<1>8. (IsInjective(a) /\ IsInjective(b) /\ ToSet(a) \cap ToSet(b) = {}) => IsInjective(both)
  BY <1>3, <1>7 DEF IsInjective
<1> QED BY <1>1, <1>6, <1>8 DEF both

-----------------------------------------------------------------------------
(* Sorting by insertion *)

\* b is a with x at m, between the others.
InsertedAt(b, a, m, x) ==
  /\ Len(b) = Len(a) + 1 /\ b[m] = x
  /\ \A p \in 1..(m - 1) : b[p] = a[p]
  /\ \A p \in (m + 1)..(Len(a) + 1) : b[p] = a[p - 1]

\* One element more.
LEMMA InsertAtElements ==
  ASSUME NEW U, NEW a \in Seq(U), NEW m \in 1..(Len(a) + 1), NEW x \in U
  PROVE  InsertAt(a, m, x) \in Seq(U) /\ InsertedAt(InsertAt(a, m, x), a, m, x)
<1> DEFINE left == SubSeq(a, 1, m - 1)
           right == SubSeq(a, m, Len(a))
           one == <<x>>
           start == left \o one
<1>1. m \in Nat /\ Len(a) \in Nat /\ 1 <= m /\ m <= Len(a) + 1 /\ m - 1 \in Nat
  OBVIOUS
<1>2. left \in Seq(U) /\ Len(left) = m - 1 /\ \A p \in 1..(m - 1) : left[p] = a[p]
  BY <1>1, SubSeqElements
<1>3. /\ right \in Seq(U) /\ Len(right) = Len(a) - m + 1
      /\ \A p \in 1..(Len(a) - m + 1) : right[p] = a[m + p - 1]
  BY <1>1, SubSeqElements
<1>4. /\ one \in Seq(U) /\ Len(one) = 1 /\ one[1] = x
  OBVIOUS
<1> HIDE DEF left, right, one
<1>5. /\ start \in Seq(U) /\ Len(start) = m /\ start[m] = x
      /\ \A p \in 1..(m - 1) : start[p] = a[p]
  <2>1. /\ start \in Seq(U) /\ Len(start) = Len(left) + Len(one)
        /\ \A p \in 1..Len(left) : start[p] = left[p]
        /\ \A p \in (Len(left) + 1)..(Len(left) + Len(one)) : start[p] = one[p - Len(left)]
    BY <1>2, <1>4, ConcatElements
  <2> HIDE DEF start
  <2>2. Len(start) = m
    BY <1>1, <1>2, <1>4, <2>1
  <2>3. m \in (Len(left) + 1)..(Len(left) + Len(one)) /\ m - Len(left) = 1
    BY <1>1, <1>2, <1>4
  <2>4. start[m] = one[m - Len(left)]
    BY <2>1, <2>3
  <2>5. start[m] = x
    BY <1>4, <2>3, <2>4
  <2>6. ASSUME NEW p \in 1..(m - 1) PROVE start[p] = a[p]
    BY <1>2, <2>1
  <2> QED BY <2>1, <2>2, <2>5, <2>6
<1> HIDE DEF start
<1>6. InsertAt(a, m, x) = start \o right
  BY DEF InsertAt, start, left, right, one
<1> DEFINE all == start \o right
<1>7. /\ all \in Seq(U) /\ Len(all) = Len(a) + 1
      /\ \A p \in 1..m : all[p] = start[p]
      /\ \A p \in (m + 1)..(Len(a) + 1) : all[p] = right[p - m]
  <2>1. /\ all \in Seq(U) /\ Len(all) = Len(start) + Len(right)
        /\ \A p \in 1..Len(start) : all[p] = start[p]
        /\ \A p \in (Len(start) + 1)..(Len(start) + Len(right)) : all[p] = right[p - Len(start)]
    BY <1>3, <1>5, ConcatElements
  <2> HIDE DEF all
  <2>2. Len(all) = Len(a) + 1
    BY <1>1, <1>3, <1>5, <2>1
  <2>3. ASSUME NEW p \in 1..m PROVE all[p] = start[p]
    BY <1>5, <2>1
  <2>4. ASSUME NEW p \in (m + 1)..(Len(a) + 1) PROVE all[p] = right[p - m]
    <3>1. m + (Len(a) - m + 1) = Len(a) + 1
      BY <1>1
    <3> QED BY <1>3, <1>5, <2>1, <3>1
  <2> QED BY <2>1, <2>2, <2>3, <2>4
<1> HIDE DEF all
<1>8. \A p \in (m + 1)..(Len(a) + 1) : right[p - m] = a[p - 1]
  BY <1>1, <1>3
<1>9. InsertAt(a, m, x) = all
  BY <1>6 DEF all
<1>10. all[m] = x
  <2>1. m \in 1..m
    BY <1>1
  <2> QED BY <1>5, <1>7, <2>1
<1>11. ASSUME NEW p \in 1..(m - 1) PROVE all[p] = a[p]
  <2>1. p \in 1..m
    BY <1>1
  <2> QED BY <1>5, <1>7, <2>1
<1>12. ASSUME NEW p \in (m + 1)..(Len(a) + 1) PROVE all[p] = a[p - 1]
  BY <1>7, <1>8
<1>13. InsertedAt(all, a, m, x)
  BY <1>7, <1>10, <1>11, <1>12 DEF InsertedAt
<1> QED BY <1>7, <1>9, <1>13

\* c holds what has been sorted, element by element.
SortsIn(c, seq) ==
  /\ c[0] = <<>>
  /\ \A k \in 1..Len(seq) :
       \E m \in 1..(Len(c[k - 1]) + 1) : c[k] = InsertAt(c[k - 1], m, seq[k])

\* What is sorted has the elements there were, each as often.
LEMMA InsertsAll ==
  ASSUME NEW U, NEW seq \in Seq(U), NEW c \in [0..Len(seq) -> Seq(U)], SortsIn(c, seq)
  PROVE  /\ ToSet(c[Len(seq)]) = ToSet(seq) /\ Len(c[Len(seq)]) = Len(seq)
         /\ IsInjective(seq) => IsInjective(c[Len(seq)])
<1> DEFINE n == Len(seq)
           Apart(k) == \A i, j \in 1..k : seq[i] = seq[j] => i = j
           Good(k) == /\ Len(c[k]) = k
                      /\ \A p \in 1..k : \E i \in 1..k : c[k][p] = seq[i]
                      /\ \A i \in 1..k : \E p \in 1..k : c[k][p] = seq[i]
                      /\ Apart(k) => \A p, q \in 1..k : c[k][p] = c[k][q] => p = q
           S == {k \in 0..n : Good(k)}
<1>1. n \in Nat /\ DOMAIN seq = 1..n /\ n \in 0..n /\ 0 \in 0..n
  OBVIOUS
<1>2. 0 \in S
  BY <1>1 DEF SortsIn
<1>3. ASSUME NEW k \in 1..n, k - 1 \in S PROVE k \in S
  <2>0. Good(k - 1)
    BY <1>3
  <2>1. /\ k \in Nat /\ k - 1 \in 0..n /\ k \in 0..n /\ c[k - 1] \in Seq(U) /\ seq[k] \in U
        /\ k - 1 \in Nat /\ k >= 1
    BY <1>1
  <2>2. PICK m \in 1..(Len(c[k - 1]) + 1) : c[k] = InsertAt(c[k - 1], m, seq[k])
    BY DEF SortsIn
  <2> DEFINE a == c[k - 1]
             b == c[k]
  <2>3. Len(a) = k - 1 /\ m \in 1..k
    BY <2>0, <2>1, <2>2
  <2>4. /\ Len(b) = k /\ b[m] = seq[k]
        /\ \A p \in 1..(m - 1) : b[p] = a[p] /\ p \in 1..(k - 1)
        /\ \A p \in (m + 1)..k : b[p] = a[p - 1] /\ p - 1 \in 1..(k - 1)
    <3>1. /\ Len(b) = Len(a) + 1 /\ b[m] = seq[k]
          /\ \A p \in 1..(m - 1) : b[p] = a[p]
          /\ \A p \in (m + 1)..(Len(a) + 1) : b[p] = a[p - 1]
      <4>1. a \in Seq(U) /\ m \in 1..(Len(a) + 1) /\ b = InsertAt(a, m, seq[k])
        BY <2>1, <2>2
      <4> HIDE DEF a, b, Good
      <4>2. InsertedAt(b, a, m, seq[k])
        BY <2>1, <4>1, InsertAtElements
      <4> QED BY <4>2 DEF InsertedAt
    <3> HIDE DEF a, b, Good
    <3>2. Len(a) + 1 = k /\ m \in Nat /\ 1 <= m /\ m <= k
      BY <2>1, <2>3
    <3>3. \A p \in 1..(m - 1) : p \in 1..(k - 1)
      BY <2>1, <3>2
    <3>4. \A p \in (m + 1)..k : p - 1 \in 1..(k - 1)
      BY <2>1, <3>2
    <3> QED BY <3>1, <3>2, <3>3, <3>4
  <2>5. /\ \A p \in 1..(k - 1) : \E i \in 1..(k - 1) : a[p] = seq[i]
        /\ \A i \in 1..(k - 1) : \E p \in 1..(k - 1) : a[p] = seq[i]
        /\ Apart(k - 1) => \A p, q \in 1..(k - 1) : a[p] = a[q] => p = q
    BY <2>0
  <2> HIDE DEF a, b, Apart
  <2>6. \A p \in 1..k : p = m \/ p \in 1..(m - 1) \/ p \in (m + 1)..k
    BY <2>1, <2>3
  <2>7. \A p \in 1..k : \E i \in 1..k : b[p] = seq[i]
    <3> SUFFICES ASSUME NEW p \in 1..k PROVE \E i \in 1..k : b[p] = seq[i]
      OBVIOUS
    <3>1. k \in 1..k /\ \A i \in 1..(k - 1) : i \in 1..k
      BY <2>1
    <3>2. CASE p = m
      BY <2>4, <3>1, <3>2
    <3>3. CASE p \in 1..(m - 1)
      <4>1. PICK i \in 1..(k - 1) : a[p] = seq[i]
        BY <2>4, <2>5, <3>3, Zenon
      <4> QED BY <2>4, <3>1, <3>3, <4>1, Zenon
    <3>4. CASE p \in (m + 1)..k
      <4>1. PICK i \in 1..(k - 1) : a[p - 1] = seq[i]
        BY <2>4, <2>5, <3>4, Zenon
      <4> QED BY <2>4, <3>1, <3>4, <4>1, Zenon
    <3> QED BY <2>6, <3>2, <3>3, <3>4
  <2>8. \A i \in 1..k : \E p \in 1..k : b[p] = seq[i]
    <3> SUFFICES ASSUME NEW i \in 1..k PROVE \E p \in 1..k : b[p] = seq[i]
      OBVIOUS
    <3>1. CASE i = k
      BY <2>3, <2>4, <3>1
    <3>2. CASE i # k
      <4>1. PICK p \in 1..(k - 1) : a[p] = seq[i]
        <5>1. i \in 1..(k - 1)
          BY <2>1, <3>2
        <5> QED BY <2>5, <5>1
      <4>2. CASE p < m
        BY <2>1, <2>3, <2>4, <4>1, <4>2
      <4>3. CASE ~(p < m)
        <5>1. p + 1 \in (m + 1)..k /\ p + 1 \in 1..k /\ (p + 1) - 1 = p
          BY <2>1, <2>3, <4>1, <4>3
        <5> QED BY <2>4, <4>1, <5>1
      <4> QED BY <4>2, <4>3
    <3> QED BY <3>1, <3>2
  <2>9. ASSUME Apart(k), NEW p \in 1..k, NEW q \in 1..k, b[p] = b[q] PROVE p = q
    <3>1. Apart(k - 1)
      BY <2>1, <2>9 DEF Apart
    <3>2. \A x \in 1..(k - 1) : a[x] # seq[k]
      <4> SUFFICES ASSUME NEW x \in 1..(k - 1), a[x] = seq[k] PROVE FALSE
        OBVIOUS
      <4>1. PICK i \in 1..(k - 1) : a[x] = seq[i]
        BY <2>5
      <4>2. i \in 1..k /\ k \in 1..k /\ i # k
        BY <2>1
      <4> QED BY <2>9, <4>1, <4>2 DEF Apart
    <3>3. \A x, y \in 1..(k - 1) : a[x] = a[y] => x = y
      BY <2>5, <3>1
    <3>4. CASE p = m
      BY <2>4, <2>6, <2>9, <3>2, <3>4
    <3>5. CASE p \in 1..(m - 1)
      <4>1. q # m
        BY <2>4, <2>9, <3>2, <3>5
      <4>2. CASE q \in 1..(m - 1)
        BY <2>4, <2>9, <3>3, <3>5, <4>2
      <4>3. CASE q \in (m + 1)..k
        <5>1. p = q - 1
          BY <2>4, <2>9, <3>3, <3>5, <4>3
        <5> QED BY <2>3, <3>5, <4>3, <5>1
      <4> QED BY <2>6, <4>1, <4>2, <4>3
    <3>6. CASE p \in (m + 1)..k
      <4>1. q # m
        BY <2>4, <2>9, <3>2, <3>6
      <4>2. CASE q \in 1..(m - 1)
        <5>1. p - 1 = q
          BY <2>4, <2>9, <3>3, <3>6, <4>2
        <5> QED BY <2>3, <3>6, <4>2, <5>1
      <4>3. CASE q \in (m + 1)..k
        <5>1. p - 1 = q - 1
          BY <2>4, <2>9, <3>3, <3>6, <4>3
        <5> QED BY <2>3, <3>6, <4>3, <5>1
      <4> QED BY <2>6, <4>1, <4>2, <4>3
    <3> QED BY <2>6, <3>4, <3>5, <3>6
  <2>10. Good(k)
    BY <2>4, <2>7, <2>8, <2>9 DEF b
  <2> HIDE DEF Good
  <2> QED BY <2>1, <2>10
<1>4. Good(n)
  <2> HIDE DEF Good
  <2>1. n \in S
    <3> HIDE DEF S
    <3> QED BY <1>1, <1>2, <1>3, Counting
  <2> QED BY <2>1
<1>5. c[n] \in Seq(U) /\ DOMAIN c[n] = 1..n
  BY <1>1, <1>4
<1>6. ToSet(c[n]) = ToSet(seq)
  <2>1. ToSet(c[n]) = {c[n][p] : p \in 1..n} /\ ToSet(seq) = {seq[i] : i \in 1..n}
    BY <1>1, <1>5 DEF ToSet
  <2>2. /\ \A p \in 1..n : \E i \in 1..n : c[n][p] = seq[i]
        /\ \A i \in 1..n : \E p \in 1..n : c[n][p] = seq[i]
    BY <1>4
  <2>3. \A x : x \in ToSet(c[n]) <=> x \in ToSet(seq)
    BY <2>1, <2>2, ZenonT(60)
  <2> QED BY <2>3
<1>7. IsInjective(seq) => IsInjective(c[n])
  BY <1>1, <1>4, <1>5 DEF IsInjective
<1> QED BY <1>4, <1>6, <1>7

\* A place behind some of the elements of a sequence.
LEMMA InsertPlace ==
  ASSUME NEW U, NEW a \in Seq(U), NEW behind, behind \subseteq DOMAIN a
  PROVE  1 + Cardinality(behind) \in 1..(Len(a) + 1)
<1>1. DOMAIN a = 1..Len(a) /\ Len(a) \in Nat
  OBVIOUS
<1>2. IsFiniteSet(1..Len(a)) /\ Cardinality(1..Len(a)) = Len(a)
  <2>1. /\ IsFiniteSet(1..Len(a))
        /\ Cardinality(1..Len(a)) = IF 1 > Len(a) THEN 0 ELSE Len(a) - 1 + 1
    <3>1. 1 \in Int /\ Len(a) \in Int
      BY <1>1
    <3> QED BY ONLY <3>1, FS_Interval, Zenon
  <2> QED BY <1>1, <2>1
<1>3. IsFiniteSet(behind) /\ Cardinality(behind) <= Len(a)
  BY <1>1, <1>2, FS_Subset
<1>4. Cardinality(behind) \in Nat
  BY <1>3, FS_CardinalityType
<1> QED BY <1>1, <1>3, <1>4

\* Filtering repeats nothing.
LEMMA SelectInInjective ==
  ASSUME NEW U, NEW seq \in Seq(U), NEW keep, IsInjective(seq)
  PROVE  IsInjective(SelectIn(seq, keep))
<1> DEFINE out == SelectIn(seq, keep)
<1>1. PICK f \in [1..Len(out) -> 1..Len(seq)] : Picks(f, out, seq, keep, Len(seq))
  BY SelectInOrder
<1>2. out \in Seq(U)
  BY SelectInElements
<1> HIDE DEF out
<1>3. DOMAIN out = 1..Len(out) /\ DOMAIN seq = 1..Len(seq) /\ Len(out) \in Nat
  BY <1>2
<1>4. ASSUME NEW a \in 1..Len(out), NEW b \in 1..Len(out), out[a] = out[b] PROVE a = b
  <2>1. seq[f[a]] = seq[f[b]] /\ f[a] \in 1..Len(seq) /\ f[b] \in 1..Len(seq)
    BY <1>1, <1>4 DEF Picks
  <2>2. f[a] = f[b]
    BY <1>3, <2>1 DEF IsInjective
  <2> QED BY <1>1, <1>3, <2>1, <2>2 DEF Picks
<1> QED BY <1>3, <1>4 DEF IsInjective, out
=============================================================================
