------------------------- MODULE CaseRecompute_proofs -------------------------
(***************************************************************************)
(* Theorems about the first run of the proposal pipeline, for any seeds,      *)
(* brands, tool answers and agents, within everything else that happens to     *)
(* the case: whatever fails or is answered wrongly, an audit that passed      *)
(* covered every candidate, a run fails only when nothing could be proposed, *)
(* and no candidate carries the advice of another's agent.                  *)
(*                                                                         *)
(* The lemmas on lists come first.  The libraries have no induction that can *)
(* be instantiated here, so NatInductionOnSet is proved from the pigeonhole  *)
(* principle, and what a comprehension or a sort computes from it.          *)
(***************************************************************************)
EXTENDS CaseRecompute, FiniteSetTheorems, TLAPS

-----------------------------------------------------------------------------
\* Induction and lists.

\* Induction on the natural numbers, over a set.
LEMMA NatInductionOnSet ==
  ASSUME NEW P \in SUBSET Nat, 0 \in P, \A n \in P : n + 1 \in P
  PROVE  P = Nat
<1>1. ASSUME NEW n \in Nat, n \notin P
      PROVE  FALSE
  <2> DEFINE S == (0..n) \ P
             down == [m \in S |-> m - 1]
  <2>1. IsFiniteSet(0..n)
    BY FS_Interval
  <2>2. IsFiniteSet(S)
    BY <2>1, FS_Subset
  <2>3. n \in S /\ \A m \in S : m \in Nat /\ m - 1 \in S \ {n}
    BY <1>1
  <2>4. IsFiniteSet(S \ {n}) /\ Cardinality(S \ {n}) = Cardinality(S) - 1
    BY <2>2, <2>3, FS_RemoveElement
  <2>5. Cardinality(S) \in Nat
    BY <2>2, FS_CardinalityType
  <2>6. down \in [S -> S \ {n}] /\ \A m \in S : down[m] = m - 1
    BY <2>3
  <2> HIDE DEF S, down
  <2>7. PICK x, y \in S : x # y /\ down[x] = down[y]
    BY <2>2, <2>4, <2>5, <2>6, FS_PigeonHole
  <2>8. QED
    BY <2>7, <2>3, <2>6
<1>2. QED
  BY <1>1

\* f has its first value and its steps.
Recurrence(f, n, A, a, step) ==
  f \in [0..n -> A] /\ f[0] = a /\ \A i \in 1..n : f[i] = step[i][f[i - 1]]

\* A function can be defined by its first value and its steps.
LEMMA StepsDefineFunction ==
  ASSUME NEW n \in Nat, NEW A, NEW a \in A, NEW step \in [1..n -> [A -> A]]
  PROVE  \E f : Recurrence(f, n, A, a, step)
<1> DEFINE Steps(m, f) == f[0] = a /\ \A i \in 1..m : f[i] = step[i][f[i - 1]]
           P == {m \in Nat : m <= n => \E f \in [0..m -> A] : Steps(m, f)}
<1>1. 0 \in P
  <2>1. [i \in 0..0 |-> a] \in [0..0 -> A] /\ Steps(0, [i \in 0..0 |-> a])
    OBVIOUS
  <2>2. QED
    BY <2>1
<1>2. ASSUME NEW m \in P
      PROVE  m + 1 \in P
  <2>0. m \in Nat /\ (m <= n => \E f \in [0..m -> A] : Steps(m, f))
    OBVIOUS
  <2> HIDE DEF Steps
  <2>1. SUFFICES ASSUME m + 1 <= n
                 PROVE  \E f \in [0..(m + 1) -> A] : Steps(m + 1, f)
    BY <2>0
  <2> HIDE DEF P
  <2> USE <2>0
  <2>2. PICK f \in [0..m -> A] : Steps(m, f)
    BY <2>1
  <2> USE DEF Steps
  <2> DEFINE g == [i \in 0..(m + 1) |-> IF i <= m THEN f[i] ELSE step[m + 1][f[m]]]
  <2>3. step[m + 1] \in [A -> A] /\ f[m] \in A
    BY <2>1, <2>2
  <2>4. g \in [0..(m + 1) -> A]
    <3>1. ASSUME NEW i \in 0..(m + 1)
          PROVE  (IF i <= m THEN f[i] ELSE step[m + 1][f[m]]) \in A
      <4>1. CASE i <= m
        BY <4>1
      <4>2. CASE ~(i <= m)
        BY <2>3, <4>2
      <4>3. QED
        BY <4>1, <4>2
    <3>2. QED
      BY <3>1
  <2>5. g[0] = a
    BY <2>2
  <2>6. ASSUME NEW i \in 1..(m + 1)
        PROVE  g[i] = step[i][g[i - 1]]
    <3>1. CASE i <= m
      BY <2>2, <3>1
    <3>2. CASE i = m + 1
      BY <3>2
    <3>3. QED
      BY <3>1, <3>2
  <2>7. QED
    BY <2>4, <2>5, <2>6
<1>3. P = Nat
  BY <1>1, <1>2, NatInductionOnSet
<1>4. QED
  BY <1>3 DEF Recurrence

\* What a list is: a function on its places onto its range.
LEMMA ListBasics ==
  ASSUME NEW s, List(s)
  PROVE  /\ Len(s) \in Nat
         /\ DOMAIN s = 1..Len(s)
         /\ s \in [1..Len(s) -> Range(s)]
         /\ Range(s) = {s[i] : i \in 1..Len(s)}
         /\ s = <<>> <=> Range(s) = {}
         /\ s = <<>> <=> Len(s) = 0
BY DEF List, Range

\* A sequence is a list.
LEMMA ListOf ==
  ASSUME NEW S, NEW s \in Seq(S)
  PROVE  List(s) /\ Range(s) \subseteq S
BY DEF List, Range

\* A function on 1..n is a list.
LEMMA FunctionIsList ==
  ASSUME NEW n \in Nat, NEW S, NEW s \in [1..n -> S]
  PROVE  List(s) /\ Len(s) = n /\ Range(s) \subseteq S
BY DEF List, Range

\* Two lists one after the other.
LEMMA ConcatIsList ==
  ASSUME NEW s, NEW t, List(s), List(t)
  PROVE  /\ List(s \o t)
         /\ Len(s \o t) = Len(s) + Len(t)
         /\ \A i \in 1..Len(s) : (s \o t)[i] = s[i]
         /\ \A i \in 1..Len(t) : (s \o t)[Len(s) + i] = t[i]
         /\ Range(s \o t) = Range(s) \cup Range(t)
<1> DEFINE S == Range(s) \cup Range(t)
<1>1. s \in Seq(S) /\ t \in Seq(S)
  BY DEF List, Range
<1> HIDE DEF S
<1>2. /\ s \o t \in Seq(S) /\ Len(s) \in Nat /\ Len(t) \in Nat
      /\ Len(s \o t) = Len(s) + Len(t)
      /\ DOMAIN s = 1..Len(s) /\ DOMAIN t = 1..Len(t)
      /\ DOMAIN (s \o t) = 1..(Len(s) + Len(t))
      /\ \A i \in 1..(Len(s) + Len(t)) :
           (s \o t)[i] = IF i <= Len(s) THEN s[i] ELSE t[i - Len(s)]
  BY <1>1
<1>3. List(s \o t)
  BY <1>2, ListOf
<1>4. /\ \A i \in 1..Len(s) : (s \o t)[i] = s[i]
      /\ \A i \in 1..Len(t) : (s \o t)[Len(s) + i] = t[i]
  BY <1>2
<1>5. ASSUME NEW x \in Range(s) \cup Range(t)
      PROVE  x \in Range(s \o t)
  <2>1. CASE x \in Range(s)
    <3>1. PICK i \in 1..Len(s) : x = s[i]
      BY <2>1, <1>2 DEF Range
    <3>2. QED
      BY <3>1, <1>2 DEF Range
  <2>2. CASE x \in Range(t)
    <3>1. PICK i \in 1..Len(t) : x = t[i]
      BY <2>2, <1>2 DEF Range
    <3>2. Len(s) + i \in DOMAIN (s \o t) /\ (s \o t)[Len(s) + i] = x
      BY <3>1, <1>2
    <3>3. QED
      BY <3>2 DEF Range
  <2>3. QED
    BY <1>5, <2>1, <2>2
<1>6. ASSUME NEW x \in Range(s \o t)
      PROVE  x \in Range(s) \cup Range(t)
  <2>1. PICK i \in 1..(Len(s) + Len(t)) : x = (s \o t)[i]
    BY <1>2 DEF Range
  <2>2. CASE i <= Len(s)
    BY <1>2, <2>1, <2>2 DEF Range
  <2>3. CASE ~(i <= Len(s))
    <3>1. i - Len(s) \in 1..Len(t) /\ x = t[i - Len(s)]
      BY <1>2, <2>1, <2>3
    <3>2. QED
      BY <3>1, <1>2 DEF Range
  <2>4. QED
    BY <2>2, <2>3
<1>7. QED
  BY <1>2, <1>3, <1>4, <1>5, <1>6

\* A list with one more member.
LEMMA AppendIsList ==
  ASSUME NEW s, List(s), NEW x
  PROVE  /\ List(Append(s, x))
         /\ Len(Append(s, x)) = Len(s) + 1
         /\ \A i \in 1..Len(s) : Append(s, x)[i] = s[i]
         /\ Append(s, x)[Len(s) + 1] = x
<1> DEFINE S == Range(s) \cup {x}
<1>1. s \in Seq(S) /\ x \in S
  BY DEF List, Range
<1> HIDE DEF S
<1>2. /\ Append(s, x) \in Seq(S)
      /\ Len(Append(s, x)) = Len(s) + 1
      /\ \A i \in 1..Len(s) : Append(s, x)[i] = s[i]
      /\ Append(s, x)[Len(s) + 1] = x
  BY <1>1
<1>3. QED
  BY <1>2, ListOf

\* Its members.
LEMMA AppendRange ==
  ASSUME NEW s, List(s), NEW x
  PROVE  Range(Append(s, x)) = Range(s) \cup {x}
<1>1. /\ List(<<x>>) /\ Range(<<x>>) = {x}
  BY DEF List, Range
<1>2. Append(s, x) = s \o <<x>>
  BY DEF List
<1>3. QED
  BY <1>1, <1>2, ConcatIsList

\* list[:n], as the pools, the tasks and the shown candidates are cut off.
LEMMA UptoIsList ==
  ASSUME NEW s, List(s), NEW n \in Nat
  PROVE  /\ List(Upto(s, n))
         /\ Range(Upto(s, n)) \subseteq Range(s)
         /\ Len(Upto(s, n)) <= n
         /\ Len(Upto(s, n)) <= Len(s)
         /\ \A i \in 1..Len(Upto(s, n)) : Upto(s, n)[i] = s[i]
         /\ s # <<>> /\ n > 0 => Upto(s, n) # <<>>
<1> DEFINE m == IF Len(s) <= n THEN Len(s) ELSE n
<1>1. /\ s \in Seq(Range(s)) /\ Len(s) \in Nat /\ DOMAIN s = 1..Len(s)
      /\ m \in Nat /\ m <= Len(s) /\ m <= n
      /\ s # <<>> /\ n > 0 => m > 0
  BY ListBasics DEF List
<1> DEFINE f == [i \in 1..m |-> s[i]]
<1>2. Upto(s, n) = f
  BY <1>1 DEF Upto
<1> HIDE DEF m
<1>3. f \in [1..m -> Range(s)] /\ \A i \in 1..m : f[i] = s[i]
  BY <1>1
<1> HIDE DEF f
<1>4. List(f) /\ Len(f) = m /\ Range(f) \subseteq Range(s)
  BY <1>1, <1>3, FunctionIsList
<1>5. QED
  BY <1>1, <1>2, <1>3, <1>4

-----------------------------------------------------------------------------
\* Picking and sorting.

\* A comprehension with a condition has exactly the members that meet it.
LEMMA PickedIsList ==
  ASSUME NEW s, List(s), NEW places
  PROVE  /\ List(Picked(s, places))
         /\ Range(Picked(s, places)) = {s[i] : i \in (1..Len(s)) \cap places}
<1> DEFINE n == Len(s)
           A == Seq(Range(s))
           step == [i \in 1..n |->
                      [t \in A |-> IF i \in places THEN Append(t, s[i]) ELSE t]]
           IsPicked(f) ==
             f = [i \in 0..n |-> IF i = 0 THEN <<>>
                                 ELSE IF i \in places THEN Append(f[i - 1], s[i])
                                 ELSE f[i - 1]]
           picked == CHOOSE f : IsPicked(f)
<1>1. n \in Nat /\ s \in [1..n -> Range(s)]
  BY ListBasics
<1>2. Picked(s, places) = picked[n]
  BY DEF Picked
<1>3. \E f : IsPicked(f)
  <2>1. ASSUME NEW i \in 1..n, NEW t \in A
        PROVE  (IF i \in places THEN Append(t, s[i]) ELSE t) \in A
    <3>1. s[i] \in Range(s)
      BY <1>1
    <3>2. Append(t, s[i]) \in A
      BY <3>1
    <3>3. QED
      BY <3>2
  <2>2. step \in [1..n -> [A -> A]] /\ <<>> \in A
    BY <2>1
  <2> HIDE DEF n, step, A
  <2>3. PICK f \in [0..n -> A] :
          f[0] = <<>> /\ \A i \in 1..n : f[i] = step[i][f[i - 1]]
    <3>1. \E f : Recurrence(f, n, A, <<>>, step)
      BY <1>1, <2>2, StepsDefineFunction
    <3>2. QED
      BY <3>1 DEF Recurrence
  <2>4. ASSUME NEW i \in 1..n
        PROVE  f[i] = IF i \in places THEN Append(f[i - 1], s[i]) ELSE f[i - 1]
    <3>1. i - 1 \in 0..n
      BY <1>1
    <3>2. f[i - 1] \in A
      BY <2>3, <3>1
    <3>3. QED
      BY <2>3, <3>2 DEF step
  <2>5. IsPicked(f)
    <3>1. \A i \in 0..n : f[i] = IF i = 0 THEN <<>>
                                  ELSE IF i \in places THEN Append(f[i - 1], s[i])
                                  ELSE f[i - 1]
      <4>1. ASSUME NEW i \in 0..n
            PROVE  f[i] = IF i = 0 THEN <<>>
                          ELSE IF i \in places THEN Append(f[i - 1], s[i]) ELSE f[i - 1]
        <5>1. CASE i = 0
          BY <2>3, <5>1
        <5>2. CASE i # 0
          <6>1. i \in 1..n
            BY <5>2
          <6>2. QED
            BY <2>4, <5>2, <6>1
        <5>3. QED
          BY <5>1, <5>2
      <4>2. QED
        BY <4>1
    <3>2. f = [i \in 0..n |-> f[i]]
      OBVIOUS
    <3>3. QED
      BY <3>1, <3>2
  <2>6. QED
    BY <2>5
<1>4. IsPicked(picked)
  BY <1>3
<1> HIDE DEF picked, n
<1>9. /\ picked[0] = <<>>
      /\ \A i \in 1..n : picked[i] = IF i \in places THEN Append(picked[i - 1], s[i])
                                       ELSE picked[i - 1]
  <2>1. picked = [i \in 0..n |-> IF i = 0 THEN <<>>
                                 ELSE IF i \in places THEN Append(picked[i - 1], s[i])
                                 ELSE picked[i - 1]]
    BY <1>4
  <2>2. picked[0] = <<>>
    BY <1>1, <2>1
  <2>3. ASSUME NEW i \in 1..n
        PROVE  picked[i] = IF i \in places THEN Append(picked[i - 1], s[i])
                           ELSE picked[i - 1]
    <3>1. i \in 0..n /\ i # 0
      OBVIOUS
    <3>2. QED
      BY <2>1, <3>1, Zenon
  <2>4. QED
    BY <2>2, <2>3
<1> HIDE DEF IsPicked
<1> DEFINE Of(m) == {s[i] : i \in (1..m) \cap places}
           P == {m \in Nat : m <= n => List(picked[m]) /\ Range(picked[m]) = Of(m)}
<1>5. 0 \in P
  <2>1. picked[0] = <<>>
    BY <1>9
  <2>2. List(<<>>) /\ Range(<<>>) = {}
    BY DEF List, Range
  <2>3. Of(0) = {}
    OBVIOUS
  <2>4. QED
    BY <2>1, <2>2, <2>3
<1>6. ASSUME NEW m \in P
      PROVE  m + 1 \in P
  <2>0. m \in Nat /\ (m <= n => List(picked[m]) /\ Range(picked[m]) = Of(m))
    OBVIOUS
  <2>1. SUFFICES ASSUME m + 1 <= n
                 PROVE  List(picked[m + 1]) /\ Range(picked[m + 1]) = Of(m + 1)
    BY <2>0
  <2>2. List(picked[m]) /\ Range(picked[m]) = Of(m) /\ m + 1 \in 1..n
    BY <2>0, <2>1, <1>1
  <2>3. picked[m + 1] = IF m + 1 \in places THEN Append(picked[m], s[m + 1])
                        ELSE picked[m]
    <3>1. m + 1 \in 1..n /\ (m + 1) - 1 = m
      BY <2>0, <2>2
    <3>2. QED
      BY <1>9, <3>1
  <2>4. CASE m + 1 \in places
    <3>1. Of(m + 1) = Of(m) \cup {s[m + 1]}
      BY <2>0, <2>4
    <3>2. List(Append(picked[m], s[m + 1]))
      BY <2>2, AppendIsList
    <3>3. Range(Append(picked[m], s[m + 1])) = Range(picked[m]) \cup {s[m + 1]}
      BY <2>2, AppendRange
    <3>4. QED
      BY <2>2, <2>3, <2>4, <3>1, <3>2, <3>3
  <2>5. CASE m + 1 \notin places
    <3>1. Of(m + 1) = Of(m)
      BY <2>0, <2>5
    <3>2. QED
      BY <2>2, <2>3, <2>5, <3>1
  <2>6. QED
    BY <2>4, <2>5
<1>7. n \in P
  BY <1>1, <1>5, <1>6, NatInductionOnSet
<1>8. QED
  BY <1>1, <1>2, <1>7 DEF n

\* One step of sorting by insertion.
LEMMA InsertedIsList ==
  ASSUME NEW S, NEW places \in Seq(S), NEW n \in S, NEW key
  PROVE  /\ Inserted(places, n, key) \in Seq(S)
         /\ Len(Inserted(places, n, key)) = Len(places) + 1
<1> DEFINE before == {i \in DOMAIN places : ~Smaller(key[n], key[places[i]])}
           k == Cardinality(before)
           m == Len(places)
<1>1. before \subseteq 1..m /\ m \in Nat
  OBVIOUS
<1>2. k \in 0..m
  <2> HIDE DEF before, m
  <2>0. 1 \in Int /\ m \in Int /\ 1 <= m + 1
    BY <1>1
  <2>1. IsFiniteSet(1..m) /\ Cardinality(1..m) = m
    BY <1>1, <2>0, FS_Interval
  <2>2. IsFiniteSet(before) /\ k <= m
    BY <1>1, <2>1, FS_Subset
  <2>3. k \in Nat
    BY <2>2, FS_CardinalityType
  <2>4. QED
    BY <2>2, <2>3
<1>3. Inserted(places, n, key) = SubSeq(places, 1, k) \o <<n>> \o SubSeq(places, k + 1, m)
  BY DEF Inserted
<1> HIDE DEF before, k, m
<1>9. places \in Seq(S) /\ m = Len(places)
  BY DEF m
<1>4. /\ SubSeq(places, 1, k) \in Seq(S) /\ Len(SubSeq(places, 1, k)) = k
      /\ SubSeq(places, k + 1, m) \in Seq(S) /\ Len(SubSeq(places, k + 1, m)) = m - k
  BY <1>1, <1>2, <1>9
<1>5. /\ <<n>> \in Seq(S) /\ Len(<<n>>) = 1
  OBVIOUS
<1>6. /\ SubSeq(places, 1, k) \o <<n>> \in Seq(S)
      /\ Len(SubSeq(places, 1, k) \o <<n>>) = k + 1
  BY <1>2, <1>4, <1>5
<1>7. /\ SubSeq(places, 1, k) \o <<n>> \o SubSeq(places, k + 1, m) \in Seq(S)
      /\ Len(SubSeq(places, 1, k) \o <<n>> \o SubSeq(places, k + 1, m)) = m + 1
  <2> DEFINE front == SubSeq(places, 1, k) \o <<n>>
             back == SubSeq(places, k + 1, m)
  <2>1. /\ front \in Seq(S) /\ back \in Seq(S)
        /\ Len(front) = k + 1 /\ Len(back) = m - k
        /\ k \in Nat /\ m \in Nat
    BY <1>1, <1>2, <1>4, <1>6
  <2> HIDE DEF front, back
  <2>2. front \o back \in Seq(S) /\ Len(front \o back) = m + 1
    BY <2>1
  <2>3. QED
    BY <2>2 DEF front, back
<1>8. QED
  BY <1>3, <1>7 DEF m

\* sorted(): a list of the same length, with no member that was not there.
LEMMA SortedByIsList ==
  ASSUME NEW s, List(s), NEW key
  PROVE  /\ List(SortedBy(s, key))
         /\ Len(SortedBy(s, key)) = Len(s)
         /\ Range(SortedBy(s, key)) \subseteq Range(s)
<1> DEFINE n == Len(s)
           A == Seq(1..n)
           step == [i \in 1..n |-> [t \in A |-> Inserted(t, i, key)]]
           IsOrder(f) ==
             f = [i \in 0..n |-> IF i = 0 THEN <<>> ELSE Inserted(f[i - 1], i, key)]
           order == CHOOSE f : IsOrder(f)
<1>1. n \in Nat /\ s \in [1..n -> Range(s)] /\ DOMAIN s = 1..n
  BY ListBasics
<1>2. SortedBy(s, key) = [i \in DOMAIN s |-> s[order[n][i]]]
  BY DEF SortedBy
<1>3. \E f : IsOrder(f)
  <2>1. ASSUME NEW i \in 1..n, NEW t \in A
        PROVE  Inserted(t, i, key) \in A
    BY InsertedIsList
  <2>2. step \in [1..n -> [A -> A]] /\ <<>> \in A
    BY <2>1
  <2> HIDE DEF n, step, A
  <2>3. PICK f \in [0..n -> A] :
          f[0] = <<>> /\ \A i \in 1..n : f[i] = step[i][f[i - 1]]
    <3>1. \E f : Recurrence(f, n, A, <<>>, step)
      BY <1>1, <2>2, StepsDefineFunction
    <3>2. QED
      BY <3>1 DEF Recurrence
  <2>4. ASSUME NEW i \in 1..n
        PROVE  f[i] = Inserted(f[i - 1], i, key)
    <3>1. i - 1 \in 0..n
      BY <1>1
    <3>2. f[i - 1] \in A
      BY <2>3, <3>1
    <3>3. QED
      BY <2>3, <3>2 DEF step
  <2>5. IsOrder(f)
    <3>1. ASSUME NEW i \in 0..n
          PROVE  f[i] = IF i = 0 THEN <<>> ELSE Inserted(f[i - 1], i, key)
      <4>1. CASE i = 0
        BY <2>3, <4>1
      <4>2. CASE i # 0
        <5>1. i \in 1..n
          BY <4>2
        <5>2. QED
          BY <2>4, <4>2, <5>1
      <4>3. QED
        BY <4>1, <4>2
    <3>2. f = [i \in 0..n |-> f[i]]
      OBVIOUS
    <3>3. QED
      BY <3>1, <3>2
  <2>6. QED
    BY <2>5
<1>4. IsOrder(order)
  BY <1>3
<1> HIDE DEF order, n
<1>5. /\ order[0] = <<>>
      /\ \A i \in 1..n : order[i] = Inserted(order[i - 1], i, key)
  <2>1. order = [i \in 0..n |-> IF i = 0 THEN <<>> ELSE Inserted(order[i - 1], i, key)]
    BY <1>4
  <2>2. order[0] = <<>>
    BY <1>1, <2>1
  <2>3. ASSUME NEW i \in 1..n
        PROVE  order[i] = Inserted(order[i - 1], i, key)
    <3>1. i \in 0..n /\ i # 0
      OBVIOUS
    <3>2. QED
      BY <2>1, <3>1, Zenon
  <2>4. QED
    BY <2>2, <2>3
<1> HIDE DEF IsOrder
<1> DEFINE P == {m \in Nat : m <= n => order[m] \in A /\ Len(order[m]) = m}
<1>6. 0 \in P
  <2>1. <<>> \in A /\ Len(<<>>) = 0
    OBVIOUS
  <2>2. order[0] \in A /\ Len(order[0]) = 0
    BY <1>5, <2>1
  <2>3. QED
    BY <2>2
<1>7. ASSUME NEW m \in P
      PROVE  m + 1 \in P
  <2>0. m \in Nat /\ (m <= n => order[m] \in A /\ Len(order[m]) = m)
    OBVIOUS
  <2>1. SUFFICES ASSUME m + 1 <= n
                 PROVE  order[m + 1] \in A /\ Len(order[m + 1]) = m + 1
    BY <2>0
  <2>2. order[m] \in A /\ Len(order[m]) = m /\ m + 1 \in 1..n /\ (m + 1) - 1 = m
    BY <2>0, <2>1, <1>1
  <2>3. order[m + 1] = Inserted(order[m], m + 1, key)
    BY <1>5, <2>2
  <2>5. order[m] \in Seq(1..n)
    BY <2>2
  <2>6. \A S, t, i : t \in Seq(S) /\ i \in S =>
          /\ Inserted(t, i, key) \in Seq(S)
          /\ Len(Inserted(t, i, key)) = Len(t) + 1
    BY InsertedIsList
  <2>7. /\ Inserted(order[m], m + 1, key) \in Seq(1..n)
        /\ Len(Inserted(order[m], m + 1, key)) = Len(order[m]) + 1
    BY <2>2, <2>5, <2>6, Zenon
  <2>4. QED
    BY <2>2, <2>3, <2>7
<1>8. n \in P
  BY <1>1, <1>6, <1>7, NatInductionOnSet
<1>9. order[n] \in [1..n -> 1..n]
  BY <1>1, <1>8
<1>10. SortedBy(s, key) \in [1..n -> Range(s)]
  BY <1>1, <1>2, <1>9
<1>11. QED
  BY <1>1, <1>10, FunctionIsList DEF n

-----------------------------------------------------------------------------
\* Flattening, and the largest of a set.

\* A flattened list is a list and has the members of all its parts; the function by
\* which the library defines it exists, as each of its values follows from the one before.
LEMMA FlatExists ==
  ASSUME NEW n \in Nat, NEW U, NEW s \in [1..n -> Seq(U)]
  PROVE  \E f : f = [i \in 1..n |-> IF i = 1 THEN s[i] ELSE f[i - 1] \o s[i]]
<1> DEFINE A == Seq(U)
           step == [i \in 1..n |-> [t \in A |-> t \o s[i]]]
           IsFlat(f) == f = [i \in 1..n |-> IF i = 1 THEN s[i] ELSE f[i - 1] \o s[i]]
<1>1. ASSUME NEW i \in 1..n, NEW t \in A
      PROVE  t \o s[i] \in A /\ s[i] \in A
  OBVIOUS
<1>2. n \in Nat /\ step \in [1..n -> [A -> A]] /\ DOMAIN step = 1..n /\ <<>> \in A
  BY <1>1
<1>3. ASSUME NEW i \in 1..n, NEW t \in A
      PROVE  step[i][t] = t \o s[i]
  OBVIOUS
<1> HIDE DEF step, A
<1>4. PICK f \in [0..n -> A] : f[0] = <<>> /\ \A i \in 1..n : f[i] = step[i][f[i - 1]]
  <2>1. \E f : Recurrence(f, n, A, <<>>, step)
    BY <1>2, StepsDefineFunction
  <2>2. QED
    BY <2>1 DEF Recurrence
<1> DEFINE g == [i \in 1..n |-> f[i]]
<1>5. ASSUME NEW i \in 1..n
      PROVE  g[i] = IF i = 1 THEN s[i] ELSE g[i - 1] \o s[i]
  <2>1. i - 1 \in 0..n /\ f[i - 1] \in A
    BY <1>4
  <2>2. f[i] = f[i - 1] \o s[i]
    BY <1>3, <1>4, <2>1
  <2>3. CASE i = 1
    <3>1. <<>> \o s[i] = s[i]
      BY <1>1 DEF A
    <3>2. f[i - 1] = <<>>
      BY <1>4, <2>3
    <3>3. f[i] = s[i]
      BY <2>2, <3>1, <3>2, Zenon
    <3>4. QED
      BY <2>3, <3>3
  <2>4. CASE i # 1
    <3>1. i - 1 \in 1..n
      BY <2>4
    <3>2. QED
      BY <2>2, <2>4, <3>1
  <2>5. QED
    BY <2>3, <2>4
<1>6. IsFlat(g)
  <2>1. g = [i \in 1..n |-> g[i]]
    OBVIOUS
  <2> HIDE DEF g
  <2>2. QED
    BY <1>5, <2>1, Zenon
<1>7. QED
  BY <1>6

\* What FlattenSeq joins.
LEMMA FlattenIsList ==
  ASSUME NEW s, List(s), \A k \in 1..Len(s) : List(s[k])
  PROVE  /\ List(FlattenSeq(s))
         /\ Range(FlattenSeq(s)) = UNION {Range(s[k]) : k \in 1..Len(s)}
<1> DEFINE n == Len(s)
           A == Seq(UNION {Range(s[k]) : k \in 1..n})
           step == [i \in 1..n |-> [t \in A |-> t \o s[i]]]
           IsFlat(f) == f = [i \in 1..n |-> IF i = 1 THEN s[i] ELSE f[i - 1] \o s[i]]
           flat == CHOOSE f : IsFlat(f)
<1>1. n \in Nat /\ (s = <<>> <=> n = 0)
  BY ListBasics
<1>2. CASE n = 0
  <2>1. FlattenSeq(s) = <<>> /\ s = <<>>
    BY <1>1, <1>2 DEF FlattenSeq
  <2>2. List(<<>>) /\ Range(<<>>) = {}
    BY DEF List, Range
  <2>3. {Range(s[k]) : k \in 1..n} = {}
    BY <1>2
  <2>4. QED
    BY <2>1, <2>2, <2>3
<1>3. CASE n # 0
  <2>1. FlattenSeq(s) = flat[n]
    BY <1>3 DEF FlattenSeq
  <2>2. ASSUME NEW i \in 1..n
        PROVE  s[i] \in A
    <3>1. /\ s[i] \in Seq(Range(s[i]))
          /\ Range(s[i]) \subseteq UNION {Range(s[k]) : k \in 1..n}
      BY DEF List
    <3> HIDE DEF n
    <3>2. QED
      BY <3>1
  <2>3. \E f : IsFlat(f)
    <3> DEFINE U == UNION {Range(s[k]) : k \in 1..n}
    <3>1. s \in [1..n -> Seq(U)]
      BY <1>1, <2>2, ListBasics
    <3> HIDE DEF n, U
    <3>2. QED
      BY <1>1, <3>1, FlatExists
  <2>4. IsFlat(flat)
    BY <2>3
  <2> HIDE DEF flat, n
  <2>5. /\ flat[1] = s[1]
        /\ \A i \in 2..n : flat[i] = flat[i - 1] \o s[i]
    <3>1. flat = [i \in 1..n |-> IF i = 1 THEN s[i] ELSE flat[i - 1] \o s[i]]
      BY <2>4
    <3>2. flat[1] = s[1]
      BY <1>1, <1>3, <3>1
    <3>3. ASSUME NEW i \in 2..n
          PROVE  flat[i] = flat[i - 1] \o s[i]
      <4>1. i \in 1..n /\ i # 1
        BY <1>1
      <4>2. QED
        BY <3>1, <4>1, Zenon
    <3>4. QED
      BY <3>2, <3>3
  <2> HIDE DEF IsFlat
  <2> DEFINE Of(m) == UNION {Range(s[k]) : k \in 1..m}
             P == {m \in Nat : 1 <= m /\ m <= n => List(flat[m]) /\ Range(flat[m]) = Of(m)}
  <2>6. 0 \in P
    OBVIOUS
  <2>7. ASSUME NEW m \in P
        PROVE  m + 1 \in P
    <3>0. m \in Nat /\ (1 <= m /\ m <= n => List(flat[m]) /\ Range(flat[m]) = Of(m))
      OBVIOUS
    <3>1. SUFFICES ASSUME m + 1 <= n
                   PROVE  List(flat[m + 1]) /\ Range(flat[m + 1]) = Of(m + 1)
      BY <3>0
    <3>2. List(s[m + 1])
      BY <1>1, <3>0, <3>1 DEF n
    <3>3. CASE m = 0
      <4>1. {Range(s[k]) : k \in 1..1} = {Range(s[1])}
        OBVIOUS
      <4>2. Of(1) = Range(s[1])
        BY <4>1
      <4>3. QED
        BY <2>5, <3>2, <3>3, <4>2
    <3>4. CASE m # 0
      <4>1. m + 1 \in 2..n /\ (m + 1) - 1 = m /\ 1 <= m /\ m <= n
        BY <1>1, <3>0, <3>1, <3>4
      <4>2. List(flat[m]) /\ Range(flat[m]) = Of(m) /\ flat[m + 1] = flat[m] \o s[m + 1]
        BY <2>5, <3>0, <4>1
      <4>3. List(flat[m] \o s[m + 1])
        BY <3>2, <4>2, ConcatIsList
      <4>4. Range(flat[m] \o s[m + 1]) = Range(flat[m]) \cup Range(s[m + 1])
        BY <3>2, <4>2, ConcatIsList
      <4>5. Of(m + 1) = Of(m) \cup Range(s[m + 1])
        BY <3>0
      <4>6. QED
        BY <4>2, <4>3, <4>4, <4>5
    <3>5. QED
      BY <3>3, <3>4
  <2>8. n \in P
    BY <1>1, <2>6, <2>7, NatInductionOnSet
  <2>9. QED
    BY <1>1, <1>3, <2>1, <2>8 DEF n
<1>4. QED
  BY <1>2, <1>3

\* A finite set of natural numbers that has a member has a largest one.
LEMMA MaxIsLargest ==
  ASSUME NEW n \in Nat, NEW S \in SUBSET (1..n), S # {}
  PROVE  Max(S) \in S /\ \A x \in S : x <= Max(S)
<1>1. \E y \in S : \A z \in S : z <= y
  <2> DEFINE Q == {m \in Nat : \A T \in SUBSET (1..m) :
                      T # {} => \E y \in T : \A z \in T : z <= y}
  <2>1. 0 \in Q
    <3>1. SUBSET (1..0) = {{}}
      OBVIOUS
    <3>2. QED
      BY <3>1
  <2>2. ASSUME NEW m \in Q
        PROVE  m + 1 \in Q
    <3>0. m \in Nat /\ \A T \in SUBSET (1..m) : T # {} => \E y \in T : \A z \in T : z <= y
      OBVIOUS
    <3>1. ASSUME NEW T \in SUBSET (1..(m + 1)), T # {}
          PROVE  \E y \in T : \A z \in T : z <= y
      <4>1. CASE m + 1 \in T
        BY <3>0, <4>1
      <4>2. CASE m + 1 \notin T
        <5>1. T \in SUBSET (1..m)
          BY <3>0, <4>2
        <5>2. QED
          BY <3>0, <3>1, <5>1
      <4>3. QED
        BY <4>1, <4>2
    <3>2. QED
      BY <3>0, <3>1
  <2>3. n \in Q
    BY <2>1, <2>2, NatInductionOnSet
  <2>4. QED
    BY <2>3
<1>2. Max(S) = CHOOSE x \in S : \A y \in S : x >= y
  BY DEF Max
<1>3. \E x \in S : \A y \in S : x >= y
  BY <1>1
<1>4. QED
  BY <1>2, <1>3

-----------------------------------------------------------------------------
\* Seeds and drafts (ProposalBuilder).

\* The list without members.
LEMMA EmptyIsList == List(<<>>) /\ Range(<<>>) = {}
BY DEF List, Range

\* What is true of a list, of its function literals.
LEMMA MappedIsList ==
  ASSUME NEW s, List(s), NEW f, DOMAIN f = DOMAIN s, f = [i \in DOMAIN s |-> f[i]]
  PROVE  List(f) /\ Len(f) = Len(s) /\ Range(f) = {f[i] : i \in 1..Len(s)}
<1>1. Len(s) \in Nat /\ DOMAIN s = 1..Len(s)
  BY ListBasics
<1>2. f \in [1..Len(s) -> Range(f)]
  BY <1>1 DEF Range
<1>3. QED
  BY <1>1, <1>2, FunctionIsList, ListBasics

\* simple_proposal.py: only registered seeds are selected.
LEMMA SelectedSeeds ==
  ASSUME NEW who
  PROVE  List(SelectSeeds(who)) /\ Range(SelectSeeds(who)) \subseteq Range(Seeds)
<1> DEFINE places == {k \in DOMAIN Seeds : Compatible(who, Seeds[k])}
           seeds == Picked(Seeds, places)
           key == [k \in DOMAIN seeds |-> <<-Matches(who, seeds[k])>>]
<1>1. List(Seeds)
  BY BuilderAssumption
<1>2. List(seeds) /\ Range(seeds) \subseteq Range(Seeds)
  <2>1. /\ List(seeds)
        /\ Range(seeds) = {Seeds[i] : i \in (1..Len(Seeds)) \cap places}
    BY <1>1, PickedIsList
  <2>2. \A i \in 1..Len(Seeds) : Seeds[i] \in Range(Seeds)
    BY <1>1, ListBasics
  <2>3. QED
    BY <2>1, <2>2
<1>3. SelectSeeds(who) = SortedBy(seeds, key)
  BY DEF SelectSeeds, BestFirst
<1> HIDE DEF seeds, key
<1>4. List(SortedBy(seeds, key)) /\ Range(SortedBy(seeds, key)) \subseteq Range(seeds)
  BY <1>2, SortedByIsList
<1>5. QED
  BY <1>2, <1>3, <1>4

\* The drafts of a context, as sets: simple_proposal.py:153-200.
InputsOf(ctx) == FinancialInputs(ctx, SelectSeeds(ctx.founder))

IndependentDrafts(ctx) ==
  {IndependentDraft(ctx, InputsOf(ctx), seed) :
     seed \in {s \in Range(SelectSeeds(ctx.founder)) :
                 s.id \in ctx.proposed /\ ctx.founder.preference # "FRANCHISE_ONLY"}}

FranchiseDrafts(ctx) ==
  {FranchiseDraft(ctx, InputsOf(ctx), brand) :
     brand \in {b \in Range(ctx.universe) :
                  /\ b.id \in ctx.proposed
                  /\ b.eligibility = "VERIFIED"
                  /\ ctx.founder.preference # "INDEPENDENT_ONLY"}}

\* They are what Drafts lists.
LEMMA DraftsOfContext ==
  ASSUME NEW ctx, List(ctx.universe)
  PROVE  /\ List(Drafts(ctx))
         /\ Range(Drafts(ctx)) = IndependentDrafts(ctx) \cup FranchiseDrafts(ctx)
<1> DEFINE seeds == SelectSeeds(ctx.founder)
           here == {i \in DOMAIN seeds : seeds[i].id \in ctx.proposed}
           independent == Picked(seeds, here)
           there == {i \in DOMAIN ctx.universe :
                       /\ ctx.universe[i].eligibility = "VERIFIED"
                       /\ ctx.universe[i].id \in ctx.proposed}
           brands == Picked(ctx.universe, there)
           preference == ctx.founder.preference
           Of(seed) == IndependentDraft(ctx, InputsOf(ctx), seed)
           Also(brand) == FranchiseDraft(ctx, InputsOf(ctx), brand)
           one == [i \in DOMAIN independent |-> Of(independent[i])]
           two == [i \in DOMAIN brands |-> Also(brands[i])]
           first == IF preference = "FRANCHISE_ONLY" THEN <<>> ELSE one
           second == IF preference = "INDEPENDENT_ONLY" THEN <<>> ELSE two
<1>1. Drafts(ctx) = first \o second
  BY DEF Drafts, InputsOf
<1>2. List(seeds)
  BY SelectedSeeds
<1> HIDE DEF seeds
<1>3. /\ List(independent)
      /\ Range(independent) = {s \in Range(seeds) : s.id \in ctx.proposed}
  <2>1. /\ List(independent)
        /\ Range(independent) = {seeds[i] : i \in (1..Len(seeds)) \cap here}
    BY <1>2, PickedIsList
  <2>2. DOMAIN seeds = 1..Len(seeds) /\ Range(seeds) = {seeds[i] : i \in 1..Len(seeds)}
    BY <1>2, ListBasics
  <2>3. QED
    BY <2>1, <2>2
<1>4. /\ List(brands)
      /\ Range(brands) = {b \in Range(ctx.universe) : /\ b.eligibility = "VERIFIED"
                                                      /\ b.id \in ctx.proposed}
  <2>1. /\ List(brands)
        /\ Range(brands) = {ctx.universe[i] : i \in (1..Len(ctx.universe)) \cap there}
    BY PickedIsList
  <2>2. /\ DOMAIN ctx.universe = 1..Len(ctx.universe)
        /\ Range(ctx.universe) = {ctx.universe[i] : i \in 1..Len(ctx.universe)}
    BY ListBasics
  <2>3. QED
    BY <2>1, <2>2
<1> HIDE DEF independent, brands, Of, Also
<1>5. List(one) /\ Range(one) = {Of(s) : s \in Range(independent)}
  <2>1. List(one) /\ Range(one) = {one[i] : i \in 1..Len(independent)}
    <3>1. DOMAIN one = DOMAIN independent /\ one = [i \in DOMAIN independent |-> one[i]]
      OBVIOUS
    <3> HIDE DEF one
    <3>2. QED
      BY <1>3, <3>1, MappedIsList
  <2>2. /\ DOMAIN independent = 1..Len(independent)
        /\ Range(independent) = {independent[i] : i \in 1..Len(independent)}
    BY <1>3, ListBasics
  <2>3. QED
    BY <2>1, <2>2
<1>6. List(two) /\ Range(two) = {Also(b) : b \in Range(brands)}
  <2>1. List(two) /\ Range(two) = {two[i] : i \in 1..Len(brands)}
    <3>1. DOMAIN two = DOMAIN brands /\ two = [i \in DOMAIN brands |-> two[i]]
      OBVIOUS
    <3> HIDE DEF two
    <3>2. QED
      BY <1>4, <3>1, MappedIsList
  <2>2. /\ DOMAIN brands = 1..Len(brands)
        /\ Range(brands) = {brands[i] : i \in 1..Len(brands)}
    BY <1>4, ListBasics
  <2>3. QED
    BY <2>1, <2>2
<1> HIDE DEF one, two
<1>7. List(first) /\ List(second)
  BY <1>5, <1>6, EmptyIsList
<1>8. Range(first) = IndependentDrafts(ctx)
  <2>1. CASE preference = "FRANCHISE_ONLY"
    BY <2>1, EmptyIsList DEF IndependentDrafts
  <2>2. CASE preference # "FRANCHISE_ONLY"
    BY <2>2, <1>3, <1>5 DEF IndependentDrafts, Of, seeds
  <2>3. QED
    BY <2>1, <2>2
<1>9. Range(second) = FranchiseDrafts(ctx)
  <2>1. CASE preference = "INDEPENDENT_ONLY"
    BY <2>1, EmptyIsList DEF FranchiseDrafts
  <2>2. CASE preference # "INDEPENDENT_ONLY"
    BY <2>2, <1>4, <1>6 DEF FranchiseDrafts, Also
  <2>3. QED
    BY <2>1, <2>2
<1> HIDE DEF first, second
<1>10. List(first \o second) /\ Range(first \o second) = Range(first) \cup Range(second)
  BY <1>7, ConcatIsList
<1>11. QED
  BY <1>1, <1>8, <1>9, <1>10

-----------------------------------------------------------------------------
\* Ranking (CandidateRanking).

\* Head and the rest of what picking makes of a list.
LEMMA PickedFrom ==
  ASSUME NEW s, List(s), NEW places
  PROVE  /\ List(Picked(s, places))
         /\ Range(Picked(s, places)) \subseteq Range(s)
         /\ Picked(s, places) # <<>> => Head(Picked(s, places)) \in Range(s)
         /\ \A i \in (1..Len(s)) \cap places : s[i] \in Range(Picked(s, places))
<1> DEFINE p == Picked(s, places)
<1>1. List(p) /\ Range(p) = {s[i] : i \in (1..Len(s)) \cap places}
  BY PickedIsList
<1>2. \A i \in 1..Len(s) : s[i] \in Range(s)
  BY ListBasics
<1> HIDE DEF p
<1>3. Range(p) \subseteq Range(s)
  BY <1>1, <1>2
<1>4. ASSUME p # <<>>
      PROVE  Head(p) \in Range(s)
  <2>1. p \in Seq(Range(p))
    BY <1>1 DEF List
  <2>2. Head(p) \in Range(p)
    BY <1>4, <2>1
  <2>3. QED
    BY <1>3, <2>2
<1>5. QED
  BY <1>1, <1>3, <1>4 DEF p

\* simple_proposal.py:245-272: the pool of both families are drafts that were given.
LEMMA PoolOfDrafts ==
  ASSUME NEW drafts, List(drafts)
  PROVE  /\ List(OpenToBothPool(drafts))
         /\ Range(OpenToBothPool(drafts)) \subseteq Range(drafts)
<1> DEFINE OfFamily(family) ==
             Picked(drafts, {i \in DOMAIN drafts : drafts[i].family = family})
           independent == OfFamily("INDEPENDENT")
           franchise == OfFamily("FRANCHISE")
           both == independent # <<>> /\ franchise # <<>>
           first == <<Head(independent), Head(franchise)>>
           others == Picked(drafts, {i \in DOMAIN drafts : drafts[i] \notin Range(first)})
<1>1. OpenToBothPool(drafts) =
        IF Len(drafts) <= CandidateLimit THEN drafts
        ELSE IF ~both THEN Upto(drafts, CandidateLimit)
        ELSE Upto(first \o others, CandidateLimit)
  BY DEF OpenToBothPool
<1>2. CandidateLimit \in Nat
  BY DEF CandidateLimit
<1>3. /\ List(Upto(drafts, CandidateLimit))
      /\ Range(Upto(drafts, CandidateLimit)) \subseteq Range(drafts)
  BY <1>2, UptoIsList
<1>4. CASE both
  <2>1. Head(independent) \in Range(drafts) /\ Head(franchise) \in Range(drafts)
    BY <1>4, PickedFrom
  <2> HIDE DEF independent, franchise
  <2>2. List(first) /\ Range(first) = {Head(independent), Head(franchise)}
    BY DEF List, Range
  <2>3. List(others) /\ Range(others) \subseteq Range(drafts)
    BY PickedFrom
  <2> HIDE DEF first, others
  <2>4. List(first \o others) /\ Range(first \o others) = Range(first) \cup Range(others)
    BY <2>2, <2>3, ConcatIsList
  <2>5. /\ List(Upto(first \o others, CandidateLimit))
        /\ Range(Upto(first \o others, CandidateLimit)) \subseteq Range(first \o others)
    BY <1>2, <2>4, UptoIsList
  <2>6. QED
    BY <1>1, <1>3, <2>1, <2>2, <2>3, <2>4, <2>5
<1>5. CASE ~both
  <2> HIDE DEF both, first, others
  <2>1. QED
    BY <1>1, <1>3, <1>5
<1>6. QED
  BY <1>4, <1>5

\* simple_proposal.py:201-203: what competes are drafts, of both families or of one.
LEMMA CompetingDrafts ==
  ASSUME NEW ctx, NEW drafts, List(drafts)
  PROVE  /\ List(Competing(ctx, drafts))
         /\ Range(Competing(ctx, drafts)) \subseteq Range(drafts)
BY PoolOfDrafts DEF Competing

\* ranking.py: the candidates of one status.
LEMMA OfStatusIsList ==
  ASSUME NEW ds, List(ds), NEW status
  PROVE  List(OfStatus(ds, status)) /\ Range(OfStatus(ds, status)) \subseteq Range(ds)
BY PickedFrom DEF OfStatus

\* The three orders of ranking.py have only members of the list.
LEMMA SortedAreLists ==
  ASSUME NEW ds, List(ds)
  PROVE  /\ List(SortedRecommended(ds)) /\ Range(SortedRecommended(ds)) \subseteq Range(ds)
         /\ List(SortedConditional(ds)) /\ Range(SortedConditional(ds)) \subseteq Range(ds)
         /\ List(SortedExcluded(ds)) /\ Range(SortedExcluded(ds)) \subseteq Range(ds)
<1>1. \A key : List(SortedBy(ds, key)) /\ Range(SortedBy(ds, key)) \subseteq Range(ds)
  BY SortedByIsList
<1>2. QED
  BY <1>1 DEF SortedRecommended, SortedConditional, SortedExcluded

\* Every decision of a ranking is on one of the inputs.
LEMMA RankingDecides ==
  ASSUME NEW ds, List(ds)
  PROVE  /\ List(RankCandidates(ds))
         /\ \A decision \in Range(RankCandidates(ds)) :
              \E d \in Range(ds) : \E rank, trace : decision = Decision(d, rank, trace)
<1> DEFINE recommended == SortedRecommended(OfStatus(ds, "REVIEW_RECOMMENDED"))
           conditional == SortedConditional(OfStatus(ds, "CONDITIONAL_REVIEW"))
           ordered == recommended \o conditional
           excluded == SortedExcluded(OfStatus(ds, "EXCLUDED"))
           one == [i \in DOMAIN ordered |-> Decision(ordered[i], i, TraceAt(ordered, i))]
           two == [i \in DOMAIN excluded |->
                     Decision(excluded[i], None, RankTrace(excluded[i], None, None, FALSE))]
<1>1. RankCandidates(ds) = one \o two
  BY DEF RankCandidates
<1>2. /\ List(recommended) /\ Range(recommended) \subseteq Range(ds)
      /\ List(conditional) /\ Range(conditional) \subseteq Range(ds)
      /\ List(excluded) /\ Range(excluded) \subseteq Range(ds)
  <2>1. \A status : /\ List(OfStatus(ds, status))
                    /\ Range(OfStatus(ds, status)) \subseteq Range(ds)
    BY OfStatusIsList
  <2>2. /\ List(recommended)
        /\ Range(recommended) \subseteq Range(OfStatus(ds, "REVIEW_RECOMMENDED"))
    BY <2>1, SortedAreLists
  <2>3. /\ List(conditional)
        /\ Range(conditional) \subseteq Range(OfStatus(ds, "CONDITIONAL_REVIEW"))
    BY <2>1, SortedAreLists
  <2>4. List(excluded) /\ Range(excluded) \subseteq Range(OfStatus(ds, "EXCLUDED"))
    BY <2>1, SortedAreLists
  <2> HIDE DEF recommended, conditional, excluded
  <2>5. QED
    BY <2>1, <2>2, <2>3, <2>4
<1> HIDE DEF recommended, conditional, excluded
<1>3. List(ordered) /\ Range(ordered) \subseteq Range(ds)
  BY <1>2, ConcatIsList
<1> HIDE DEF ordered
<1>4. List(one) /\ \A decision \in Range(one) :
        \E d \in Range(ds) : \E rank, trace : decision = Decision(d, rank, trace)
  <2>1. DOMAIN one = DOMAIN ordered /\ one = [i \in DOMAIN ordered |-> one[i]]
    OBVIOUS
  <2>2. \A i \in DOMAIN ordered : one[i] = Decision(ordered[i], i, TraceAt(ordered, i))
    OBVIOUS
  <2> HIDE DEF one
  <2>3. List(one) /\ Range(one) = {one[i] : i \in 1..Len(ordered)}
    BY <1>3, <2>1, MappedIsList
  <2>4. /\ DOMAIN ordered = 1..Len(ordered)
        /\ \A i \in 1..Len(ordered) : ordered[i] \in Range(ds)
    BY <1>3, ListBasics
  <2>5. ASSUME NEW decision \in Range(one)
        PROVE  \E d \in Range(ds) : \E rank, trace : decision = Decision(d, rank, trace)
    <3>1. PICK i \in 1..Len(ordered) : decision = one[i]
      BY <2>3
    <3>2. /\ decision = Decision(ordered[i], i, TraceAt(ordered, i))
          /\ ordered[i] \in Range(ds)
      BY <2>2, <2>4, <3>1
    <3>3. QED
      BY <3>2, Zenon
  <2>6. QED
    BY <2>3, <2>5
<1>5. List(two) /\ \A decision \in Range(two) :
        \E d \in Range(ds) : \E rank, trace : decision = Decision(d, rank, trace)
  <2>1. DOMAIN two = DOMAIN excluded /\ two = [i \in DOMAIN excluded |-> two[i]]
    OBVIOUS
  <2>2. \A i \in DOMAIN excluded :
          two[i] = Decision(excluded[i], None, RankTrace(excluded[i], None, None, FALSE))
    OBVIOUS
  <2> HIDE DEF two
  <2>3. List(two) /\ Range(two) = {two[i] : i \in 1..Len(excluded)}
    BY <1>2, <2>1, MappedIsList
  <2>4. /\ DOMAIN excluded = 1..Len(excluded)
        /\ \A i \in 1..Len(excluded) : excluded[i] \in Range(ds)
    BY <1>2, ListBasics
  <2>5. ASSUME NEW decision \in Range(two)
        PROVE  \E d \in Range(ds) : \E rank, trace : decision = Decision(d, rank, trace)
    <3>1. PICK i \in 1..Len(excluded) : decision = two[i]
      BY <2>3
    <3>2. /\ decision = Decision(excluded[i], None,
                                 RankTrace(excluded[i], None, None, FALSE))
          /\ excluded[i] \in Range(ds)
      BY <2>2, <2>4, <3>1
    <3>3. QED
      BY <3>2, Zenon
  <2>6. QED
    BY <2>3, <2>5
<1> HIDE DEF one, two
<1>6. List(one \o two) /\ Range(one \o two) = Range(one) \cup Range(two)
  BY <1>4, <1>5, ConcatIsList
<1>7. QED
  BY <1>1, <1>4, <1>5, <1>6

\* A result shows decisions of its ranking.
LEMMA ShownAreDecided ==
  ASSUME NEW decisions, List(decisions)
  PROVE  List(Shown(decisions)) /\ Range(Shown(decisions)) \subseteq Range(decisions)
<1> DEFINE reviewable == Picked(decisions, {i \in DOMAIN decisions :
                                        decisions[i].status # "EXCLUDED"})
           all == IF reviewable = <<>> THEN decisions ELSE reviewable
<1>1. Shown(decisions) = Upto(all, CandidateLimit) /\ CandidateLimit \in Nat
  BY DEF Shown, CandidateLimit
<1>2. List(reviewable) /\ Range(reviewable) \subseteq Range(decisions)
  BY PickedFrom
<1> HIDE DEF reviewable
<1>3. List(all) /\ Range(all) \subseteq Range(decisions)
  BY <1>2
<1> HIDE DEF all
<1>4. QED
  BY <1>1, <1>3, UptoIsList

-----------------------------------------------------------------------------
\* Results.

\* The fields of a result, as it is built.
IsBundle(b) ==
  b = [candidates |-> b.candidates, primary |-> b.primary, outcome |-> b.outcome,
       audit |-> b.audit, version |-> b.version]

\* c is a draft of the context with the decision on a draft of its id.
FromDrafts(ctx, c) ==
  \E d, e \in Range(Drafts(ctx)) : \E rank, trace :
    /\ d.id = e.id
    /\ c = Finished(d, Decision(RankingInput(ctx, e), rank, trace))

\* ranking.py: a shown decision is one on the input of a draft.
LEMMA RankedDrafts ==
  ASSUME NEW ctx, NEW drafts, List(drafts)
  PROVE  /\ List(Shown(Ranked(ctx, drafts)))
         /\ \A decision \in Range(Shown(Ranked(ctx, drafts))) :
              \E e \in Range(drafts) : \E rank, trace :
                decision = Decision(RankingInput(ctx, e), rank, trace)
<1> DEFINE ds == [i \in DOMAIN drafts |-> RankingInput(ctx, drafts[i])]
<1>1. List(ds) /\ Range(ds) = {ds[i] : i \in 1..Len(drafts)}
  <2>1. DOMAIN ds = DOMAIN drafts /\ ds = [i \in DOMAIN drafts |-> ds[i]]
    OBVIOUS
  <2> HIDE DEF ds
  <2>2. QED
    BY <2>1, MappedIsList
<1>2. /\ DOMAIN drafts = 1..Len(drafts)
      /\ \A i \in 1..Len(drafts) : drafts[i] \in Range(drafts)
  BY ListBasics
<1>3. \A i \in DOMAIN drafts : ds[i] = RankingInput(ctx, drafts[i])
  OBVIOUS
<1>4. Ranked(ctx, drafts) = RankCandidates(ds)
  BY DEF Ranked
<1> HIDE DEF ds
<1>5. List(RankCandidates(ds))
  BY <1>1, RankingDecides
<1>6. /\ List(Shown(RankCandidates(ds)))
      /\ Range(Shown(RankCandidates(ds))) \subseteq Range(RankCandidates(ds))
  BY <1>5, ShownAreDecided
<1>7. ASSUME NEW decision \in Range(Shown(RankCandidates(ds)))
      PROVE  \E e \in Range(drafts) : \E rank, trace :
               decision = Decision(RankingInput(ctx, e), rank, trace)
  <2>1. decision \in Range(RankCandidates(ds))
    BY <1>6
  <2>2. PICK d, rank, trace : d \in Range(ds) /\ decision = Decision(d, rank, trace)
    BY <1>1, <2>1, RankingDecides
  <2>3. PICK i \in 1..Len(drafts) : d = RankingInput(ctx, drafts[i])
    BY <1>1, <1>2, <1>3, <2>2
  <2>4. QED
    BY <1>2, <2>2, <2>3
<1>8. QED
  BY <1>4, <1>6, <1>7

\* simple_proposal.py:208-243: a result's candidates are drafts with their decisions.
LEMMA BundleOfDrafts ==
  ASSUME NEW number, NEW drafts, NEW shown, List(shown), NEW ctx,
         Range(drafts) \subseteq Range(Drafts(ctx)),
         \A decision \in Range(shown) :
           \E e \in Range(drafts) : \E rank, trace :
             decision = Decision(RankingInput(ctx, e), rank, trace)
  PROVE  LET b == Bundle(number, drafts, shown) IN
         /\ IsBundle(b)
         /\ b.version = number
         /\ b.audit = "PASSED"
         /\ List(b.candidates)
         /\ Len(b.candidates) = Len(shown)
         /\ \A c \in Range(b.candidates) : FromDrafts(ctx, c)
<1> DEFINE DraftOf(id) == CHOOSE d \in Range(drafts) : d.id = id
           candidates == [i \in DOMAIN shown |-> Finished(DraftOf(shown[i].id), shown[i])]
           b == Bundle(number, drafts, shown)
<1>1. /\ b.candidates = candidates /\ b.version = number /\ b.audit = "PASSED"
      /\ IsBundle(b)
  BY DEF Bundle, IsBundle
<1>2. /\ DOMAIN candidates = DOMAIN shown
      /\ candidates = [i \in DOMAIN shown |-> candidates[i]]
  OBVIOUS
<1>3. ASSUME NEW i \in 1..Len(shown)
      PROVE  FromDrafts(ctx, candidates[i])
  <2>1. DOMAIN shown = 1..Len(shown) /\ shown[i] \in Range(shown)
    BY ListBasics
  <2>2. candidates[i] = Finished(DraftOf(shown[i].id), shown[i])
    BY <2>1
  <2>3. PICK e, rank, trace :
          e \in Range(drafts) /\ shown[i] = Decision(RankingInput(ctx, e), rank, trace)
    BY <2>1
  <2>4. shown[i].id = e.id
    BY <2>3 DEF Decision, RankingInput
  <2>5. DraftOf(shown[i].id) \in Range(drafts) /\ DraftOf(shown[i].id).id = e.id
    BY <2>3, <2>4
  <2> HIDE DEF candidates
  <2>6. PICK d \in Range(drafts) : d.id = e.id /\ d = DraftOf(shown[i].id)
    BY <2>5
  <2> HIDE DEF DraftOf
  <2>7. candidates[i] = Finished(d, Decision(RankingInput(ctx, e), rank, trace))
    BY <2>2, <2>3, <2>6
  <2>8. e \in Range(Drafts(ctx)) /\ d \in Range(Drafts(ctx))
    BY <2>3, <2>6
  <2>9. QED
    BY <2>6, <2>7, <2>8 DEF FromDrafts
<1> HIDE DEF candidates
<1>4. List(candidates) /\ Len(candidates) = Len(shown)
      /\ Range(candidates) = {candidates[i] : i \in 1..Len(shown)}
  BY <1>2, MappedIsList
<1> HIDE DEF b
<1>5. \A c \in Range(b.candidates) : FromDrafts(ctx, c)
  BY <1>1, <1>3, <1>4
<1>6. QED
  BY <1>1, <1>4, <1>5 DEF b

\* What the builder returns when there are drafts.
LEMMA BuiltFromDrafts ==
  ASSUME NEW ctx, List(ctx.universe), Drafts(ctx) # <<>>
  PROVE  /\ IsBundle(Build(ctx))
         /\ Build(ctx).version = ctx.version
         /\ Build(ctx).audit = "PASSED"
         /\ List(Build(ctx).candidates)
         /\ \A c \in Range(Build(ctx).candidates) : FromDrafts(ctx, c)
<1> DEFINE drafts == Competing(ctx, Drafts(ctx))
           shown == Shown(Ranked(ctx, drafts))
<1>1. List(Drafts(ctx))
  BY DraftsOfContext
<1>2. List(drafts) /\ Range(drafts) \subseteq Range(Drafts(ctx))
  BY <1>1, CompetingDrafts
<1>3. Build(ctx) = Bundle(ctx.version, drafts, shown)
  BY DEF Build, ResultOf
<1> HIDE DEF drafts
<1>4. List(shown) /\ \A decision \in Range(shown) :
        \E e \in Range(drafts) : \E rank, trace :
          decision = Decision(RankingInput(ctx, e), rank, trace)
  BY <1>2, RankedDrafts
<1> HIDE DEF shown
<1>5. QED
  BY <1>2, <1>3, <1>4, BundleOfDrafts

-----------------------------------------------------------------------------
\* Agents and their answers (AgentBoundary).

\* A boundary code that is not raised: its condition does not hold.
LEMMA WhenEmpty ==
  ASSUME NEW condition, NEW code, When(condition, code) = {}
  PROVE  ~condition
BY DEF When

\* boundary.py: an accepted reply matches its schema and has no code of any check.
LEMMA AcceptedHasNoCodes ==
  ASSUME NEW a, Verdict(a) = "ACCEPTED"
  PROVE  /\ MatchesSchema(a.task, a.reply)
         /\ UnallocatedIds(a.task, a.reply) = {}
         /\ ProposalSemantics(a.task, a.reply) = {}
<1>1. BoundaryCodes(a.task, a.reply, RunHead) = {}
  BY DEF Verdict, Judged
<1>2. MatchesSchema(a.task, a.reply)
  BY <1>1 DEF BoundaryCodes
<1>3. QED
  BY <1>1, <1>2 DEF BoundaryCodes

\* linear_agent_pipeline.py:378-397: only a reply that is not for this task fails a run.
LEMMA FatalIsTampered ==
  ASSUME NEW a, Verdict(a) = "FATAL"
  PROVE  Tampered(a.task, a.reply, RunHead)
BY DEF Verdict, Judged, Tampered

\* The rows of an answer that is used are those of its reply.
LEMMA UsedRows ==
  ASSUME NEW a, Used(a) # None
  PROVE  /\ Verdict(a) = "ACCEPTED"
         /\ Used(a) = a.reply.rows
         /\ List(Used(a))
         /\ \A row \in Range(Used(a)) : RequiredFields(a.task) \subseteq DOMAIN row
<1>1. Verdict(a) = "ACCEPTED" /\ Used(a) = a.reply.rows
  BY DEF Used, UsableRows, Verdict
<1>2. QED
  BY <1>1, AcceptedHasNoCodes DEF MatchesSchema

\* a is the answer of an agent that was asked for a proposal of one source.
Answers(a, source) ==
  /\ a.task.type \in {"PROPOSE_INDEPENDENT", "PROPOSE_FRANCHISE"}
  /\ a.task.sources = Offer(source)
  /\ a.task.count = 1

\* An agent that is asked for a proposal of one source proposes at most that.
LEMMA UsedProposal ==
  ASSUME NEW a, NEW source, Answers(a, source), Used(a) # None
  PROVE  /\ Len(Used(a)) <= 1
         /\ \A row \in Range(Used(a)) : row.source = source
<1>1. /\ Verdict(a) = "ACCEPTED" /\ Used(a) = a.reply.rows /\ List(Used(a))
      /\ \A row \in Range(Used(a)) : RequiredFields(a.task) \subseteq DOMAIN row
  BY UsedRows
<1>2. /\ UnallocatedIds(a.task, a.reply) = {}
      /\ ProposalSemantics(a.task, a.reply) = {}
  BY <1>1, AcceptedHasNoCodes
<1>3. Proposing(a.task)
  BY DEF Proposing, Answers
<1>4. Named(a.reply, "id") \subseteq DOMAIN a.task.sources
  BY <1>2, <1>3, WhenEmpty DEF UnallocatedIds
<1>5. Rows(a.reply) = Range(Used(a))
  BY <1>1 DEF Rows
<1>6. /\ When(Len(a.reply.rows) > a.task.count, "PROPOSAL_COUNT_EXCEEDED") = {}
      /\ When(\E row \in Rows(a.reply) : /\ row.id \in DOMAIN a.task.sources
                                         /\ row.source # a.task.sources[row.id],
              "SOURCE_REFERENCE_MISMATCH") = {}
  BY <1>1, <1>2, <1>3 DEF ProposalSemantics
<1>7. /\ ~(Len(a.reply.rows) > a.task.count)
      /\ ~\E row \in Rows(a.reply) : /\ row.id \in DOMAIN a.task.sources
                                     /\ row.source # a.task.sources[row.id]
  BY <1>6, WhenEmpty
<1>8. Len(Used(a)) <= 1
  <2>1. Len(Used(a)) \in Nat
    BY <1>1, ListBasics
  <2>2. QED
    BY <1>1, <1>7, <2>1 DEF Answers
<1>9. ASSUME NEW row \in Range(Used(a))
      PROVE  row.source = source
  <2>1. "id" \in DOMAIN row
    <3>1. RequiredFields(a.task) = {"id", "source", "evidence", "assumptions", "support"}
      BY DEF RequiredFields, Answers
    <3>2. QED
      BY <1>1, <3>1
  <2>2. row.id \in Named(a.reply, "id")
    BY <1>5, <2>1 DEF Named
  <2>3. row.id \in DOMAIN a.task.sources /\ row.source = a.task.sources[row.id]
    BY <1>4, <1>5, <1>7, <2>2
  <2>4. QED
    BY <2>3 DEF Answers, Offer
<1>10. QED
  BY <1>8, <1>9

\* linear_agent_pipeline.py:411-425: the proposals are the rows of all used answers.
LEMMA ProposalsOfAnswers ==
  ASSUME NEW answers, List(answers)
  PROVE  /\ List(Proposals(answers))
         /\ Range(Proposals(answers)) =
              UNION {Range(Used(answers[k]))
                     : k \in {j \in 1..Len(answers) : Used(answers[j]) # None}}
<1> DEFINE Of(k) == IF Used(answers[k]) = None THEN <<>> ELSE Used(answers[k])
           s == [k \in DOMAIN answers |-> Of(k)]
<1>1. Proposals(answers) = FlattenSeq(s)
  BY DEF Proposals
<1>2. DOMAIN s = DOMAIN answers /\ s = [k \in DOMAIN answers |-> s[k]]
  OBVIOUS
<1>3. \A k \in DOMAIN answers : s[k] = Of(k)
  OBVIOUS
<1>4. DOMAIN answers = 1..Len(answers)
  BY ListBasics
<1> HIDE DEF s
<1>5. List(s) /\ Len(s) = Len(answers)
  BY <1>2, MappedIsList
<1>6. \A k \in 1..Len(s) : List(s[k])
  <2>1. \A k : List(Of(k))
    BY UsedRows, EmptyIsList
  <2> HIDE DEF Of
  <2>2. QED
    BY <1>3, <1>4, <1>5, <2>1
<1>7. /\ List(FlattenSeq(s))
      /\ Range(FlattenSeq(s)) = UNION {Range(s[k]) : k \in 1..Len(s)}
  BY <1>5, <1>6, FlattenIsList
<1>8. UNION {Range(s[k]) : k \in 1..Len(s)} =
        UNION {Range(Used(answers[k]))
               : k \in {j \in 1..Len(answers) : Used(answers[j]) # None}}
  <2>1. ASSUME NEW k \in 1..Len(s), NEW x \in Range(s[k])
        PROVE  Used(answers[k]) # None /\ x \in Range(Used(answers[k]))
    BY <1>3, <1>4, <1>5, EmptyIsList
  <2>2. ASSUME NEW k \in 1..Len(answers), Used(answers[k]) # None
        PROVE  s[k] = Used(answers[k])
    BY <2>2, <1>3, <1>4
  <2>3. QED
    BY <1>5, <2>1, <2>2
<1>9. QED
  BY <1>1, <1>7, <1>8

\* simple_proposal.py:154-168: a source has the advice of a row about it.
LEMMA AdviceOfRows ==
  ASSUME NEW rows, List(rows)
  PROVE  /\ DOMAIN AdviceBySource(rows) = {row.source : row \in Range(rows)}
         /\ \A source \in DOMAIN AdviceBySource(rows) :
              \E row \in Range(rows) :
                row.source = source /\ AdviceBySource(rows)[source] = row.advice
<1> DEFINE Of(source) == {i \in DOMAIN rows : rows[i].source = source}
<1>1. AdviceBySource(rows) =
        [source \in {row.source : row \in Range(rows)} |-> rows[Max(Of(source))].advice]
  BY DEF AdviceBySource
<1>2. /\ Len(rows) \in Nat /\ DOMAIN rows = 1..Len(rows)
      /\ Range(rows) = {rows[i] : i \in 1..Len(rows)}
  BY ListBasics
<1>3. ASSUME NEW row \in Range(rows)
      PROVE  Max(Of(row.source)) \in Of(row.source)
  <2>1. Of(row.source) \in SUBSET (1..Len(rows)) /\ Of(row.source) # {}
    BY <1>2
  <2> HIDE DEF Of
  <2>2. QED
    BY <1>2, <2>1, MaxIsLargest
<1>4. ASSUME NEW source \in {row.source : row \in Range(rows)}
      PROVE  \E row \in Range(rows) :
               row.source = source /\ AdviceBySource(rows)[source] = row.advice
  <2>1. Max(Of(source)) \in DOMAIN rows /\ rows[Max(Of(source))].source = source
    BY <1>3
  <2>2. AdviceBySource(rows)[source] = rows[Max(Of(source))].advice
    BY <1>1
  <2> HIDE DEF Of
  <2>3. QED
    BY <1>2, <2>1, <2>2
<1>5. QED
  BY <1>1, <1>4

-----------------------------------------------------------------------------
\* Retrieval and proposal tasks (ProposalPipeline).

\* The outcomes of calls are a list, and so is what each has found.
AreOutcomes(results) ==
  /\ List(results)
  /\ \A k \in 1..Len(results) : "data" \in DOMAIN results[k] /\ List(results[k].data)

\* franchise_grounding.py: the rows of the universe calls.
LEMMA ListOfItems ==
  ASSUME NEW results, AreOutcomes(results)
  PROVE  List(UniverseItems(results))
<1> DEFINE Of(i) == IF results[i].tool = "list_franchise_universe" THEN results[i].data
                    ELSE <<>>
           s == [i \in DOMAIN results |-> Of(i)]
<1>1. UniverseItems(results) = FlattenSeq(s)
  BY DEF UniverseItems
<1>2. DOMAIN s = DOMAIN results /\ s = [i \in DOMAIN results |-> s[i]]
  OBVIOUS
<1>3. \A i \in DOMAIN results : s[i] = Of(i)
  OBVIOUS
<1>4. DOMAIN results = 1..Len(results)
  BY ListBasics DEF AreOutcomes
<1> HIDE DEF s
<1>5. List(s) /\ Len(s) = Len(results)
  BY <1>2, MappedIsList DEF AreOutcomes
<1>6. \A i \in 1..Len(s) : List(s[i])
  BY <1>3, <1>4, <1>5, EmptyIsList DEF AreOutcomes
<1>7. List(FlattenSeq(s))
  BY <1>5, <1>6, FlattenIsList
<1>8. QED
  BY <1>1, <1>7

\* Their order by startup cost.
LEMMA ByCostIsList ==
  ASSUME NEW items, List(items)
  PROVE  List(ByCost(items)) /\ Range(ByCost(items)) \subseteq Range(items)
<1>1. \A key : /\ List(SortedBy(items, key))
               /\ Range(SortedBy(items, key)) \subseteq Range(items)
  BY SortedByIsList
<1>2. QED
  BY <1>1 DEF ByCost

\* The calls for the disclosures of the brands found, at most three.
LEMMA ListOfBrands ==
  ASSUME NEW results, AreOutcomes(results)
  PROVE  List(DisclosureCalls(results))
<1> DEFINE items == UniverseItems(results)
           verified == {i \in DOMAIN items : items[i].eligibility = "VERIFIED"}
           sorted == Upto(ByCost(Picked(items, verified)), 3)
           brands == [i \in DOMAIN sorted |-> sorted[i].id]
           calls == [i \in DOMAIN brands |-> <<"get_franchise_disclosure", brands[i]>>]
<1>1. DisclosureCalls(results) = calls
  BY DEF DisclosureCalls, VerifiedBrands
<1>2. List(items)
  BY ListOfItems
<1> HIDE DEF items, verified
<1>3. List(sorted)
  <2>1. List(Picked(items, verified))
    BY <1>2, PickedFrom
  <2>2. List(ByCost(Picked(items, verified)))
    BY <2>1, ByCostIsList
  <2>3. QED
    BY <2>2, UptoIsList
<1> HIDE DEF sorted
<1>4. List(brands)
  <2>1. DOMAIN brands = DOMAIN sorted /\ brands = [i \in DOMAIN sorted |-> brands[i]]
    OBVIOUS
  <2> HIDE DEF brands
  <2>2. QED
    BY <1>3, <2>1, MappedIsList
<1> HIDE DEF brands
<1>5. List(calls)
  <2>1. DOMAIN calls = DOMAIN brands /\ calls = [i \in DOMAIN brands |-> calls[i]]
    OBVIOUS
  <2> HIDE DEF calls
  <2>2. QED
    BY <1>4, <2>1, MappedIsList
<1>6. QED
  BY <1>1, <1>5

\* proposal_evidence_retrieval.py: the calls a founder's input asks for.
LEMMA ListOfCalls == List(Calls)
<1> DEFINE area == IF founder.area = None THEN <<>>
                   ELSE [i \in 1..3 |-> <<<<"get_area_profile", "get_property_reference",
                                            "search_cafe_observations">>[i], "area">>]
           wages == IF founder.preference = "FRANCHISE_ONLY" THEN <<>>
                    ELSE << <<"get_cost_reference", "wages">> >>
           brands == IF founder.preference = "INDEPENDENT_ONLY" THEN <<>>
                     ELSE << <<"list_franchise_universe", "cafe">> >>
           guide == << <<"retrieve_official_documents", "guide">> >>
           queries == [i \in DOMAIN FranchiseQueries |->
                         <<"retrieve_official_documents", FranchiseQueries[i]>>]
           official == IF founder.preference = "INDEPENDENT_ONLY" THEN <<>> ELSE queries
<1>1. Calls = area \o wages \o brands \o guide \o official
  BY DEF Calls
<1>2. \A x : List(<<x>>)
  BY DEF List, Range
<1>3. List(area)
  <2> DEFINE three == [i \in 1..3 |-> <<<<"get_area_profile", "get_property_reference",
                                          "search_cafe_observations">>[i], "area">>]
  <2>1. DOMAIN three = 1..3
    OBVIOUS
  <2>2. area = IF founder.area = None THEN <<>> ELSE three
    OBVIOUS
  <2>3. three = [i \in 1..3 |-> three[i]]
    OBVIOUS
  <2> HIDE DEF three, area
  <2>4. three \in [1..3 -> Range(three)]
    BY <2>1, <2>3 DEF Range
  <2>5. List(three)
    BY <2>4, FunctionIsList
  <2>6. QED
    BY <2>2, <2>5, EmptyIsList
<1>4. List(wages) /\ List(brands) /\ List(guide)
  BY <1>2, EmptyIsList
<1>5. List(queries)
  <2>1. DOMAIN queries = DOMAIN FranchiseQueries
        /\ queries = [i \in DOMAIN FranchiseQueries |-> queries[i]]
    OBVIOUS
  <2> HIDE DEF queries
  <2>2. QED
    BY <2>1, MappedIsList, McpAssumption
<1> HIDE DEF area, wages, brands, guide, queries
<1>6. List(official)
  BY <1>5, EmptyIsList
<1> HIDE DEF official
<1>7. List(area \o wages)
  BY <1>3, <1>4, ConcatIsList
<1>8. List(area \o wages \o brands)
  BY <1>4, <1>7, ConcatIsList
<1>9. List(area \o wages \o brands \o guide)
  BY <1>4, <1>8, ConcatIsList
<1>10. List(area \o wages \o brands \o guide \o official)
  BY <1>6, <1>9, ConcatIsList
<1>11. QED
  BY <1>1, <1>10

\* Each call has an outcome, also a failed one.
LEMMA RetrievedAreOutcomes ==
  ASSUME NEW calls, List(calls), NEW failed
  PROVE  AreOutcomes(RetrieveAll(calls, failed))
<1> DEFINE r == RetrieveAll(calls, failed)
<1>1. DOMAIN r = DOMAIN calls /\ r = [i \in DOMAIN calls |-> r[i]]
      /\ \A i \in DOMAIN calls : r[i] = RetrieveOne(calls[i], failed)
  BY DEF RetrieveAll
<1>2. \A call : /\ "data" \in DOMAIN RetrieveOne(call, failed)
                /\ List(RetrieveOne(call, failed).data)
  <2>0. \A call : "data" \in DOMAIN RetrieveOne(call, failed)
    BY DEF RetrieveOne
  <2>1. ASSUME NEW call, call \in DOMAIN McpAnswer \ failed
        PROVE  List(RetrieveOne(call, failed).data)
    <3>1. RetrieveOne(call, failed).data = McpAnswer[call].data
      BY <2>1 DEF RetrieveOne
    <3>2. QED
      BY <2>1, <3>1, McpAssumption
  <2>2. ASSUME NEW call, call \notin DOMAIN McpAnswer \ failed
        PROVE  List(RetrieveOne(call, failed).data)
    <3>1. RetrieveOne(call, failed).data = <<>>
      BY <2>2 DEF RetrieveOne
    <3>2. QED
      BY <3>1, EmptyIsList
  <2>3. QED
    BY <2>0, <2>1, <2>2
<1> HIDE DEF r
<1>3. List(r) /\ Len(r) = Len(calls)
  BY <1>1, MappedIsList
<1>4. DOMAIN calls = 1..Len(calls)
  BY ListBasics
<1>5. AreOutcomes(r)
  BY <1>1, <1>2, <1>3, <1>4 DEF AreOutcomes
<1>6. QED
  BY <1>5 DEF r

\* Outcomes of two rounds of calls.
LEMMA JoinedOutcomes ==
  ASSUME NEW s, NEW t, AreOutcomes(s), AreOutcomes(t)
  PROVE  AreOutcomes(s \o t)
<1>1. /\ List(s \o t)
      /\ Len(s \o t) = Len(s) + Len(t)
      /\ \A i \in 1..Len(s) : (s \o t)[i] = s[i]
      /\ \A i \in 1..Len(t) : (s \o t)[Len(s) + i] = t[i]
  BY ConcatIsList DEF AreOutcomes
<1>2. Len(s) \in Nat /\ Len(t) \in Nat
  BY ListBasics DEF AreOutcomes
<1>3. ASSUME NEW k \in 1..Len(s \o t)
      PROVE  "data" \in DOMAIN (s \o t)[k] /\ List((s \o t)[k].data)
  <2>1. CASE k <= Len(s)
    BY <1>1, <1>2, <2>1 DEF AreOutcomes
  <2>2. CASE ~(k <= Len(s))
    <3>1. k - Len(s) \in 1..Len(t) /\ Len(s) + (k - Len(s)) = k
      BY <1>1, <1>2, <2>2
    <3>2. (s \o t)[k] = t[k - Len(s)]
      BY <1>1, <3>1
    <3>3. QED
      BY <3>1, <3>2 DEF AreOutcomes
  <2>3. QED
    BY <2>1, <2>2
<1>4. QED
  BY <1>1, <1>3 DEF AreOutcomes

\* Outcomes with the documents found for them.
LEMMA RetrieveLeavesOutcomes ==
  ASSUME NEW all, AreOutcomes(all)
  PROVE  AreOutcomes([k \in DOMAIN all |-> WithOfficialRagEvidence(all[k])])
<1> DEFINE r == [k \in DOMAIN all |-> WithOfficialRagEvidence(all[k])]
<1>1. /\ DOMAIN r = DOMAIN all /\ r = [k \in DOMAIN all |-> r[k]]
      /\ \A k \in DOMAIN all : r[k] = WithOfficialRagEvidence(all[k])
  OBVIOUS
<1> HIDE DEF r
<1>2. List(r) /\ Len(r) = Len(all)
  BY <1>1, MappedIsList DEF AreOutcomes
<1>3. DOMAIN all = 1..Len(all)
  BY ListBasics DEF AreOutcomes
<1>4. ASSUME NEW k \in 1..Len(all)
      PROVE  "data" \in DOMAIN r[k] /\ List(r[k].data)
  <2>1. "data" \in DOMAIN all[k] /\ List(all[k].data)
    BY DEF AreOutcomes
  <2>2. r[k] = WithOfficialRagEvidence(all[k])
    BY <1>1, <1>3
  <2>3. PICK records : r[k] = all[k] \/ r[k] = [all[k] EXCEPT !.records = records]
    BY <2>2 DEF WithOfficialRagEvidence
  <2>4. "data" \in DOMAIN r[k] /\ r[k].data = all[k].data
    BY <2>1, <2>3
  <2>5. QED
    BY <2>1, <2>4
<1>5. QED
  BY <1>2, <1>4 DEF AreOutcomes, r
\* Seeds, brands and the tasks about them.

\* franchise_grounding.py: the universe has verified brands only.
LEMMA ListOfUniverse ==
  ASSUME AreOutcomes(outcomes)
  PROVE  /\ List(FranchiseUniverse)
         /\ \A brand \in Range(FranchiseUniverse) : brand.eligibility = "VERIFIED"
<1> DEFINE items == UniverseItems(outcomes)
           places == {i \in DOMAIN items : /\ items[i].eligibility = "VERIFIED"
                                           /\ items[i].evidence \in Refs(frozen)}
           eligible == Picked(items, places)
           Brand(item) ==
             [id |-> item.id, eligibility |-> "VERIFIED", refs |-> <<item.evidence>>,
              profile |-> WithDisclosure(WithAcceptedFinance(item.profile),
                                         LineOf(FranchiseDisclosures, item.id))]
           brands == [i \in DOMAIN eligible |-> Brand(eligible[i])]
<1>1. FranchiseUniverse = ByCost(brands)
  BY DEF FranchiseUniverse
<1>2. List(items)
  BY ListOfItems
<1> HIDE DEF items, places
<1>3. List(eligible)
  BY <1>2, PickedFrom
<1> HIDE DEF eligible
<1>4. List(brands) /\ \A brand \in Range(brands) : brand.eligibility = "VERIFIED"
  <2>1. \A i \in DOMAIN eligible : brands[i].eligibility = "VERIFIED"
    OBVIOUS
  <2>2. DOMAIN brands = DOMAIN eligible /\ brands = [i \in DOMAIN eligible |-> brands[i]]
    OBVIOUS
  <2> HIDE DEF brands
  <2>3. List(brands) /\ Range(brands) = {brands[i] : i \in 1..Len(eligible)}
    BY <1>3, <2>2, MappedIsList
  <2>4. DOMAIN eligible = 1..Len(eligible)
    BY <1>3, ListBasics
  <2>5. QED
    BY <2>1, <2>3, <2>4
<1> HIDE DEF brands
<1>5. List(ByCost(brands)) /\ Range(ByCost(brands)) \subseteq Range(brands)
  BY <1>4, ByCostIsList
<1>6. QED
  BY <1>1, <1>4, <1>5

\* The task that an agent is given about a source that may become a candidate.
\* The tasks a founder's preference allows, linear_agent_pipeline.py:245-331.
IsIndependentTask(task) ==
  /\ founder.preference # "FRANCHISE_ONLY"
  /\ \E seed \in Range(SelectSeeds(founder)) :
       task = ProposalTask("PROPOSE_INDEPENDENT", seed.id, {}, seed.support)

RefsOf(brand) == Range(brand.refs) \cup Range(brand.profile.refs)

IsFranchiseTask(task) ==
  /\ founder.preference # "INDEPENDENT_ONLY"
  /\ \E brand \in Range(FranchiseUniverse) :
       task = ProposalTask("PROPOSE_FRANCHISE", brand.id, RefsOf(brand), {})

\* Each independent task is of a selected seed.
LEMMA ListOfIndependentTasks ==
  List(IndependentTasks) /\ \A task \in Range(IndependentTasks) : IsIndependentTask(task)
<1> DEFINE seeds == Upto(SelectSeeds(founder), 3)
           tasks == [i \in DOMAIN seeds |->
                       ProposalTask("PROPOSE_INDEPENDENT", seeds[i].id, {}, seeds[i].support)]
<1>1. IndependentTasks = IF founder.preference = "FRANCHISE_ONLY" THEN <<>> ELSE tasks
  BY DEF IndependentTasks
<1>2. List(seeds) /\ Range(seeds) \subseteq Range(SelectSeeds(founder))
  BY SelectedSeeds, UptoIsList
<1> HIDE DEF seeds
<1>3. /\ DOMAIN tasks = DOMAIN seeds /\ tasks = [i \in DOMAIN seeds |-> tasks[i]]
      /\ \A i \in DOMAIN seeds :
           tasks[i] = ProposalTask("PROPOSE_INDEPENDENT", seeds[i].id, {}, seeds[i].support)
  OBVIOUS
<1> HIDE DEF tasks
<1>4. List(tasks) /\ Range(tasks) = {tasks[i] : i \in 1..Len(seeds)}
  BY <1>2, <1>3, MappedIsList
<1>5. DOMAIN seeds = 1..Len(seeds) /\ \A i \in 1..Len(seeds) : seeds[i] \in Range(seeds)
  BY <1>2, ListBasics
<1>6. CASE founder.preference = "FRANCHISE_ONLY"
  BY <1>1, <1>6, EmptyIsList
<1>7. CASE founder.preference # "FRANCHISE_ONLY"
  <2>1. ASSUME NEW task \in Range(tasks)
        PROVE  IsIndependentTask(task)
    <3>1. PICK i \in 1..Len(seeds) : task = tasks[i]
      BY <1>4
    <3>2. /\ task = ProposalTask("PROPOSE_INDEPENDENT", seeds[i].id, {}, seeds[i].support)
          /\ seeds[i] \in Range(SelectSeeds(founder))
      BY <1>2, <1>3, <1>5, <3>1
    <3>3. QED
      BY <1>7, <3>2 DEF IsIndependentTask
  <2>2. QED
    BY <1>1, <1>4, <1>7, <2>1
<1>8. QED
  BY <1>6, <1>7

\* Each franchise task is of a brand of the universe.
LEMMA ListOfFranchiseTasks ==
  ASSUME AreOutcomes(outcomes)
  PROVE  List(FranchiseTasks) /\ \A task \in Range(FranchiseTasks) : IsFranchiseTask(task)
<1> DEFINE brands == Upto(FranchiseUniverse, 3)
           tasks == [i \in DOMAIN brands |->
                       ProposalTask("PROPOSE_FRANCHISE", brands[i].id, RefsOf(brands[i]), {})]
<1>1. FranchiseTasks = IF founder.preference = "INDEPENDENT_ONLY" THEN <<>> ELSE tasks
  BY DEF FranchiseTasks, RefsOf
<1>2. List(brands) /\ Range(brands) \subseteq Range(FranchiseUniverse)
  BY ListOfUniverse, UptoIsList
<1> HIDE DEF brands
<1>3. /\ DOMAIN tasks = DOMAIN brands /\ tasks = [i \in DOMAIN brands |-> tasks[i]]
      /\ \A i \in DOMAIN brands :
           tasks[i] = ProposalTask("PROPOSE_FRANCHISE", brands[i].id, RefsOf(brands[i]), {})
  OBVIOUS
<1> HIDE DEF tasks
<1>4. List(tasks) /\ Range(tasks) = {tasks[i] : i \in 1..Len(brands)}
  BY <1>2, <1>3, MappedIsList
<1>5. /\ DOMAIN brands = 1..Len(brands)
      /\ \A i \in 1..Len(brands) : brands[i] \in Range(brands)
  BY <1>2, ListBasics
<1>6. CASE founder.preference = "INDEPENDENT_ONLY"
  BY <1>1, <1>6, EmptyIsList
<1>7. CASE founder.preference # "INDEPENDENT_ONLY"
  <2>1. ASSUME NEW task \in Range(tasks)
        PROVE  IsFranchiseTask(task)
    <3>1. PICK i \in 1..Len(brands) : task = tasks[i]
      BY <1>4
    <3>2. /\ task = ProposalTask("PROPOSE_FRANCHISE", brands[i].id, RefsOf(brands[i]), {})
          /\ brands[i] \in Range(FranchiseUniverse)
      BY <1>2, <1>3, <1>5, <3>1
    <3>3. QED
      BY <1>7, <3>2 DEF IsFranchiseTask
  <2>2. QED
    BY <1>1, <1>4, <1>7, <2>1
<1>8. QED
  BY <1>6, <1>7

\* So are those asked, in whichever order the two families take turns.
LEMMA ListOfProposalTasks ==
  ASSUME AreOutcomes(outcomes)
  PROVE  /\ List(ProposalTasks)
         /\ \A task \in Range(ProposalTasks) :
              IsIndependentTask(task) \/ IsFranchiseTask(task)
<1> DEFINE one == IndependentTasks
           two == FranchiseTasks
<1>1. /\ List(one) /\ \A task \in Range(one) : IsIndependentTask(task)
      /\ List(two) /\ \A task \in Range(two) : IsFranchiseTask(task)
  BY ListOfIndependentTasks, ListOfFranchiseTasks
<1>2. ProposalTasks = InTurn(one, two)
  BY DEF ProposalTasks
<1> HIDE DEF one, two
<1>3. \A s : List(s) => List(Upto(s, 3)) /\ Range(Upto(s, 3)) \subseteq Range(s)
  BY UptoIsList
<1>4. List(one \o two) /\ Range(one \o two) = Range(one) \cup Range(two)
  BY <1>1, ConcatIsList
<1>5. CASE <<>> \notin {one, two}
  <2>1. Head(one) \in Range(one)
    <3>1. one \in Seq(Range(one)) /\ one # <<>>
      BY <1>1, <1>5 DEF List
    <3>2. QED
      BY <3>1
  <2>2. List(<<Head(one)>>) /\ Range(<<Head(one)>>) = {Head(one)}
    BY DEF List, Range
  <2>3. /\ List(<<Head(one)>> \o two)
        /\ Range(<<Head(one)>> \o two) = Range(<<Head(one)>>) \cup Range(two)
    BY <1>1, <2>2, ConcatIsList
  <2>4. InTurn(one, two) = Upto(<<Head(one)>> \o two, 3)
    BY <1>5 DEF InTurn
  <2>5. /\ Range(InTurn(one, two)) \subseteq Range(one) \cup Range(two)
        /\ List(InTurn(one, two))
    BY <1>3, <2>1, <2>2, <2>3, <2>4
  <2>6. QED
    BY <1>1, <1>2, <2>5
<1>6. CASE ~(<<>> \notin {one, two})
  <2>1. InTurn(one, two) = Upto(one \o two, 3)
    BY <1>6 DEF InTurn
  <2>2. /\ Range(InTurn(one, two)) \subseteq Range(one) \cup Range(two)
        /\ List(InTurn(one, two))
    BY <1>3, <1>4, <2>1
  <2>3. QED
    BY <1>1, <1>2, <2>2
<1>7. QED
  BY <1>5, <1>6

\* There is an independent task if a cafe model suits the founder and he may want it.
LEMMA NoIndependentTask ==
  ASSUME IndependentTasks = <<>>, founder.preference # "FRANCHISE_ONLY",
         NEW seed \in Range(Seeds)
  PROVE  ~Compatible(founder, seed)
<1> DEFINE places == {k \in DOMAIN Seeds : Compatible(founder, Seeds[k])}
           picked == Picked(Seeds, places)
           selected == SelectSeeds(founder)
           seeds == Upto(selected, 3)
           tasks == [i \in DOMAIN seeds |->
                       ProposalTask("PROPOSE_INDEPENDENT", seeds[i].id, {}, seeds[i].support)]
<1>1. List(Seeds)
  BY BuilderAssumption
<1>2. /\ List(picked)
      /\ \A i \in (1..Len(Seeds)) \cap places : Seeds[i] \in Range(picked)
  BY <1>1, PickedFrom
<1>3. List(selected) /\ Len(selected) = Len(picked)
  <2> DEFINE key == [k \in DOMAIN picked |-> <<-Matches(founder, picked[k])>>]
  <2>1. selected = SortedBy(picked, key)
    BY DEF SelectSeeds, BestFirst
  <2> HIDE DEF picked, selected, key
  <2>2. QED
    BY <1>2, <2>1, SortedByIsList
<1>4. tasks = <<>>
  BY DEF IndependentTasks
<1> HIDE DEF picked, selected
<1>5. List(seeds) /\ (selected # <<>> => seeds # <<>>)
  BY <1>3, UptoIsList
<1>6. DOMAIN tasks = DOMAIN seeds
  OBVIOUS
<1> HIDE DEF seeds, tasks
<1>7. picked = <<>>
  <2>1. 1..Len(seeds) = {}
    BY <1>4, <1>5, <1>6, ListBasics
  <2>2. seeds = <<>>
    BY <1>5, <2>1, ListBasics
  <2>3. QED
    BY <1>2, <1>3, <1>5, <2>2, ListBasics
<1>8. Range(picked) = {}
  BY <1>7, EmptyIsList
<1>9. PICK i \in 1..Len(Seeds) : seed = Seeds[i]
  BY <1>1, ListBasics
<1>10. i \notin places
  BY <1>2, <1>8
<1>11. QED
  BY <1>1, <1>9, <1>10, ListBasics

\* There is a franchise task if a verified brand's evidence was accepted.
LEMMA NoFranchiseTask ==
  ASSUME AreOutcomes(outcomes), FranchiseTasks = <<>>,
         founder.preference # "INDEPENDENT_ONLY",
         NEW item \in Range(UniverseItems(outcomes)), item.eligibility = "VERIFIED"
  PROVE  item.evidence \notin Refs(frozen)
<1> DEFINE items == UniverseItems(outcomes)
           places == {i \in DOMAIN items : /\ items[i].eligibility = "VERIFIED"
                                           /\ items[i].evidence \in Refs(frozen)}
           eligible == Picked(items, places)
           Brand(value) ==
             [id |-> value.id, eligibility |-> "VERIFIED", refs |-> <<value.evidence>>,
              profile |-> WithDisclosure(WithAcceptedFinance(value.profile),
                                         LineOf(FranchiseDisclosures, value.id))]
           brands == [i \in DOMAIN eligible |-> Brand(eligible[i])]
           universe == FranchiseUniverse
           offered == Upto(universe, 3)
           tasks == [i \in DOMAIN offered |->
                       ProposalTask("PROPOSE_FRANCHISE", offered[i].id, RefsOf(offered[i]), {})]
<1>1. List(items) /\ item \in Range(items)
  BY ListOfItems
<1>2. universe = ByCost(brands)
  BY DEF FranchiseUniverse
<1>3. tasks = <<>>
  BY DEF FranchiseTasks, RefsOf
<1> HIDE DEF items
<1>4. List(eligible) /\ \A i \in (1..Len(items)) \cap places : items[i] \in Range(eligible)
  BY <1>1, PickedFrom
<1> HIDE DEF eligible
<1>5. List(brands) /\ Len(brands) = Len(eligible)
  <2>1. DOMAIN brands = DOMAIN eligible /\ brands = [i \in DOMAIN eligible |-> brands[i]]
    OBVIOUS
  <2> HIDE DEF brands
  <2>2. QED
    BY <1>4, <2>1, MappedIsList
<1> HIDE DEF brands
<1>6. List(universe) /\ Len(universe) = Len(brands)
  <2>1. \A key : List(SortedBy(brands, key)) /\ Len(SortedBy(brands, key)) = Len(brands)
    BY <1>5, SortedByIsList
  <2> HIDE DEF universe
  <2>2. QED
    BY <1>2, <2>1 DEF ByCost
<1> HIDE DEF universe
<1>7. List(offered) /\ (universe # <<>> => offered # <<>>)
  BY <1>6, UptoIsList
<1>8. DOMAIN tasks = DOMAIN offered
  OBVIOUS
<1> HIDE DEF offered, tasks
<1>9. eligible = <<>>
  <2>1. 1..Len(offered) = {}
    BY <1>3, <1>7, <1>8, ListBasics
  <2>2. offered = <<>>
    BY <1>7, <2>1, ListBasics
  <2>3. Len(universe) = 0
    BY <1>6, <1>7, <2>2, ListBasics
  <2>4. QED
    BY <1>4, <1>5, <1>6, <2>3, ListBasics
<1>10. Range(eligible) = {}
  BY <1>9, EmptyIsList
<1>11. PICK i \in 1..Len(items) : item = items[i]
  BY <1>1, ListBasics
<1>12. i \notin places
  BY <1>4, <1>10
<1>13. QED
  BY <1>1, <1>11, <1>12, ListBasics

\* Nobody is asked only if nothing suits the founder.
LEMMA RefusedWithoutSuit ==
  ASSUME AreOutcomes(outcomes), NothingToPropose(ProposalTasks)
  PROVE  NothingSuits
<1> DEFINE one == IndependentTasks
           two == FranchiseTasks
<1>1. List(one) /\ List(two)
  BY ListOfIndependentTasks, ListOfFranchiseTasks
<1>2. ProposalTasks = InTurn(one, two)
  BY DEF ProposalTasks
<1>3. \/ ProposalTasks = <<>>
      \/ founder.preference # "FRANCHISE_ONLY" /\ one = <<>>
  BY DEF NothingToPropose
<1> HIDE DEF one, two
<1>upto. ASSUME NEW s, List(s), s # <<>>
         PROVE  Upto(s, 3) # <<>>
  BY <1>upto, UptoIsList
<1>4. ASSUME ProposalTasks = <<>>
      PROVE  one = <<>> /\ two = <<>>
  <2>1. CASE <<>> \notin {one, two}
    <3>1. List(<<Head(one)>>) /\ Range(<<Head(one)>>) # {}
      BY DEF List, Range
    <3>2. /\ List(<<Head(one)>> \o two)
          /\ Range(<<Head(one)>> \o two) = Range(<<Head(one)>>) \cup Range(two)
      BY <1>1, <3>1, ConcatIsList
    <3>3. <<Head(one)>> \o two # <<>>
      BY <3>1, <3>2, EmptyIsList
    <3>4. Upto(<<Head(one)>> \o two, 3) # <<>>
      BY <3>2, <3>3, <1>upto
    <3>5. QED
      BY <1>2, <1>4, <2>1, <3>4 DEF InTurn
  <2>2. CASE <<>> \in {one, two}
    <3>1. /\ List(one \o two)
          /\ Range(one \o two) = Range(one) \cup Range(two)
      BY <1>1, ConcatIsList
    <3>2. Upto(one \o two, 3) = <<>>
      BY <1>2, <1>4, <2>2 DEF InTurn
    <3>3. one \o two = <<>>
      BY <3>1, <3>2, <1>upto
    <3>4. Range(one) \cup Range(two) = {}
      BY <3>1, <3>3, EmptyIsList
    <3>5. QED
      BY <1>1, <3>4, ListBasics
  <2>3. QED
    BY <2>1, <2>2
<1>5. CASE founder.preference = "FRANCHISE_ONLY"
  <2>1. FranchiseTasks = <<>>
    BY <1>3, <1>4, <1>5 DEF two
  <2>2. QED
    BY <1>5, <2>1, NoFranchiseTask DEF NothingSuits
<1>6. CASE founder.preference # "FRANCHISE_ONLY"
  <2>1. IndependentTasks = <<>>
    BY <1>3, <1>4 DEF one
  <2>2. QED
    BY <1>6, <2>1, NoIndependentTask DEF NothingSuits
<1>7. QED
  BY <1>5, <1>6

\* A proposal task is about one source, which the drafts of the same run may have.
LEMMA ProposalTaskIsAboutOne ==
  ASSUME NEW type, NEW source, NEW refs, NEW assumptions
  PROVE  LET task == ProposalTask(type, source, refs, assumptions) IN
         task.type = type /\ task.sources = Offer(source) /\ task.count = 1
BY DEF ProposalTask, Task

-----------------------------------------------------------------------------
\* What was asked and heard.

\* The answers without the first, which is that of the evidence assessment.
LEMMA TailIsList ==
  ASSUME NEW s, List(s), s # <<>>
  PROVE  /\ List(Tail(s))
         /\ Len(Tail(s)) = Len(s) - 1
         /\ \A i \in 1..(Len(s) - 1) : Tail(s)[i] = s[i + 1]
<1>1. s \in Seq(Range(s))
  BY DEF List
<1>2. /\ Tail(s) \in Seq(Range(s))
      /\ Len(Tail(s)) = Len(s) - 1
      /\ \A i \in 1..(Len(s) - 1) : Tail(s)[i] = s[i + 1]
  BY <1>1
<1>3. QED
  BY <1>2, ListOf

\* A candidate has the id of its family and source; an independent one the advice on it.
LEMMA DraftFields ==
  ASSUME NEW ctx, NEW c, List(ctx.universe), FromDrafts(ctx, c)
  PROVE  /\ c.id = CandidateId(c.family, c.source)
         /\ c.family \in Family
         /\ c.source \in ctx.proposed
         /\ c.family = "INDEPENDENT" => c.advisory = LineOf(ctx.proposals, c.source)
<1>1. PICK d, e, rank, trace : 
        /\ d \in Range(Drafts(ctx)) /\ e \in Range(Drafts(ctx)) /\ d.id = e.id
        /\ c = Finished(d, Decision(RankingInput(ctx, e), rank, trace))
  BY DEF FromDrafts
<1>2. d \in IndependentDrafts(ctx) \cup FranchiseDrafts(ctx)
  BY <1>1, DraftsOfContext
<1>3. /\ d.id = CandidateId(d.family, d.source)
      /\ d.family \in Family
      /\ d.source \in ctx.proposed
      /\ d.family = "INDEPENDENT" => d.advisory = LineOf(ctx.proposals, d.source)
      /\ {"id", "family", "source", "advisory"} \subseteq DOMAIN d
  <2>1. CASE d \in IndependentDrafts(ctx)
    <3>1. PICK seed \in Range(SelectSeeds(ctx.founder)) :
            seed.id \in ctx.proposed /\ d = IndependentDraft(ctx, InputsOf(ctx), seed)
      BY <2>1 DEF IndependentDrafts
    <3>2. PICK lines :
            d = Draft(ctx, "INDEPENDENT", seed.id, lines, None, seed.profile, None)
      BY <3>1 DEF IndependentDraft
    <3>3. QED
      BY <3>1, <3>2 DEF Draft, Family
  <2>2. CASE d \in FranchiseDrafts(ctx)
    <3>1. PICK brand \in Range(ctx.universe) :
            brand.id \in ctx.proposed /\ d = FranchiseDraft(ctx, InputsOf(ctx), brand)
      BY <2>2 DEF FranchiseDrafts
    <3>2. PICK lines, rate, franchise :
            d = Draft(ctx, "FRANCHISE", brand.id, lines, rate, FranchiseSales, franchise)
      BY <3>1 DEF FranchiseDraft
    <3>3. QED
      BY <3>1, <3>2 DEF Draft, Family
  <2>3. QED
    BY <1>2, <2>1, <2>2
<1>4. c.id = d.id /\ c.family = d.family /\ c.source = d.source /\ c.advisory = d.advisory
  <2>1. PICK decision : c = Finished(d, decision)
    BY <1>1
  <2>2. QED
    BY <1>3, <2>1 DEF Finished
<1>5. QED
  BY <1>3, <1>4

\* The run has asked, after the researcher, the agents of proposal tasks.
\* What was asked once the evidence is assessed: one assessor, then proposal agents.
AskedForProposals ==
  /\ AreOutcomes(outcomes)
  /\ List(asked)
  /\ asked # <<>>
  /\ asked[1].task.type = "EVIDENCE_ASSESS"
  /\ \A k \in 2..Len(asked) :
       IsIndependentTask(asked[k].task) \/ IsFranchiseTask(asked[k].task)

\* One agent was asked about the source, and proposes it.
Heard(k, source) ==
  /\ k \in 2..Len(asked)
  /\ Answers(asked[k], source)
  /\ Used(asked[k]) # None
  /\ Used(asked[k]) # <<>>
  /\ \/ /\ founder.preference # "FRANCHISE_ONLY"
        /\ \E seed \in Range(SelectSeeds(founder)) : seed.id = source
     \/ /\ founder.preference # "INDEPENDENT_ONLY"
        /\ \E brand \in Range(FranchiseUniverse) : brand.id = source

\* A proposal task is about one source, which the founder's preference allows.
LEMMA TaskOfSource ==
  ASSUME NEW task, IsIndependentTask(task) \/ IsFranchiseTask(task)
  PROVE  \E source :
           /\ task.type \in {"PROPOSE_INDEPENDENT", "PROPOSE_FRANCHISE"}
           /\ task.sources = Offer(source)
           /\ task.count = 1
           /\ \/ /\ founder.preference # "FRANCHISE_ONLY"
                 /\ \E seed \in Range(SelectSeeds(founder)) : seed.id = source
              \/ /\ founder.preference # "INDEPENDENT_ONLY"
                 /\ \E brand \in Range(FranchiseUniverse) : brand.id = source
<1>1. CASE IsIndependentTask(task)
  <2>1. PICK seed \in Range(SelectSeeds(founder)) :
          task = ProposalTask("PROPOSE_INDEPENDENT", seed.id, {}, seed.support)
    BY <1>1 DEF IsIndependentTask
  <2>2. founder.preference # "FRANCHISE_ONLY"
    BY <1>1 DEF IsIndependentTask
  <2>3. QED
    BY <2>1, <2>2, ProposalTaskIsAboutOne
<1>2. CASE IsFranchiseTask(task)
  <2>1. PICK brand \in Range(FranchiseUniverse) :
          task = ProposalTask("PROPOSE_FRANCHISE", brand.id, RefsOf(brand), {})
    BY <1>2 DEF IsFranchiseTask
  <2>2. founder.preference # "INDEPENDENT_ONLY"
    BY <1>2 DEF IsFranchiseTask
  <2>3. QED
    BY <2>1, <2>2, ProposalTaskIsAboutOne
<1>3. QED
  BY <1>1, <1>2

\* Every proposal is the first row of an answer of the agent asked about its source.
LEMMA AgentsAnswered ==
  ASSUME AskedForProposals
  PROVE  /\ List(Proposals(Tail(asked)))
         /\ \A row \in Range(Proposals(Tail(asked))) :
              \E k : Heard(k, row.source) /\ Used(asked[k])[1] = row
<1> DEFINE answers == Tail(asked)
<1>1. /\ List(answers) /\ Len(answers) = Len(asked) - 1
      /\ \A i \in 1..(Len(asked) - 1) : answers[i] = asked[i + 1]
      /\ Len(asked) \in Nat
  BY TailIsList, ListBasics DEF AskedForProposals
<1> HIDE DEF answers
<1>2. /\ List(Proposals(answers))
      /\ Range(Proposals(answers)) =
           UNION {Range(Used(answers[k]))
                  : k \in {j \in 1..Len(answers) : Used(answers[j]) # None}}
  BY <1>1, ProposalsOfAnswers
<1>3. ASSUME NEW row \in Range(Proposals(answers))
      PROVE  \E k : Heard(k, row.source) /\ Used(asked[k])[1] = row
  <2>1. PICK j \in 1..Len(answers) :
          Used(answers[j]) # None /\ row \in Range(Used(answers[j]))
    BY <1>2
  <2>2. j + 1 \in 2..Len(asked) /\ answers[j] = asked[j + 1]
    BY <1>1
  <2> DEFINE a == asked[j + 1]
  <2>3. Used(a) # None /\ row \in Range(Used(a))
    BY <2>1, <2>2
  <2>4. IsIndependentTask(a.task) \/ IsFranchiseTask(a.task)
    BY <2>2 DEF AskedForProposals
  <2> HIDE DEF a
  <2>5. PICK source :
          /\ Answers(a, source)
          /\ \/ /\ founder.preference # "FRANCHISE_ONLY"
                /\ \E seed \in Range(SelectSeeds(founder)) : seed.id = source
             \/ /\ founder.preference # "INDEPENDENT_ONLY"
                /\ \E brand \in Range(FranchiseUniverse) : brand.id = source
    BY <2>4, TaskOfSource DEF Answers
  <2>6. Len(Used(a)) <= 1 /\ row.source = source /\ List(Used(a))
    BY <2>3, <2>5, UsedProposal, UsedRows
  <2>7. Used(a) # <<>> /\ Used(a)[1] = row
    <3>1. /\ Len(Used(a)) \in Nat
          /\ Range(Used(a)) = {Used(a)[i] : i \in 1..Len(Used(a))}
          /\ Used(a) = <<>> <=> Range(Used(a)) = {}
      BY <2>6, ListBasics
    <3>2. PICK i \in 1..Len(Used(a)) : row = Used(a)[i]
      BY <2>3, <3>1
    <3>3. i = 1
      BY <2>6, <3>1
    <3>4. QED
      BY <2>3, <3>1, <3>2, <3>3
  <2>8. Heard(j + 1, row.source) /\ Used(asked[j + 1])[1] = row
    BY <2>2, <2>3, <2>5, <2>6, <2>7 DEF Heard, a
  <2>9. QED
    BY <2>8
<1>4. QED
  BY <1>2, <1>3 DEF answers

\* So is the advice on every source that may become a candidate.
LEMMA ProposedSources ==
  ASSUME AskedForProposals
  PROVE  \A source \in DOMAIN ProposalsBySource :
           \E k : Heard(k, source) /\ ProposalsBySource[source] = Used(asked[k])[1].advice
<1> DEFINE rows == Proposals(Tail(asked))
<1>1. List(rows)
  BY AgentsAnswered
<1>2. ProposalsBySource = AdviceBySource(rows)
  BY DEF ProposalsBySource
<1> HIDE DEF rows
<1>3. ASSUME NEW source \in DOMAIN ProposalsBySource
      PROVE  \E k : Heard(k, source) /\ ProposalsBySource[source] = Used(asked[k])[1].advice
  <2>1. PICK row \in Range(rows) :
          row.source = source /\ ProposalsBySource[source] = row.advice
    BY <1>1, <1>2, AdviceOfRows
  <2>2. PICK k : Heard(k, row.source) /\ Used(asked[k])[1] = row
    BY AgentsAnswered DEF rows
  <2>3. QED
    BY <2>1, <2>2
<1>4. QED
  BY <1>3

\* What the context of a first result takes of the run.
LEMMA ContextFields ==
  /\ ProposalContext.founder = founder
  /\ ProposalContext.evidence = frozen
  /\ ProposalContext.version = RunHead
  /\ ProposalContext.proposals = ProposalsBySource
  /\ ProposalContext.proposed = DOMAIN ProposalsBySource
  /\ ProposalContext.universe = FranchiseUniverse
BY DEF ProposalContext

\* Where an agent proposes a source there is something to rank.
LEMMA ProposedHaveDrafts ==
  ASSUME AskedForProposals, Proposals(Tail(asked)) # <<>>
  PROVE  Drafts(ProposalContext) # <<>>
<1> DEFINE ctx == ProposalContext
           rows == Proposals(Tail(asked))
<1>1. /\ ctx.founder = founder /\ ctx.universe = FranchiseUniverse
      /\ ctx.proposed = DOMAIN ProposalsBySource
  BY ContextFields
<1>2. /\ List(ctx.universe)
      /\ \A brand \in Range(FranchiseUniverse) : brand.eligibility = "VERIFIED"
  BY <1>1, ListOfUniverse DEF AskedForProposals
<1>3. List(rows) /\ Range(rows) # {}
  BY AgentsAnswered, ListBasics
<1>4. PICK source : source \in DOMAIN ProposalsBySource
  <2>1. ProposalsBySource = AdviceBySource(rows)
    BY DEF ProposalsBySource
  <2> HIDE DEF rows
  <2>2. DOMAIN ProposalsBySource = {row.source : row \in Range(rows)}
    BY <1>3, <2>1, AdviceOfRows
  <2>3. QED
    BY <1>3, <2>2
<1>5. PICK k : Heard(k, source)
  BY <1>4, ProposedSources
<1> HIDE DEF ctx, rows
<1>6. IndependentDrafts(ctx) \cup FranchiseDrafts(ctx) # {}
  <2>1. ASSUME founder.preference # "FRANCHISE_ONLY",
               NEW seed \in Range(SelectSeeds(founder)), seed.id = source
        PROVE  IndependentDraft(ctx, InputsOf(ctx), seed) \in IndependentDrafts(ctx)
    BY <1>1, <1>4, <2>1 DEF IndependentDrafts
  <2>2. ASSUME founder.preference # "INDEPENDENT_ONLY",
               NEW brand \in Range(FranchiseUniverse), brand.id = source
        PROVE  FranchiseDraft(ctx, InputsOf(ctx), brand) \in FranchiseDrafts(ctx)
    BY <1>1, <1>2, <1>4, <2>2 DEF FranchiseDrafts
  <2>3. QED
    BY <1>5, <2>1, <2>2 DEF Heard
<1>7. /\ List(Drafts(ctx))
      /\ Range(Drafts(ctx)) = IndependentDrafts(ctx) \cup FranchiseDrafts(ctx)
  BY <1>2, DraftsOfContext
<1>8. Drafts(ctx) # <<>>
  BY <1>6, <1>7, EmptyIsList
<1>9. QED
  BY <1>8 DEF ctx

\* A candidate was proposed by the agent that was asked about it.
\* The answer is that of the agent of the candidate's source, and is its advice.
AdvisedBy(c, answer) ==
  /\ answer.task.sources = Offer(c.source)
  /\ Used(answer) \notin {None, <<>>}
  /\ c.family = "INDEPENDENT" => c.advisory = Used(answer)[1].advice

\* Every candidate of a first result rests on the answer of its own agent.
LEMMA BuiltOnAdvice ==
  ASSUME AskedForProposals, NEW c, FromDrafts(ProposalContext, c)
  PROVE  \E k \in DOMAIN asked : AdvisedBy(c, asked[k])
<1>1. List(ProposalContext.universe)
  BY ContextFields, ListOfUniverse DEF AskedForProposals
<1>2. /\ c.source \in ProposalContext.proposed
      /\ c.family = "INDEPENDENT" =>
           c.advisory = LineOf(ProposalContext.proposals, c.source)
  BY <1>1, DraftFields
<1>3. /\ c.source \in DOMAIN ProposalsBySource
      /\ c.family = "INDEPENDENT" => c.advisory = ProposalsBySource[c.source]
  BY <1>2, ContextFields DEF LineOf
<1>4. PICK k : Heard(k, c.source) /\ ProposalsBySource[c.source] = Used(asked[k])[1].advice
  BY <1>3, ProposedSources
<1>5. k \in DOMAIN asked
  BY <1>4, ListBasics DEF Heard, AskedForProposals
<1>6. QED
  BY <1>3, <1>4, <1>5 DEF Heard, Answers, AdvisedBy

-----------------------------------------------------------------------------
\* The invariant.

\* Lists of the same members in the same places are one.
LEMMA SameList ==
  ASSUME NEW s, NEW t, List(s), List(t), Len(s) = Len(t),
         \A i \in 1..Len(s) : s[i] = t[i]
  PROVE  s = t
<1>1. s \in [1..Len(s) -> Range(s)] /\ t \in [1..Len(s) -> Range(t)]
  BY ListBasics
<1>2. QED
  BY <1>1

\* The list of one member.
LEMMA OneIsList ==
  ASSUME NEW x
  PROVE  List(<<x>>) /\ Len(<<x>>) = 1 /\ <<x>>[1] = x
BY DEF List, Range

\* The steps of a run, from the tool calls to its result and what follows it.
Phase ==
  {"RETRIEVE", "ASSESS", "PROPOSE", "RANK", "AUDIT", "COMMIT", "FAILED", "DONE", "FOLLOWED"}

\* The inductive invariant: what was asked and heard by the step a run is in, and that
\* every candidate of a result not yet published has the answer it rests on.
PipelineInv ==
  /\ phase \in Phase
  /\ phase = "ASSESS" => AreOutcomes(outcomes)
  /\ phase \in {"RETRIEVE", "ASSESS", "DONE", "FOLLOWED"} => asked = <<>>
  /\ phase = "PROPOSE" => AskedForProposals /\ Len(asked) = 1
  /\ phase = "RANK" => AskedForProposals /\ Proposals(Tail(asked)) # <<>>
  /\ phase \in {"AUDIT", "COMMIT"} =>
       /\ List(asked)
       /\ IsBundle(bundle)
       /\ \A c \in Range(bundle.candidates) : \E k \in DOMAIN asked : AdvisedBy(c, asked[k])
  /\ PassedMeansAudited
  /\ FailsOnlyWithoutAnyProposal

\* What was asked stays allowed while the founder's input and the evidence do not change.
LEMMA TasksStay ==
  ASSUME founder' = founder, outcomes' = outcomes, frozen' = frozen, NEW CONSTANT task,
         IsIndependentTask(task) \/ IsFranchiseTask(task)
  PROVE  (IsIndependentTask(task) \/ IsFranchiseTask(task))'
<1>1. IsIndependentTask(task)' = IsIndependentTask(task)
  BY DEF IsIndependentTask, ProposalTask
<1>2. FranchiseDisclosures' = FranchiseDisclosures
  BY DEF FranchiseDisclosures, LinesBySource
<1>3. FranchiseUniverse' = FranchiseUniverse
  BY <1>2 DEF FranchiseUniverse, WithAcceptedFinance
<1>4. IsFranchiseTask(task)' = IsFranchiseTask(task)
  BY <1>3 DEF IsFranchiseTask, ProposalTask
<1>5. QED
  BY <1>1, <1>4

\* So does what was heard.
LEMMA AskedStays ==
  ASSUME founder' = founder, outcomes' = outcomes, frozen' = frozen, asked' = asked,
         AskedForProposals
  PROVE  AskedForProposals'
<1>1. ASSUME NEW k \in 2..Len(asked)
      PROVE  (IsIndependentTask(asked[k].task) \/ IsFranchiseTask(asked[k].task))'
  <2>1. PICK task : task = asked[k].task
    OBVIOUS
  <2>2. (IsIndependentTask(task) \/ IsFranchiseTask(task))'
    BY <2>1, TasksStay DEF AskedForProposals
  <2>3. asked'[k].task = task
    BY <2>1
  <2>4. QED
    BY <2>2, <2>3
<1>2. QED
  BY <1>1 DEF AskedForProposals

-----------------------------------------------------------------------------
\* Its steps.

\* A step that leaves the run alone, and its inputs while they are used, keeps it.
LEMMA PipelineInvStays ==
  ASSUME PipelineInv, UNCHANGED runVars,
         founder' = founder \/ phase \notin {"PROPOSE", "RANK", "FAILED"}
  PROVE  PipelineInv'
<1>1. /\ phase' = phase /\ outcomes' = outcomes /\ frozen' = frozen /\ asked' = asked
      /\ bundle' = bundle
  BY DEF runVars
<1>2. phase' \in Phase
  BY <1>1 DEF PipelineInv
<1>3. (phase = "ASSESS" => AreOutcomes(outcomes))'
  BY <1>1 DEF PipelineInv
<1>4. (phase \in {"RETRIEVE", "ASSESS", "DONE", "FOLLOWED"} => asked = <<>>)'
  BY <1>1 DEF PipelineInv
<1>5. (phase = "PROPOSE" => AskedForProposals /\ Len(asked) = 1)'
  BY <1>1, AskedStays DEF PipelineInv
<1>6. (phase = "RANK" => AskedForProposals /\ Proposals(Tail(asked)) # <<>>)'
  BY <1>1, AskedStays DEF PipelineInv
<1>7. (phase \in {"AUDIT", "COMMIT"} =>
         /\ List(asked)
         /\ IsBundle(bundle)
         /\ \A c \in Range(bundle.candidates) :
              \E k \in DOMAIN asked : AdvisedBy(c, asked[k]))'
  BY <1>1 DEF PipelineInv
<1>8. PassedMeansAudited'
  BY <1>1 DEF PipelineInv, PassedMeansAudited
<1>9. FailsOnlyWithoutAnyProposal'
  <2>1. ASSUME founder' = founder
        PROVE  NothingSuits' = NothingSuits
    BY <1>1, <2>1 DEF NothingSuits, UniverseItems
  <2>2. QED
    BY <1>1, <2>1 DEF PipelineInv, FailsOnlyWithoutAnyProposal
<1>10. QED
  BY <1>2, <1>3, <1>4, <1>5, <1>6, <1>7, <1>8, <1>9 DEF PipelineInv

\* Then each step of the run keeps it.  Retrieval asks no agent.
LEMMA RetrieveKeeps ==
  ASSUME PipelineInv, NEW failed, Retrieve(failed)
  PROVE  PipelineInv'
<1> DEFINE first == RetrieveAll(Calls, failed)
           disclosures == RetrieveAll(DisclosureCalls(first), failed)
           all == first \o disclosures
<1>1. AreOutcomes(first)
  BY ListOfCalls, RetrievedAreOutcomes
<1> HIDE DEF first
<1>2. AreOutcomes(disclosures)
  BY <1>1, ListOfBrands, RetrievedAreOutcomes
<1> HIDE DEF disclosures
<1>3. AreOutcomes(all)
  BY <1>1, <1>2, JoinedOutcomes
<1>4. /\ phase = "RETRIEVE" /\ phase' = "ASSESS" /\ asked' = asked
      /\ outcomes' = [k \in DOMAIN all |-> WithOfficialRagEvidence(all[k])]
  BY DEF Retrieve, first, disclosures
<1> HIDE DEF all
<1>5. AreOutcomes(outcomes)'
  <2>1. AreOutcomes([k \in DOMAIN all |-> WithOfficialRagEvidence(all[k])])
    BY <1>3, RetrieveLeavesOutcomes
  <2>2. AreOutcomes(outcomes')
    BY <1>4, <2>1
  <2>3. QED
    BY <2>2
<1>6. asked' = <<>>
  BY <1>4 DEF PipelineInv
<1>7. PassedMeansAudited' /\ FailsOnlyWithoutAnyProposal'
  BY <1>4 DEF PassedMeansAudited, FailsOnlyWithoutAnyProposal
<1>8. QED
  BY <1>4, <1>5, <1>6, <1>7 DEF PipelineInv, Phase

\* The first agent asked is the assessor.
LEMMA AskedTasks ==
  /\ AssessTask.type = "EVIDENCE_ASSESS"
  /\ AuditTask.type = "CANDIDATE_AUDIT"
BY DEF AssessTask, AuditTask, Task

\* Assessment: a run that goes on has asked one agent, and its evidence is frozen.
LEMMA AssessKeeps ==
  ASSUME PipelineInv, NEW defect, Assess(defect)
  PROVE  PipelineInv'
<1> DEFINE answer == Asks(AssessTask, defect)
<1>1. /\ phase = "ASSESS" /\ asked' = <<answer>> /\ outcomes' = outcomes
      /\ IF Verdict(answer) = "FATAL" THEN phase' = "FAILED" ELSE phase' = "PROPOSE"
  BY DEF Assess
<1>2. answer.task.type = "EVIDENCE_ASSESS"
  BY AskedTasks DEF Asks
<1> HIDE DEF answer
<1>3. List(asked') /\ Len(asked') = 1 /\ asked'[1] = answer
  BY <1>1, OneIsList
<1>4. DOMAIN asked' = {1}
  <2>1. DOMAIN asked' = 1..1
    BY <1>3, ListBasics
  <2>2. QED
    BY <2>1
<1>5. AreOutcomes(outcomes)'
  BY <1>1 DEF PipelineInv
<1>6. CASE Verdict(answer) = "FATAL"
  <2>1. Tampered(answer.task, answer.reply, RunHead)
    BY <1>6, FatalIsTampered
  <2>2. FailsOnlyWithoutAnyProposal'
    BY <1>3, <1>4, <2>1 DEF FailsOnlyWithoutAnyProposal
  <2>3. PassedMeansAudited'
    BY <1>1, <1>6 DEF PassedMeansAudited
  <2>4. QED
    BY <1>1, <1>6, <2>2, <2>3 DEF PipelineInv, Phase
<1>7. CASE Verdict(answer) # "FATAL"
  <2>1. asked' # <<>>
    BY <1>1
  <2>2. 2..Len(asked') = {}
    BY <1>3
  <2>3. AskedForProposals'
    BY <1>2, <1>3, <1>5, <2>1, <2>2 DEF AskedForProposals
  <2>4. FailsOnlyWithoutAnyProposal' /\ PassedMeansAudited'
    BY <1>1, <1>7 DEF FailsOnlyWithoutAnyProposal, PassedMeansAudited
  <2>5. QED
    BY <1>1, <1>3, <1>7, <2>3, <2>4 DEF PipelineInv, Phase
<1>8. QED
  BY <1>6, <1>7

\* A run without a task to propose, which fails.
LEMMA RefuseKeeps ==
  ASSUME PipelineInv, founder' = founder, Refuse(ProposalTasks)
  PROVE  PipelineInv'
<1>1. /\ phase = "PROPOSE" /\ phase' = "FAILED" /\ asked' = asked
      /\ outcomes' = outcomes /\ frozen' = frozen
      /\ NothingToPropose(ProposalTasks)
  BY DEF Refuse
<1>2. AskedForProposals /\ Len(asked) = 1
  BY <1>1 DEF PipelineInv
<1>3. DOMAIN asked = 1..1 /\ asked[1].task.type = "EVIDENCE_ASSESS"
  BY <1>2, ListBasics DEF AskedForProposals
<1>4. \A k \in DOMAIN asked : ~Proposing(asked[k].task)
  BY <1>3 DEF Proposing
<1>5. FailsOnlyWithoutAnyProposal'
  <2>1. NothingSuits
    BY <1>1, <1>2, RefusedWithoutSuit DEF AskedForProposals
  <2>2. NothingSuits'
    BY <1>1, <2>1 DEF NothingSuits, UniverseItems
  <2>3. {k \in DOMAIN asked : Proposing(asked[k].task)} = {}
    BY <1>4
  <2>4. QED
    BY <1>1, <2>2, <2>3 DEF FailsOnlyWithoutAnyProposal
<1>6. PassedMeansAudited'
  BY <1>1 DEF PassedMeansAudited
<1>7. QED
  BY <1>1, <1>5, <1>6 DEF PipelineInv, Phase

\* Publication leaves the answers behind.
LEMMA PublishKeeps ==
  ASSUME PipelineInv, Publish
  PROVE  PipelineInv'
<1>1. phase' \in {"FOLLOWED", "DONE"} /\ asked' = <<>>
  BY DEF Publish
<1>2. FailsOnlyWithoutAnyProposal' /\ PassedMeansAudited'
  BY <1>1 DEF FailsOnlyWithoutAnyProposal, PassedMeansAudited
<1>3. QED
  BY <1>1, <1>2 DEF PipelineInv, Phase

\* Ranking: there are proposals, so there are drafts, and every candidate is one of them.
LEMMA RankKeeps ==
  ASSUME PipelineInv, RankProposals
  PROVE  PipelineInv'
<1> DEFINE ctx == ProposalContext
<1>1. phase = "RANK" /\ asked' = asked /\ bundle' = Build(ctx)
      /\ phase' = IF Drafts(ctx) = <<>> THEN "FAILED" ELSE "AUDIT"
  BY DEF RankProposals
<1>2. AskedForProposals /\ Proposals(Tail(asked)) # <<>>
  BY <1>1 DEF PipelineInv
<1>3. Drafts(ctx) # <<>>
  BY <1>2, ProposedHaveDrafts
<1>4. List(ctx.universe)
  BY <1>2, ContextFields, ListOfUniverse DEF AskedForProposals
<1>5. IsBundle(Build(ctx)) /\ \A c \in Range(Build(ctx).candidates) : FromDrafts(ctx, c)
  BY <1>3, <1>4, BuiltFromDrafts
<1>6. \A c \in Range(Build(ctx).candidates) : \E k \in DOMAIN asked : AdvisedBy(c, asked[k])
  BY <1>2, <1>5, BuiltOnAdvice
<1> HIDE DEF ctx
<1>7. phase' = "AUDIT"
  BY <1>1, <1>3
<1>8. (/\ List(asked)
       /\ IsBundle(bundle)
       /\ \A c \in Range(bundle.candidates) :
            \E k \in DOMAIN asked : AdvisedBy(c, asked[k]))'
  BY <1>1, <1>2, <1>5, <1>6 DEF AskedForProposals
<1>9. FailsOnlyWithoutAnyProposal' /\ PassedMeansAudited'
  BY <1>7 DEF FailsOnlyWithoutAnyProposal, PassedMeansAudited
<1>10. QED
  BY <1>7, <1>8, <1>9 DEF PipelineInv, Phase

\* Proposals: a run that does not go on got none, or a reply that is not for its task.
LEMMA ProposeKeeps ==
  ASSUME PipelineInv, founder' = founder, NEW defects, Propose(ProposalTasks, defects)
  PROVE  PipelineInv'
<1> DEFINE tasks == ProposalTasks
           answers == [k \in DOMAIN tasks |-> Asks(tasks[k], defects[k])]
<1>1. /\ phase = "PROPOSE" /\ asked' = asked \o answers
      /\ phase' = IF \/ \E k \in DOMAIN answers : Verdict(answers[k]) = "FATAL"
                     \/ Proposals(answers) = <<>>
                  THEN "FAILED" ELSE "RANK"
      /\ founder' = founder /\ outcomes' = outcomes /\ frozen' = frozen
      /\ tasks # <<>>
  <2>1. phase = "PROPOSE" /\ asked' = asked \o answers
    BY Zenon DEF Propose
  <2>3. tasks # <<>>
    BY Zenon DEF Propose, NothingToPropose
  <2>2. phase' = IF \/ \E k \in DOMAIN answers : Verdict(answers[k]) = "FATAL"
                    \/ Proposals(answers) = <<>>
                 THEN "FAILED" ELSE "RANK"
    BY Zenon DEF Propose
  <2>4. outcomes' = outcomes /\ frozen' = frozen
    BY Zenon DEF Propose
  <2>5. QED
    BY <2>1, <2>2, <2>3, <2>4
<1>2. AskedForProposals /\ Len(asked) = 1
  BY <1>1 DEF PipelineInv
<1>3. /\ List(tasks)
      /\ \A task \in Range(tasks) : IsIndependentTask(task) \/ IsFranchiseTask(task)
  BY <1>2, ListOfProposalTasks DEF AskedForProposals
<1> HIDE DEF tasks
<1>4. /\ List(answers) /\ Len(answers) = Len(tasks)
      /\ \A k \in 1..Len(tasks) : answers[k].task = tasks[k]
  <2>1. DOMAIN answers = DOMAIN tasks /\ answers = [k \in DOMAIN tasks |-> answers[k]]
    OBVIOUS
  <2>2. \A k \in DOMAIN tasks : answers[k].task = tasks[k]
    BY DEF Asks
  <2> HIDE DEF answers
  <2>3. QED
    BY <1>3, <2>1, <2>2, MappedIsList, ListBasics
<1>5. /\ DOMAIN answers = 1..Len(answers) /\ Len(answers) \in Nat
      /\ \A k \in 1..Len(tasks) : tasks[k] \in Range(tasks)
  BY <1>3, <1>4, ListBasics
<1> HIDE DEF answers
<1>6. /\ List(asked') /\ Len(asked') = 1 + Len(answers) /\ asked'[1] = asked[1]
      /\ \A i \in 1..Len(answers) : asked'[1 + i] = answers[i]
  <2> DEFINE all == asked \o answers
  <2>1. List(asked) /\ Len(asked) = 1
    BY <1>2 DEF AskedForProposals
  <2>2. /\ List(all) /\ Len(all) = Len(asked) + Len(answers)
        /\ \A i \in 1..Len(asked) : all[i] = asked[i]
        /\ \A i \in 1..Len(answers) : all[Len(asked) + i] = answers[i]
    <3>1. List(answers)
      BY <1>4
    <3>2. PICK s, t : s = asked /\ t = answers
      OBVIOUS
    <3>3. List(s) /\ List(t)
      BY <2>1, <3>1, <3>2
    <3>4. /\ List(s \o t) /\ Len(s \o t) = Len(s) + Len(t)
          /\ \A i \in 1..Len(s) : (s \o t)[i] = s[i]
          /\ \A i \in 1..Len(t) : (s \o t)[Len(s) + i] = t[i]
      BY <3>3, ConcatIsList
    <3>5. QED
      BY <3>2, <3>4
  <2>3. asked' = all
    BY <1>1
  <2> HIDE DEF all
  <2>4. List(asked') /\ Len(asked') = 1 + Len(answers)
    BY <2>1, <2>2, <2>3
  <2>5. asked'[1] = asked[1]
    BY <2>1, <2>2, <2>3
  <2>6. \A i \in 1..Len(answers) : asked'[1 + i] = answers[i]
    BY <2>1, <2>2, <2>3
  <2>7. QED
    BY <2>4, <2>5, <2>6
<1>7. asked' # <<>> /\ DOMAIN asked' = 1..(1 + Len(answers))
  BY <1>5, <1>6, ListBasics
<1>8. ASSUME NEW k \in 2..Len(asked')
      PROVE  k - 1 \in 1..Len(answers) /\ asked'[k] = answers[k - 1]
  <2>1. k - 1 \in 1..Len(answers) /\ 1 + (k - 1) = k
    BY <1>5, <1>6
  <2>2. QED
    BY <1>6, <2>1
<1>9. AskedForProposals'
  <2>1. ASSUME NEW k \in 2..Len(asked')
        PROVE  (IsIndependentTask(asked[k].task) \/ IsFranchiseTask(asked[k].task))'
    <3>1. PICK task : task = tasks[k - 1]
      OBVIOUS
    <3>2. IsIndependentTask(task) \/ IsFranchiseTask(task)
      BY <1>3, <1>4, <1>5, <1>8, <3>1
    <3>3. (IsIndependentTask(task) \/ IsFranchiseTask(task))'
      BY <1>1, <3>2, TasksStay
    <3>4. asked'[k].task = task
      BY <1>4, <1>8, <3>1
    <3>5. QED
      BY <3>3, <3>4
  <2>2. AreOutcomes(outcomes)'
    BY <1>1, <1>2 DEF AskedForProposals
  <2>3. asked'[1].task.type = "EVIDENCE_ASSESS"
    BY <1>2, <1>6 DEF AskedForProposals
  <2>4. QED
    BY <1>6, <1>7, <2>1, <2>2, <2>3 DEF AskedForProposals
<1>10. Tail(asked') = answers
  <2>1. /\ List(Tail(asked')) /\ Len(Tail(asked')) = Len(asked') - 1
        /\ \A i \in 1..(Len(asked') - 1) : Tail(asked')[i] = asked'[i + 1]
    BY <1>6, <1>7, TailIsList
  <2>2. Len(Tail(asked')) = Len(answers)
    BY <1>5, <1>6, <2>1
  <2>3. \A i \in 1..Len(answers) : Tail(asked')[i] = answers[i]
    BY <1>5, <1>6, <2>1
  <2>4. QED
    BY <1>4, <2>1, <2>2, <2>3, SameList
<1>11. ~Proposing(asked'[1].task)
  BY <1>2, <1>6 DEF AskedForProposals, Proposing
<1>12. PassedMeansAudited'
  BY <1>1 DEF PassedMeansAudited
<1>13. ASSUME NEW k \in DOMAIN answers, Verdict(answers[k]) = "FATAL"
       PROVE  FailsOnlyWithoutAnyProposal'
  <2>1. Tampered(answers[k].task, answers[k].reply, RunHead)
    BY <1>13, FatalIsTampered
  <2>2. 1 + k \in DOMAIN asked' /\ asked'[1 + k] = answers[k]
    BY <1>5, <1>6, <1>7
  <2>3. QED
    BY <2>1, <2>2 DEF FailsOnlyWithoutAnyProposal
<1>14. ASSUME Proposals(answers) = <<>>
       PROVE  FailsOnlyWithoutAnyProposal'
  <2>1. Range(Proposals(answers)) = {}
    BY <1>14, EmptyIsList
  <2>2. Range(Proposals(answers)) =
          UNION {Range(Used(answers[k]))
                 : k \in {j \in 1..Len(answers) : Used(answers[j]) # None}}
    BY <1>4, ProposalsOfAnswers
  <2>3. ASSUME NEW k \in DOMAIN asked', Proposing(asked'[k].task)
        PROVE  Used(asked'[k]) \in {None, <<>>}
    <3>1. k # 1 /\ k \in 2..Len(asked')
      BY <1>5, <1>6, <1>7, <1>11, <2>3
    <3>2. k - 1 \in 1..Len(answers) /\ asked'[k] = answers[k - 1]
      BY <1>8, <3>1
    <3>3. ASSUME Used(answers[k - 1]) # None
          PROVE  Used(answers[k - 1]) = <<>>
      <4>1. Range(Used(answers[k - 1])) = {}
        BY <2>1, <2>2, <3>2, <3>3
      <4>2. List(Used(answers[k - 1]))
        BY <3>3, UsedRows
      <4>3. QED
        BY <4>1, <4>2, ListBasics
    <3>4. QED
      BY <3>2, <3>3
  <2>4. 1 \in 1..Len(tasks)
    BY <1>1, <1>3, ListBasics
  <2>5. Proposing(answers[1].task)
    <3>1. IsIndependentTask(tasks[1]) \/ IsFranchiseTask(tasks[1])
      BY <1>3, <1>5, <2>4
    <3>2. tasks[1].type \in {"PROPOSE_INDEPENDENT", "PROPOSE_FRANCHISE"}
      BY <3>1, TaskOfSource
    <3>3. QED
      BY <1>4, <2>4, <3>2 DEF Proposing
  <2>6. 2 \in DOMAIN asked' /\ asked'[2] = answers[1]
    BY <1>4, <1>5, <1>6, <1>7, <2>4
  <2>7. QED
    BY <2>3, <2>5, <2>6 DEF FailsOnlyWithoutAnyProposal
<1>15. CASE phase' = "FAILED"
  <2>1. FailsOnlyWithoutAnyProposal'
    BY <1>1, <1>13, <1>14, <1>15
  <2>2. QED
    BY <1>12, <1>15, <2>1 DEF PipelineInv, Phase
<1>16. CASE phase' = "RANK"
  <2>1. Proposals(answers) # <<>>
    BY <1>1, <1>16
  <2>2. (Proposals(Tail(asked)) # <<>>)'
    BY <1>10, <2>1
  <2>3. FailsOnlyWithoutAnyProposal'
    BY <1>16 DEF FailsOnlyWithoutAnyProposal
  <2>4. QED
    BY <1>9, <1>12, <1>16, <2>2, <2>3 DEF PipelineInv, Phase
<1>17. QED
  BY <1>1, <1>15, <1>16

\* The audit: its outcome is PASSED only if every candidate has a passing row.
LEMMA AuditKeeps ==
  ASSUME PipelineInv, NEW defect, Audit(defect)
  PROVE  PipelineInv'
<1> DEFINE answer == Asks(AuditTask, defect)
<1>1. /\ phase = "AUDIT" /\ asked' = Append(asked, answer)
      /\ \/ Verdict(answer) = "FATAL" /\ phase' = "FAILED"
         \/ phase' = "COMMIT" /\ bundle' = [bundle EXCEPT !.audit = AuditStatus(answer)]
  BY DEF Audit
<1>2. /\ List(asked) /\ IsBundle(bundle)
      /\ \A c \in Range(bundle.candidates) : \E k \in DOMAIN asked : AdvisedBy(c, asked[k])
  BY <1>1 DEF PipelineInv
<1>3. answer.task.type = "CANDIDATE_AUDIT"
  BY AskedTasks DEF Asks
<1> HIDE DEF answer
<1>4. /\ List(asked') /\ Len(asked') = Len(asked) + 1 /\ asked'[Len(asked) + 1] = answer
      /\ \A i \in 1..Len(asked) : asked'[i] = asked[i]
  BY <1>1, <1>2, AppendIsList
<1>5. /\ Len(asked) \in Nat
      /\ DOMAIN asked = 1..Len(asked)
      /\ DOMAIN asked' = 1..(Len(asked) + 1)
  BY <1>2, <1>4, ListBasics
<1>6. CASE Verdict(answer) = "FATAL" /\ phase' = "FAILED"
  <2>1. Tampered(answer.task, answer.reply, RunHead)
    BY <1>6, FatalIsTampered
  <2>2. Len(asked) + 1 \in DOMAIN asked' /\ asked'[Len(asked) + 1] = answer
    BY <1>4, <1>5
  <2>3. FailsOnlyWithoutAnyProposal'
    BY <2>1, <2>2 DEF FailsOnlyWithoutAnyProposal
  <2>4. PassedMeansAudited'
    BY <1>6 DEF PassedMeansAudited
  <2>5. QED
    BY <1>6, <2>3, <2>4 DEF PipelineInv, Phase
<1>7. CASE phase' = "COMMIT" /\ bundle' = [bundle EXCEPT !.audit = AuditStatus(answer)]
  <2>1. /\ bundle'.candidates = bundle.candidates
        /\ bundle'.audit = AuditStatus(answer)
        /\ IsBundle(bundle')
    BY <1>2, <1>7 DEF IsBundle
  <2>2. CandidateIds(bundle') = CandidateIds(bundle)
    BY <2>1 DEF CandidateIds
  <2>3. (\A c \in Range(bundle.candidates) :
           \E k \in DOMAIN asked : AdvisedBy(c, asked[k]))'
    <3>1. ASSUME NEW c \in Range(bundle'.candidates)
          PROVE  \E k \in DOMAIN asked' : AdvisedBy(c, asked'[k])
      <4>1. PICK k \in DOMAIN asked : AdvisedBy(c, asked[k])
        BY <1>2, <2>1
      <4>2. k \in DOMAIN asked' /\ asked'[k] = asked[k]
        BY <1>4, <1>5
      <4>3. QED
        BY <4>1, <4>2
    <3>2. QED
      BY <3>1 DEF AdvisedBy
  <2>4. Last(asked') = answer
    BY <1>4 DEF Last
  <2>5. ASSUME AuditStatus(answer) = "PASSED"
        PROVE  /\ Verdict(answer) = "ACCEPTED"
               /\ ~answer.reply.findings
               /\ Used(answer) = answer.reply.rows
               /\ {row.candidate : row \in Range(answer.reply.rows)} = CandidateIds(bundle)
               /\ \A row \in Range(answer.reply.rows) : row.status = "PASS"
    <3>1. /\ Verdict(answer) = "ACCEPTED" /\ answer.reply.status = "COMPLETE"
          /\ ~answer.reply.findings
          /\ {row.candidate : row \in Range(answer.reply.rows)} = CandidateIds(bundle)
          /\ \A row \in Range(answer.reply.rows) : row.status = "PASS"
      BY <2>5 DEF AuditStatus
    <3>2. Used(answer) = answer.reply.rows
      BY <3>1 DEF Used, UsableRows, Verdict
    <3>3. QED
      BY <3>1, <3>2
  <2>6. PassedMeansAudited'
    <3>1. ASSUME bundle'.audit = "PASSED"
          PROVE  /\ answer.task.type = "CANDIDATE_AUDIT"
                 /\ Verdict(answer) = "ACCEPTED"
                 /\ ~answer.reply.findings
                 /\ \A id \in CandidateIds(bundle') :
                      \E row \in Range(Used(answer)) :
                        row.candidate = id /\ row.status = "PASS"
      BY <1>3, <2>1, <2>2, <2>5, <3>1
    <3>2. QED
      BY <2>4, <3>1 DEF PassedMeansAudited
  <2>7. FailsOnlyWithoutAnyProposal'
    BY <1>7 DEF FailsOnlyWithoutAnyProposal
  <2>8. QED
    BY <1>4, <1>7, <2>1, <2>3, <2>6, <2>7 DEF PipelineInv, Phase
<1>8. QED
  BY <1>1, <1>6, <1>7

\* It holds at first.
LEMMA PipelineInvInit ==
  Init => PipelineInv
<1>1. ASSUME Init
      PROVE  PipelineInv
  <2>1. phase = "RETRIEVE" /\ asked = <<>>
    BY <1>1 DEF Init, PipelineInit
  <2>2. FailsOnlyWithoutAnyProposal /\ PassedMeansAudited
    BY <2>1 DEF FailsOnlyWithoutAnyProposal, PassedMeansAudited
  <2>3. QED
    BY <2>1, <2>2 DEF PipelineInv, Phase
<1>2. QED
  BY <1>1

\* Every step, of a user or of a run, keeps it.
LEMMA PipelineInvStep ==
  PipelineInv /\ [Next]_vars => PipelineInv'
<1> SUFFICES ASSUME PipelineInv, [Next]_vars
             PROVE  PipelineInv'
  OBVIOUS
<1>1. CASE PipelineStep /\ founder' = founder
  <2>1. CASE Publish
    BY <2>1, PublishKeeps
  <2>2. ASSUME NEW n \in 0..MaxFaults, NEW failed \in kSubset(n, DOMAIN McpAnswer),
               Retrieve(failed)
        PROVE  PipelineInv'
    BY <2>2, RetrieveKeeps
  <2>3. ASSUME NEW d \in DefectChoices(<<AssessTask>>, Budget), Assess(d[1])
        PROVE  PipelineInv'
    BY <2>3, AssessKeeps
  <2>4. ASSUME NEW tasks \in {ProposalTasks}, Refuse(tasks)
        PROVE  PipelineInv'
    BY <1>1, <2>4, RefuseKeeps
  <2>5. ASSUME NEW tasks \in {ProposalTasks}, NEW d \in DefectChoices(tasks, Budget),
               Propose(tasks, d)
        PROVE  PipelineInv'
    <3>1. Propose(ProposalTasks, d)
      BY <2>5
    <3>2. QED
      BY <1>1, <3>1, ProposeKeeps
  <2>6. CASE RankProposals
    BY <2>6, RankKeeps
  <2>7. ASSUME NEW d \in DefectChoices(<<AuditTask>>, Budget), Audit(d[1])
        PROVE  PipelineInv'
    BY <2>7, AuditKeeps
  <2>8. QED
    BY <1>1, <2>1, <2>2, <2>3, <2>4, <2>5, <2>6, <2>7 DEF PipelineStep
<1>2. CASE phase = "FOLLOWED" /\ Command
  <2>1. UNCHANGED runVars
    BY <1>2 DEF Command, Select, ApplyTerms, ApplyDocument, SetScalar, AddInterest,
       RemoveInterest, ConfirmFeedback, RefreshEvidence
  <2>2. QED
    BY <1>2, <2>1, PipelineInvStays
<1>3. CASE Recompute
  BY <1>3, PipelineInvStays DEF Recompute
<1>4. CASE UNCHANGED vars
  BY <1>4, PipelineInvStays DEF vars
<1>5. QED
  BY <1>1, <1>2, <1>3, <1>4 DEF Next

\* linear_agent_pipeline.py:104-243: in every state of every run, with any tools failing
\* and any replies, what the next step reads is what the steps before have left.
THEOREM PipelineIsConsistent == Spec => []PipelineInv
  BY PipelineInvInit, PipelineInvStep, PTL DEF Spec

\* linear_agent_pipeline.py:531-563: a result about to be published as PASSED has, for each
\* of its candidates, a passing row of an accepted reply of the auditor.
THEOREM PassedIsAudited == Spec => []PassedMeansAudited
<1>1. PipelineInv => PassedMeansAudited
  BY DEF PipelineInv
<1>2. QED
  BY PipelineIsConsistent, <1>1, PTL

\* linear_agent_pipeline.py:176-200: a run fails after its assessment only if a reply was
\* not for its task, if none of the agents asked made a proposal that could be used, or if
\* nobody was asked, and then no cafe model suits the founder, or he wants a franchise and
\* no verified brand has accepted evidence.
THEOREM FailsWithoutProposals == Spec => []FailsOnlyWithoutAnyProposal
<1>1. PipelineInv => FailsOnlyWithoutAnyProposal
  BY DEF PipelineInv
<1>2. QED
  BY PipelineIsConsistent, <1>1, PTL

\* boundary.py:431-492, simple_proposal.py:154-168: a candidate is shown with the advice of
\* the agent that was asked about its source, never with that of another.
THEOREM AdvisoriesAreOfTheirAgents == Spec => []EachAdvisoryIsOfItsAgent
<1>1. PipelineInv => EachAdvisoryIsOfItsAgent
  BY DEF PipelineInv, EachAdvisoryIsOfItsAgent, AdvisedBy
<1>2. QED
  BY PipelineIsConsistent, <1>1, PTL
=============================================================================
