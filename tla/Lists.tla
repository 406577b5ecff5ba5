-------------------------------- MODULE Lists --------------------------------
(***************************************************************************)
(* Python's lists as sequences: the comprehension with a condition and       *)
(* `sorted'.  They are given places and keys, not operators as SelectSeq and  *)
(* SortSeq are, so that they can be reasoned about.                         *)
(***************************************************************************)
EXTENDS Integers, Sequences, SequencesExt

List(s) == s \in Seq(Range(s))

\* The lexicographic order of tuples of one length.
Smaller(a, b) ==
  \E i \in DOMAIN a : a[i] < b[i] /\ \A j \in 1..(i - 1) : a[j] = b[j]

\* The members of s at some of its places.
Picked(s, places) ==
  LET picked[n \in 0..Len(s)] ==
        IF n = 0 THEN <<>>
        ELSE IF n \in places THEN Append(picked[n - 1], s[n])
        ELSE picked[n - 1]
  IN  picked[Len(s)]

\* The place n goes behind those of keys that are not greater.
Inserted(places, n, key) ==
  LET k == Cardinality({i \in DOMAIN places : ~Smaller(key[n], key[places[i]])})
  IN  SubSeq(places, 1, k) \o <<n>> \o SubSeq(places, k + 1, Len(places))

\* s in the order of the keys of its places; those of one key stay in their order.
SortedBy(s, key) ==
  LET order[n \in 0..Len(s)] ==
        IF n = 0 THEN <<>> ELSE Inserted(order[n - 1], n, key)
  IN  [i \in DOMAIN s |-> s[order[Len(s)][i]]]

Upto(s, n) == SubSeq(s, 1, IF Len(s) <= n THEN Len(s) ELSE n)
=============================================================================
