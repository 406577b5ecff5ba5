--------------------------- MODULE CaseInputs_proofs ---------------------------
(**************************************************************************)
(* Theorems about what a recomputation reads, for any seeds, brands, tool  *)
(* answers, terms, documents and order of commands: in a result of the     *)
(* current state the user's words are of the selected case and the newest, *)
(* and what its documents contradict each other about stays open.          *)
(*                                                                         *)
(* First what the resolver finds: a fact, an occupancy, a line.  Then what *)
(* a draft and a candidate show of the lines, and what the context of a    *)
(* recomputation gives to read.  CaseInv is the inductive invariant: it    *)
(* holds of whatever a recomputation may start from.                       *)
(*                                                                         *)
(* The last part is about the first run: whatever it calls a fact rests on *)
(* evidence that was stored or that the researcher accepted.  GroundInv is *)
(* the inductive invariant: what the run goes on with is assessed, and its *)
(* candidates rest on that.                                                *)
(**************************************************************************)
EXTENDS CaseRecompute_proofs

-----------------------------------------------------------------------------
(* Facts of claims: what the documents of a case come to.                   *)

\* The first of the values that are given, or the default.
LEMMA FirstOfGiven ==
  ASSUME NEW s, List(s), NEW default
  PROVE  \/ /\ \A i \in 1..Len(s) : s[i] = None
            /\ FirstGiven(s, default) = default
         \/ \E k \in 1..Len(s) :
              /\ s[k] # None
              /\ \A i \in 1..(k - 1) : s[i] = None
              /\ FirstGiven(s, default) = s[k]
<1> DEFINE n == Len(s)
           given == {i \in DOMAIN s : s[i] # None}
           mirror == {n + 1 - i : i \in given}
           m == n + 1 - Max(mirror)
<1>1. n \in Nat /\ DOMAIN s = 1..n
  BY ListBasics
<1>2. FirstGiven(s, default) = IF given = {} THEN default ELSE s[Min(given)]
  BY DEF FirstGiven
<1>3. given = {i \in 1..n : s[i] # None}
  BY <1>1
<1> HIDE DEF n, given
<1>4. CASE given = {}
  BY <1>2, <1>3, <1>4 DEF n
<1>5. CASE given # {}
  <2>1. mirror \in SUBSET (1..n) /\ mirror # {}
    BY <1>1, <1>3, <1>5
  <2>2. Max(mirror) \in mirror /\ \A x \in mirror : x <= Max(mirror)
    BY <1>1, <2>1, MaxIsLargest
  <2>3. \A i \in given : n + 1 - i \in mirror
    OBVIOUS
  <2>4. PICK j \in given : Max(mirror) = n + 1 - j
    BY <2>2
  <2> HIDE DEF mirror, m
  <2>5. \A i \in given : j <= i
    BY <1>1, <1>3, <2>2, <2>3, <2>4
  <2>6. Min(given) = CHOOSE x \in given : \A y \in given : x <= y
    BY DEF Min
  <2>7. Min(given) \in given /\ \A i \in given : Min(given) <= i
    BY <2>4, <2>5, <2>6
  <2>8. \A i \in 1..(Min(given) - 1) : s[i] = None
    BY <1>1, <1>3, <2>7
  <2>9. QED
    BY <1>2, <1>3, <1>5, <2>7, <2>8 DEF n
<1>6. QED
  BY <1>4, <1>5

\* The cases of two and of three values.
LEMMA FirstOfTwo ==
  ASSUME NEW x, NEW y, NEW default
  PROVE  FirstGiven(<<x, y>>, default) =
           IF x # None THEN x ELSE IF y # None THEN y ELSE default
<1> DEFINE s == <<x, y>>
<1>1. List(s) /\ Len(s) = 2 /\ s[1] = x /\ s[2] = y
  BY DEF List, Range
<1>2. \A k \in 1..2 : (k = 1 \/ (k = 2 /\ 1 \in 1..(k - 1)))
  OBVIOUS
<1> HIDE DEF s
<1>3. \/ /\ \A i \in 1..Len(s) : s[i] = None
         /\ FirstGiven(s, default) = default
      \/ \E k \in 1..Len(s) :
           /\ s[k] # None
           /\ \A i \in 1..(k - 1) : s[i] = None
           /\ FirstGiven(s, default) = s[k]
  BY <1>1, FirstOfGiven
<1>4. FirstGiven(s, default) = IF x # None THEN x ELSE IF y # None THEN y ELSE default
  BY <1>1, <1>2, <1>3
<1>5. QED
  BY <1>4 DEF s

\* The first of three values that are given.
LEMMA FirstOfThree ==
  ASSUME NEW x, NEW y, NEW z, NEW default
  PROVE  FirstGiven(<<x, y, z>>, default) =
           IF x # None THEN x ELSE IF y # None THEN y ELSE IF z # None THEN z ELSE default
<1> DEFINE s == <<x, y, z>>
<1>1. List(s) /\ Len(s) = 3 /\ s[1] = x /\ s[2] = y /\ s[3] = z
  BY DEF List, Range
<1>2. \A k \in 1..3 : \/ k = 1
                      \/ k = 2 /\ 1 \in 1..(k - 1)
                      \/ k = 3 /\ 1 \in 1..(k - 1) /\ 2 \in 1..(k - 1)
  OBVIOUS
<1> HIDE DEF s
<1>3. \/ /\ \A i \in 1..Len(s) : s[i] = None
         /\ FirstGiven(s, default) = default
      \/ \E k \in 1..Len(s) :
           /\ s[k] # None
           /\ \A i \in 1..(k - 1) : s[i] = None
           /\ FirstGiven(s, default) = s[k]
  BY <1>1, FirstOfGiven
<1>4. FirstGiven(s, default) =
        IF x # None THEN x ELSE IF y # None THEN y ELSE IF z # None THEN z ELSE default
  BY <1>1, <1>2, <1>3
<1>5. QED
  BY <1>4 DEF s

\* What a function makes of a finite set is finite.
LEMMA ImageIsFinite ==
  ASSUME NEW S, IsFiniteSet(S), NEW f
  PROVE  IsFiniteSet({f[x] : x \in S})
<1> DEFINE T == {f[x] : x \in S}
           g == [x \in S |-> f[x]]
<1>1. \A y \in T : \E x \in S : f[x] = y
  OBVIOUS
<1>2. g \in [S -> T] /\ \A x \in S : g[x] = f[x]
  OBVIOUS
<1> HIDE DEF T, g
<1>3. g \in Surjection(S, T)
  BY <1>1, <1>2 DEF Surjection
<1>4. IsFiniteSet(T)
  BY <1>3, FS_Surjection
<1>5. QED
  BY <1>4 DEF T

\* Claims as they are stored.
AreClaims(S) == IsFiniteSet(S) /\ \E n \in Nat : \A c \in S : c.id \in 1..n

\* Of claims there is a newest one.
LEMMA NewestIsOne ==
  ASSUME NEW S, AreClaims(S), S # {}
  PROVE  Newest(S) \in S
<1>1. PICK n \in Nat : \A c \in S : c.id \in 1..n
  BY DEF AreClaims
<1> DEFINE ids == {c.id : c \in S}
<1>2. ids \in SUBSET (1..n) /\ ids # {}
  BY <1>1
<1>3. Max(ids) \in ids /\ \A x \in ids : x <= Max(ids)
  BY <1>1, <1>2, MaxIsLargest
<1>4. PICK c \in S : c.id = Max(ids)
  BY <1>3
<1>5. \A d \in S : d.id <= c.id
  BY <1>3, <1>4
<1>6. QED
  BY <1>5 DEF Newest

\* A fact in won of a document family.
KrwFact(S, contested, family) ==
  SingleFact(S, contested, family[1], family[2], KrwValue)

\* What the claims of a fact come to.
IsSettled(fact, matching) ==
  \/ matching = {} /\ fact = None
  \/ matching # {} /\ fact = Unsettled
  \/ \E c \in matching :
       /\ c.value \in Nat
       /\ \A d \in matching : d.value = c.value
       /\ fact = [value |-> c.value, revision |-> c.revision]

\* case_facts.py:204-242: a fact is settled when all its claims say one thing in won.
LEMMA SettledFact ==
  ASSUME NEW S, AreClaims(S), NEW contested, NEW family
  PROVE  IsSettled(KrwFact(S, contested, family), OfType(S, family[1], {family[2]}))
<1> DEFINE matching == OfType(S, family[1], {family[2]})
           values == {KrwValue(c) : c \in matching}
           fact == KrwFact(S, contested, family)
<1>1. fact = IF matching = {} THEN None
             ELSE IF \/ <<family[1], family[2]>> \in contested
                     \/ None \in values
                     \/ Cardinality(values) # 1
             THEN Unsettled
             ELSE [value |-> CHOOSE v \in values : TRUE,
                   revision |-> Newest(matching).revision]
  BY DEF KrwFact, SingleFact
<1>2. matching \subseteq S
  BY DEF OfType
<1>3. AreClaims(matching)
  <2>1. IsFiniteSet(matching)
    BY <1>2, FS_Subset DEF AreClaims
  <2> HIDE DEF matching
  <2>2. QED
    BY <1>2, <2>1 DEF AreClaims
<1> HIDE DEF matching, fact
<1>4. IsFiniteSet(values)
  <2> DEFINE won == [c \in matching |-> KrwValue(c)]
  <2>1. values = {won[c] : c \in matching}
    OBVIOUS
  <2> HIDE DEF won, values
  <2>2. QED
    BY <1>3, <2>1, ImageIsFinite DEF AreClaims
<1>5. \A c \in matching : KrwValue(c) \in values
  OBVIOUS
<1> HIDE DEF values
<1>6. CASE /\ matching # {}
           /\ <<family[1], family[2]>> \notin contested
           /\ None \notin values
           /\ Cardinality(values) = 1
  <2>1. PICK v : values = {v}
    BY <1>4, <1>6, FS_Singleton
  <2>2. \A c \in matching : KrwValue(c) = v /\ v # None
    BY <1>5, <1>6, <2>1
  <2>3. \A c \in matching : c.value = v /\ v \in Nat
    BY <2>2 DEF KrwValue
  <2>4. Newest(matching) \in matching
    BY <1>3, <1>6, NewestIsOne
  <2>5. (CHOOSE w \in values : TRUE) = v
    BY <2>1
  <2>6. fact = [value |-> v, revision |-> Newest(matching).revision]
    BY <1>1, <1>6, <2>5
  <2>7. QED
    BY <2>3, <2>4, <2>6 DEF matching, fact, IsSettled
<1>7. CASE matching = {}
  BY <1>1, <1>7 DEF matching, fact, IsSettled
<1>8. CASE /\ matching # {}
           /\ ~ (/\ <<family[1], family[2]>> \notin contested
                 /\ None \notin values
                 /\ Cardinality(values) = 1)
  BY <1>1, <1>8 DEF matching, fact, IsSettled
<1>9. QED
  BY <1>6, <1>7, <1>8

\* Whatever two revisions say differently is contested.
Contests(S, contested) ==
  \A c, d \in S :
    /\ c.document = d.document
    /\ c.type = d.type
    /\ c.revision # d.revision
    /\ c.value # d.value
    => <<c.document, c.type>> \in contested

\* The claim is the only one of its type in the revision.
TheOnly(S, c, revision, type) ==
  /\ c \in S
  /\ c.revision = revision
  /\ c.type = type
  /\ \A d \in S : d.revision = revision /\ d.type = type => d = c

\* case_facts.py:265-280: a complete revision has one rent and one management fee.
LEMMA CompleteHasOneOfEach ==
  ASSUME NEW S, AreClaims(S), NEW revision, CompleteRevision(S, revision) # None
  PROVE  LET r == CompleteRevision(S, revision) IN
         \E rent, fee \in S :
           /\ TheOnly(S, rent, revision, "MONTHLY_RENT")
           /\ TheOnly(S, fee, revision, "MANAGEMENT_FEE")
           /\ r.revision = revision
           /\ r.at \in {rent.id, fee.id}
           /\ r.total = IF None \in {KrwValue(rent), KrwValue(fee)} THEN None
                        ELSE KrwValue(rent) + KrwValue(fee)
<1> DEFINE rents == {c \in S : c.revision = revision /\ c.type = "MONTHLY_RENT"}
           fees == {c \in S : c.revision = revision /\ c.type = "MANAGEMENT_FEE"}
           rent == CHOOSE c \in rents : TRUE
           fee == CHOOSE c \in fees : TRUE
           r == CompleteRevision(S, revision)
<1>1. /\ Cardinality(rents) = 1 /\ Cardinality(fees) = 1
      /\ r = [revision |-> revision, at |-> Newest({rent, fee}).id,
              total |-> IF None \in {KrwValue(rent), KrwValue(fee)} THEN None
                        ELSE KrwValue(rent) + KrwValue(fee)]
  BY DEF CompleteRevision
<1>2. IsFiniteSet(rents) /\ IsFiniteSet(fees)
  <2>1. rents \in SUBSET S /\ fees \in SUBSET S
    OBVIOUS
  <2> HIDE DEF rents, fees
  <2>2. QED
    BY <2>1, FS_Subset DEF AreClaims
<1>3. PICK a : rents = {a}
  <2> HIDE DEF rents
  <2>1. QED
    BY <1>1, <1>2, FS_Singleton
<1>4. PICK b : fees = {b}
  <2> HIDE DEF fees
  <2>1. QED
    BY <1>1, <1>2, FS_Singleton
<1>5. TheOnly(S, a, revision, "MONTHLY_RENT") /\ TheOnly(S, b, revision, "MANAGEMENT_FEE")
  BY <1>3, <1>4 DEF TheOnly
<1>6. rent = a /\ fee = b
  BY <1>3, <1>4
<1> HIDE DEF rent, fee, r, rents, fees
<1>7. Newest({a, b}) \in {a, b}
  <2>1. a \in S /\ b \in S
    BY <1>5 DEF TheOnly
  <2>2. AreClaims({a, b})
    <3>1. {a, b} \in SUBSET S
      BY <2>1
    <3>2. IsFiniteSet({a, b})
      BY <3>1, FS_Subset DEF AreClaims
    <3>3. QED
      BY <3>1, <3>2 DEF AreClaims
  <2>3. {a, b} # {}
    OBVIOUS
  <2>4. QED
    BY <2>2, <2>3, NewestIsOne
<1>8. r.at \in {a.id, b.id}
  BY <1>1, <1>6, <1>7
<1>9. QED
  BY <1>1, <1>5, <1>6, <1>8 DEF TheOnly, r

\* case_facts.py:244-312: a settled occupancy is the sum of a revision that nothing
\* contradicts.
LEMMA SettledOccupancy ==
  ASSUME NEW S, AreClaims(S), NEW contested, Contests(S, contested), NEW document
  PROVE  LET o == OccupancyOf(S, contested, document)
             Of(type) == OfType(S, document, {type})
         IN  \/ o = None
             \/ o = Unsettled
             \/ \E rent \in Of("MONTHLY_RENT"), fee \in Of("MANAGEMENT_FEE") :
                  /\ rent.value \in Nat /\ fee.value \in Nat
                  /\ fee.revision = rent.revision
                  /\ \A c \in Of("MONTHLY_RENT") : c.value = rent.value
                  /\ \A c \in Of("MANAGEMENT_FEE") : c.value = fee.value
                  /\ o = [value |-> rent.value + fee.value, revision |-> rent.revision]
<1> DEFINE scoped == OfType(S, document, {"MONTHLY_RENT", "MANAGEMENT_FEE"})
           all == {CompleteRevision(scoped, r) : r \in {c.revision : c \in scoped}}
           complete == all \ {None}
           totals == {r.total : r \in complete}
           latest == CHOOSE r \in complete : \A s \in complete : s.at <= r.at
           o == OccupancyOf(S, contested, document)
<1>1. o = IF scoped = {} THEN None
          ELSE IF \/ \E c \in scoped : <<document, c.type>> \in contested
                  \/ None \in totals
                  \/ Cardinality(totals) # 1
          THEN Unsettled
          ELSE [value |-> latest.total, revision |-> latest.revision]
  BY DEF OccupancyOf
<1>2. SUFFICES ASSUME \A c \in scoped : <<document, c.type>> \notin contested,
                      None \notin totals, Cardinality(totals) = 1, scoped # {}
               PROVE  \E rent \in OfType(S, document, {"MONTHLY_RENT"}),
                         fee \in OfType(S, document, {"MANAGEMENT_FEE"}) :
                        /\ rent.value \in Nat /\ fee.value \in Nat
                        /\ fee.revision = rent.revision
                        /\ \A c \in OfType(S, document, {"MONTHLY_RENT"}) :
                             c.value = rent.value
                        /\ \A c \in OfType(S, document, {"MANAGEMENT_FEE"}) :
                             c.value = fee.value
                        /\ o = [value |-> rent.value + fee.value,
                                revision |-> rent.revision]
  <2> HIDE DEF scoped, totals, o, latest
  <2>1. QED
    BY <1>1 DEF o
<1>3. AreClaims(scoped) /\ scoped \subseteq S
  <2>1. scoped \in SUBSET S
    BY DEF OfType
  <2> HIDE DEF scoped
  <2>2. IsFiniteSet(scoped)
    BY <2>1, FS_Subset DEF AreClaims
  <2>3. QED
    BY <2>1, <2>2 DEF AreClaims
<1>4. scoped = {c \in S : /\ c.document = document
                         /\ c.type \in {"MONTHLY_RENT", "MANAGEMENT_FEE"}}
  BY DEF OfType
<1>5. o = [value |-> latest.total, revision |-> latest.revision]
  BY <1>1, <1>2
<1> HIDE DEF scoped, o
<1>6. PICK n \in Nat : \A c \in scoped : c.id \in 1..n
  BY <1>3 DEF AreClaims
<1>7. \A r \in complete :
        r.at \in 1..n /\ \E revision : r = CompleteRevision(scoped, revision) /\ r # None
  <2>1. ASSUME NEW r \in complete
        PROVE  /\ r.at \in 1..n
               /\ \E revision : r = CompleteRevision(scoped, revision) /\ r # None
    <3>1. PICK revision : r = CompleteRevision(scoped, revision) /\ r # None
      OBVIOUS
    <3>2. \E rent, fee \in scoped : r.at \in {rent.id, fee.id}
      BY <1>3, <3>1, CompleteHasOneOfEach
    <3>3. QED
      BY <1>6, <3>1, <3>2
  <2>2. QED
    BY <2>1
<1>8. complete # {}
  <2>1. CASE complete = {}
    <3>1. totals = {}
      BY <2>1
    <3> HIDE DEF totals, complete
    <3>2. QED
      BY <1>2, <3>1, FS_EmptySet
  <2>2. QED
    BY <2>1
<1> HIDE DEF all, complete
<1>9. latest \in complete
  <2> DEFINE ids == {r.at : r \in complete}
  <2>1. ids \in SUBSET (1..n) /\ ids # {}
    BY <1>7, <1>8
  <2>2. Max(ids) \in ids /\ \A x \in ids : x <= Max(ids)
    BY <1>6, <2>1, MaxIsLargest
  <2>3. PICK r \in complete : r.at = Max(ids)
    BY <2>2
  <2>4. \A s \in complete : s.at <= r.at
    BY <2>2, <2>3
  <2>5. QED
    BY <2>4
<1> HIDE DEF latest
<1>10. PICK revision : latest = CompleteRevision(scoped, revision) /\ latest # None
  BY <1>7, <1>9
<1>11. PICK rent, fee \in scoped :
         /\ TheOnly(scoped, rent, revision, "MONTHLY_RENT")
         /\ TheOnly(scoped, fee, revision, "MANAGEMENT_FEE")
         /\ latest.revision = revision
         /\ latest.total = IF None \in {KrwValue(rent), KrwValue(fee)} THEN None
                           ELSE KrwValue(rent) + KrwValue(fee)
  BY <1>3, <1>10, CompleteHasOneOfEach
<1>12. latest.total # None
  BY <1>2, <1>9
<1>13. /\ rent.value \in Nat /\ fee.value \in Nat
       /\ latest.total = rent.value + fee.value
  BY <1>11, <1>12 DEF KrwValue
<1>14. ASSUME NEW type \in {"MONTHLY_RENT", "MANAGEMENT_FEE"},
              NEW c \in scoped, c.type = type, NEW one \in scoped,
              TheOnly(scoped, one, revision, type)
       PROVE  c.value = one.value
  <2>1. CASE c.revision = revision
    BY <1>14, <2>1 DEF TheOnly
  <2>2. CASE c.revision # revision
    <3>1. /\ c \in S /\ one \in S /\ c.document = one.document /\ c.type = one.type
          /\ c.document = document /\ one.revision = revision
      BY <1>3, <1>4, <1>14 DEF TheOnly
    <3>2. <<c.document, c.type>> \notin contested
      BY <1>2, <3>1
    <3>3. QED
      BY <2>2, <3>1, <3>2 DEF Contests
  <2>3. QED
    BY <2>1, <2>2
<1>15. /\ OfType(S, document, {"MONTHLY_RENT"}) = {c \in scoped : c.type = "MONTHLY_RENT"}
       /\ OfType(S, document, {"MANAGEMENT_FEE"}) =
            {c \in scoped : c.type = "MANAGEMENT_FEE"}
  BY <1>4 DEF OfType
<1>16. QED
  BY <1>5, <1>11, <1>13, <1>14, <1>15 DEF TheOnly

\* What documents say of a category, as DocumentSays says it of the active case.
SaidBy(S, category, revision, amount) ==
  IF category = "MONTHLY_OCCUPANCY"
  THEN \E document \in {"COMMERCIAL_LEASE", "PROPERTY_LISTING"} :
         \E rent \in OfType(S, document, {"MONTHLY_RENT"}),
            fee \in OfType(S, document, {"MANAGEMENT_FEE"}) :
           /\ rent.revision = revision /\ fee.revision = revision
           /\ \A c \in OfType(S, document, {"MONTHLY_RENT"}) : c.value = rent.value
           /\ \A c \in OfType(S, document, {"MANAGEMENT_FEE"}) : c.value = fee.value
           /\ amount = rent.value + fee.value
  ELSE \E family \in Range(Families(category)) :
         \E claim \in OfType(S, family[1], {family[2]}) :
           /\ claim.revision = revision
           /\ \A c \in OfType(S, family[1], {family[2]}) : c.value = claim.value
           /\ amount = claim.value

\* The families that may name a category are at most two.
LEMMA FamiliesAreList ==
  ASSUME NEW category
  PROVE  List(Families(category))
<1>1. \A a, b : List(<<a, b>>) /\ List(<<a>>) /\ List(<<>>)
  BY DEF List, Range
<1> DEFINE one == <<"COMMERCIAL_LEASE", "LEASE_DEPOSIT">>
           two == <<"PROPERTY_LISTING", "LEASE_DEPOSIT">>
           three == <<"COMMERCIAL_LEASE", "KEY_MONEY">>
           four == <<"PROPERTY_LISTING", "KEY_MONEY">>
           five == <<"INTERIOR_QUOTE", "QUOTE_TOTAL">>
           six == <<"EQUIPMENT_QUOTE", "QUOTE_TOTAL">>
<1>2. Families(category) = CASE category = "DEPOSIT" -> <<one, two>>
                             [] category = "ACQUISITION_OR_PREMIUM" -> <<three, four>>
                             [] category = "CONSTRUCTION" -> <<five>>
                             [] category = "EQUIPMENT" -> <<six>>
                             [] OTHER -> <<>>
  BY DEF Families
<1> HIDE DEF one, two, three, four, five, six
<1>3. Families(category) \in {<<one, two>>, <<three, four>>, <<five>>, <<six>>, <<>>}
  BY <1>2
<1>4. QED
  BY <1>1, <1>3

\* The fact of a category is that of the first family that is named.
LEMMA FactOfFamilies ==
  ASSUME NEW S, NEW contested, NEW category, category # "MONTHLY_OCCUPANCY"
  PROVE  LET families == Families(category)
             fact == CostFact(S, contested, category)
         IN  \/ fact = None
             \/ \E k \in 1..Len(families) :
                  /\ fact # None
                  /\ fact = KrwFact(S, contested, families[k])
                  /\ \A i \in 1..(k - 1) : KrwFact(S, contested, families[i]) = None
<1> DEFINE families == Families(category)
           facts == [i \in DOMAIN families |-> KrwFact(S, contested, families[i])]
           fact == CostFact(S, contested, category)
<1>1. fact = FirstGiven(facts, None)
  BY DEF CostFact, KrwFact
<1>2. List(families)
  BY FamiliesAreList
<1>3. /\ DOMAIN facts = DOMAIN families /\ facts = [i \in DOMAIN families |-> facts[i]]
      /\ \A i \in DOMAIN families : facts[i] = KrwFact(S, contested, families[i])
  OBVIOUS
<1> HIDE DEF families, facts
<1>4. List(facts) /\ Len(facts) = Len(families)
  BY <1>2, <1>3, MappedIsList
<1>5. DOMAIN families = 1..Len(families) /\ Len(families) \in Nat
  BY <1>2, ListBasics
<1>6. \/ fact = None
      \/ \E k \in 1..Len(facts) :
           /\ facts[k] # None
           /\ \A i \in 1..(k - 1) : facts[i] = None
           /\ fact = facts[k]
  BY <1>1, <1>4, FirstOfGiven
<1> HIDE DEF fact
<1>7. \A k \in 1..Len(facts) :
        /\ facts[k] = KrwFact(S, contested, families[k])
        /\ \A i \in 1..(k - 1) : facts[i] = KrwFact(S, contested, families[i])
  BY <1>3, <1>4, <1>5
<1>8. QED
  BY <1>4, <1>6, <1>7 DEF fact, families

\* case_facts.py:128-205: what a case says of a category is nothing, or left open, or what
\* a document says and no other contradicts.
LEMMA CaseFact ==
  ASSUME NEW S, AreClaims(S), NEW contested, Contests(S, contested), NEW category
  PROVE  LET fact == CostFact(S, contested, category) IN
         \/ fact \in {None, Unsettled}
         \/ \E revision : \E amount \in Nat :
              /\ fact = [value |-> amount, revision |-> revision]
              /\ SaidBy(S, category, revision, amount)
<1> DEFINE fact == CostFact(S, contested, category)
<1>1. CASE category = "MONTHLY_OCCUPANCY"
  <2> DEFINE Of(document) == OccupancyOf(S, contested, document)
  <2>1. fact = OccupancyFact(S, contested)
    BY <1>1 DEF CostFact
  <2>2. fact \in {None, Of("COMMERCIAL_LEASE"), Of("PROPERTY_LISTING")}
    BY <2>1, FirstOfTwo DEF OccupancyFact
  <2>3. ASSUME NEW document \in {"COMMERCIAL_LEASE", "PROPERTY_LISTING"}
        PROVE  \/ Of(document) \in {None, Unsettled}
               \/ \E revision : \E amount \in Nat :
                    /\ Of(document) = [value |-> amount, revision |-> revision]
                    /\ SaidBy(S, category, revision, amount)
    <3>1. CASE Of(document) \in {None, Unsettled}
      BY <3>1
    <3>2. CASE Of(document) \notin {None, Unsettled}
      <4>1. PICK rent \in OfType(S, document, {"MONTHLY_RENT"}),
                 fee \in OfType(S, document, {"MANAGEMENT_FEE"}) :
              /\ rent.value \in Nat /\ fee.value \in Nat
              /\ fee.revision = rent.revision
              /\ \A c \in OfType(S, document, {"MONTHLY_RENT"}) : c.value = rent.value
              /\ \A c \in OfType(S, document, {"MANAGEMENT_FEE"}) : c.value = fee.value
              /\ Of(document) = [value |-> rent.value + fee.value,
                                 revision |-> rent.revision]
        BY <3>2, SettledOccupancy
      <4>2. rent.value + fee.value \in Nat
        BY <4>1
      <4>3. SaidBy(S, category, rent.revision, rent.value + fee.value)
        BY <1>1, <4>1 DEF SaidBy
      <4>4. QED
        BY <4>1, <4>2, <4>3
    <3>3. QED
      BY <3>1, <3>2
  <2> HIDE DEF Of
  <2>4. QED
    BY <2>2, <2>3
<1>2. CASE category # "MONTHLY_OCCUPANCY"
  <2> DEFINE families == Families(category)
  <2>1. SUFFICES ASSUME fact \notin {None, Unsettled}
                 PROVE  \E revision : \E amount \in Nat :
                          /\ fact = [value |-> amount, revision |-> revision]
                          /\ SaidBy(S, category, revision, amount)
    OBVIOUS
  <2>2. PICK k \in 1..Len(families) : fact = KrwFact(S, contested, families[k])
    BY <1>2, <2>1, FactOfFamilies
  <2>3. families[k] \in Range(families)
    <3>1. List(families)
      BY FamiliesAreList
    <3> HIDE DEF families
    <3>2. QED
      BY <3>1, ListBasics
  <2> DEFINE family == families[k]
             matching == OfType(S, family[1], {family[2]})
  <2>4. PICK c \in matching :
          /\ c.value \in Nat
          /\ \A d \in matching : d.value = c.value
          /\ fact = [value |-> c.value, revision |-> c.revision]
    <3> HIDE DEF family
    <3>1. fact = KrwFact(S, contested, family)
      BY <2>2 DEF family
    <3>2. IsSettled(KrwFact(S, contested, family), matching)
      BY SettledFact
    <3>3. QED
      BY <2>1, <3>1, <3>2 DEF IsSettled
  <2>5. SaidBy(S, category, c.revision, c.value)
    BY <1>2, <2>3, <2>4 DEF SaidBy
  <2>6. QED
    BY <2>4, <2>5
<1>3. QED
  BY <1>1, <1>2

\* case_facts.py:204-242: what the deciding family contradicts itself about is left open.
LEMMA ContestedFact ==
  ASSUME NEW S, AreClaims(S), NEW contested, NEW category, Families(category) # <<>>,
         NEW c, NEW d, c.value # d.value,
         {c, d} \subseteq OfType(S, Families(category)[1][1], {Families(category)[1][2]})
  PROVE  CostFact(S, contested, category) = Unsettled
<1> DEFINE families == Families(category)
           first == families[1]
           facts == [i \in DOMAIN families |-> KrwFact(S, contested, families[i])]
<1>1. category # "MONTHLY_OCCUPANCY"
  BY DEF Families
<1>2. KrwFact(S, contested, first) = Unsettled
  <2> DEFINE matching == OfType(S, first[1], {first[2]})
  <2>1. c \in matching /\ d \in matching
    OBVIOUS
  <2> HIDE DEF first
  <2>2. IsSettled(KrwFact(S, contested, first), matching)
    BY SettledFact
  <2>3. QED
    BY <2>1, <2>2 DEF IsSettled
<1>3. Unsettled # None
  BY BuilderAssumption
<1>4. CostFact(S, contested, category) = FirstGiven(facts, None)
  BY <1>1 DEF CostFact, KrwFact
<1>5. List(families)
  BY FamiliesAreList
<1>6. /\ DOMAIN facts = DOMAIN families /\ facts = [i \in DOMAIN families |-> facts[i]]
      /\ \A i \in DOMAIN families : facts[i] = KrwFact(S, contested, families[i])
  OBVIOUS
<1>7. families # <<>>
  OBVIOUS
<1> HIDE DEF families, facts
<1>8. List(facts) /\ Len(facts) = Len(families)
  BY <1>5, <1>6, MappedIsList
<1>9. DOMAIN families = 1..Len(families) /\ Len(families) \in Nat /\ Len(families) # 0
  BY <1>5, <1>7, ListBasics DEF List
<1>10. facts[1] = Unsettled
  BY <1>2, <1>6, <1>9 DEF first
<1>11. \/ /\ \A i \in 1..Len(facts) : facts[i] = None
          /\ FirstGiven(facts, None) = None
       \/ \E k \in 1..Len(facts) :
            /\ facts[k] # None
            /\ \A i \in 1..(k - 1) : facts[i] = None
            /\ FirstGiven(facts, None) = facts[k]
  BY <1>8, FirstOfGiven
<1>12. FirstGiven(facts, None) = Unsettled
  <2>1. 1 \in 1..Len(facts)
    BY <1>8, <1>9
  <2>2. \A k \in 1..Len(facts) : k # 1 => 1 \in 1..(k - 1)
    BY <1>8, <1>9
  <2> HIDE DEF Unsettled
  <2>3. QED
    BY <1>3, <1>10, <1>11, <2>1, <2>2
<1>13. QED
  BY <1>4, <1>12

-----------------------------------------------------------------------------
(* Lines: what the resolver finds, and what a draft is calculated from.     *)

\* A line that a document has put in.
FromDocument(line, S, category) ==
  \E revision : \E amount \in Nat :
    /\ line = CostLine(Exactly(amount), "USER_INPUT", DocumentRef(revision))
    /\ SaidBy(S, category, revision, amount)

\* case_facts.py:57-90: so a line of the case is open or from a document.
LEMMA CaseLine ==
  ASSUME NEW S, AreClaims(S), NEW contested, Contests(S, contested), NEW category
  PROVE  LET line == CaseCostLine(S, contested, category) IN
         line \in {None, UnknownLine} \/ FromDocument(line, S, category)
<1> DEFINE fact == CostFact(S, contested, category)
           line == CaseCostLine(S, contested, category)
<1>1. line = CostLineOf(fact)
  BY DEF CaseCostLine
<1>2. \/ fact \in {None, Unsettled}
      \/ \E revision : \E amount \in Nat :
           /\ fact = [value |-> amount, revision |-> revision]
           /\ SaidBy(S, category, revision, amount)
  BY CaseFact
<1> HIDE DEF fact, line
<1>3. fact = None => line = None
  BY <1>1 DEF CostLineOf
<1>4. fact = Unsettled => line \in {None, UnknownLine}
  BY <1>1 DEF CostLineOf, Unsettled
<1>5. ASSUME NEW revision, NEW amount \in Nat,
             fact = [value |-> amount, revision |-> revision],
             SaidBy(S, category, revision, amount)
      PROVE  line = None \/ FromDocument(line, S, category)
  <2>1. amount # None
    BY FinanceAssumption
  <2>2. line \in {None, CostLine(Exactly(amount), "USER_INPUT", DocumentRef(revision))}
    BY <1>1, <1>5, <2>1 DEF CostLineOf
  <2>3. QED
    BY <1>5, <2>2 DEF FromDocument
<1>6. line \in {None, UnknownLine} \/ FromDocument(line, S, category)
  BY <1>2, <1>3, <1>4, <1>5
<1>7. QED
  BY <1>6 DEF line

\* The line of an official reference.
OfficialLine(inputs, source, category) ==
  CASE category = "FRANCHISE_INITIAL_FEES" -> LineOf(inputs.disclosure, source)
    [] category = "MONTHLY_LABOR" -> LineOf(inputs.labor, source)
    [] category = "MONTHLY_EMPLOYER_ONCOST" -> LineOf(inputs.oncost, source)
    [] category = "MONTHLY_OCCUPANCY" -> LineOf(inputs.rent, source)
    [] OTHER -> None

\* The line of what the documents of a case say.
CaseLineOf(inputs, source, category) ==
  CaseCostLine(ClaimsOf(inputs, source), inputs.contested, category)

\* case_facts.py:484-509: the order in which the resolver looks for a line.
LEMMA ResolvedLine ==
  ASSUME NEW inputs, NEW source, NEW category, NEW fallback
  PROVE  LET line == ResolveCostLine(inputs, source, category, fallback)
             entered == PropertyLine(inputs.property, source, category)
             said == CaseLineOf(inputs, source, category)
             official == OfficialLine(inputs, source, category)
         IN  line = IF entered # None THEN entered
                    ELSE IF said # None THEN said
                    ELSE IF official # None THEN official
                    ELSE fallback
<1>1. ResolveCostLine(inputs, source, category, fallback) =
        FirstGiven(<<PropertyLine(inputs.property, source, category),
                     CaseLineOf(inputs, source, category),
                     OfficialLine(inputs, source, category)>>, fallback)
  BY DEF ResolveCostLine, CaseLineOf, OfficialLine
<1>2. \A x, y, z : FirstGiven(<<x, y, z>>, fallback) =
           IF x # None THEN x ELSE IF y # None THEN y ELSE IF z # None THEN z ELSE fallback
  BY FirstOfThree
<1>3. QED
  BY <1>1, <1>2, Zenon

\* property_benchmark.py, labor_benchmark.py, labor_oncost.py: the line of an official
\* reference is a disclosure or no fact, and never the user's word.
LEMMA OfficialLines ==
  ASSUME NEW ctx, NEW source, NEW category
  PROVE  LET line == OfficialLine(InputsOf(ctx), source, category) IN
         \/ line = None
         \/ source \in DOMAIN ctx.disclosure /\ line = ctx.disclosure[source]
         \/ line.provenance \in {"BENCHMARK", "DERIVED", "UNKNOWN"}
<1> DEFINE seeds == SelectSeeds(ctx.founder)
           wage == OnlyReference(ctx.wages)
           insurance == OnlyReference(ctx.insurances)
           inputs == InputsOf(ctx)
<1>1. \/ LineOf(inputs.disclosure, source) = None
      \/ /\ source \in DOMAIN ctx.disclosure
         /\ LineOf(inputs.disclosure, source) = ctx.disclosure[source]
  <2>1. inputs.disclosure = ctx.disclosure
    BY DEF InputsOf, FinancialInputs
  <2>2. QED
    BY <2>1 DEF LineOf
<1>2. LineOf(inputs.rent, source) # None =>
        LineOf(inputs.rent, source).provenance = "BENCHMARK"
  <2>1. inputs.rent = [s \in {t \in Sources(seeds) :
                           RentLine(ctx.rents, t, ProfileOf(seeds, t)) # None} |->
                         RentLine(ctx.rents, s, ProfileOf(seeds, s))]
    BY DEF InputsOf, FinancialInputs, LinesBySource
  <2>2. \A s, p : RentLine(ctx.rents, s, p) # None =>
          RentLine(ctx.rents, s, p).provenance = "BENCHMARK"
    BY DEF RentLine, BenchmarkLine
  <2>3. QED
    BY <2>1, <2>2 DEF LineOf
<1>3. LineOf(inputs.labor, source) # None =>
        LineOf(inputs.labor, source).provenance = "BENCHMARK"
  <2>1. inputs.labor = [s \in {t \in Sources(seeds) :
                           LaborLine(wage, t, ProfileOf(seeds, t)) # None} |->
                         LaborLine(wage, s, ProfileOf(seeds, s))]
    BY DEF InputsOf, FinancialInputs, LinesBySource
  <2>2. \A s, p : LaborLine(wage, s, p) # None =>
          LaborLine(wage, s, p).provenance = "BENCHMARK"
    BY DEF LaborLine, BenchmarkLine
  <2>3. QED
    BY <2>1, <2>2 DEF LineOf
<1>4. LineOf(inputs.oncost, source) # None =>
        LineOf(inputs.oncost, source).provenance \in {"BENCHMARK", "DERIVED", "UNKNOWN"}
  <2>1. inputs.oncost = [s \in {t \in Sources(seeds) :
                           OncostLine(wage, insurance, t, ProfileOf(seeds, t)) # None} |->
                         OncostLine(wage, insurance, s, ProfileOf(seeds, s))]
    BY DEF InputsOf, FinancialInputs, LinesBySource
  <2>2. \A s, p : OncostLine(wage, insurance, s, p).provenance
                    \in {"BENCHMARK", "DERIVED", "UNKNOWN"}
    BY DEF OncostLine, BenchmarkLine, CostLine, UnknownLine
  <2>3. QED
    BY <2>1, <2>2 DEF LineOf
<1> HIDE DEF inputs
<1>5. OfficialLine(inputs, source, category) \in
        {LineOf(inputs.disclosure, source), LineOf(inputs.labor, source),
         LineOf(inputs.oncost, source), LineOf(inputs.rent, source), None}
  BY DEF OfficialLine
<1>6. QED
  BY <1>1, <1>2, <1>3, <1>4, <1>5 DEF inputs

\* So an official reference is not the user's word.
LEMMA OfficialIsNotTheUsers ==
  ASSUME NEW ctx, NEW source, NEW category,
         \A s \in DOMAIN ctx.disclosure : ctx.disclosure[s].provenance # "USER_INPUT"
  PROVE  LET line == OfficialLine(InputsOf(ctx), source, category) IN
         line # None => line.provenance # "USER_INPUT"
<1> DEFINE line == OfficialLine(InputsOf(ctx), source, category)
<1>1. \/ line = None
      \/ source \in DOMAIN ctx.disclosure /\ line = ctx.disclosure[source]
      \/ line.provenance \in {"BENCHMARK", "DERIVED", "UNKNOWN"}
  BY OfficialLines
<1> HIDE DEF line
<1>2. line # None => line.provenance # "USER_INPUT"
  BY <1>1
<1>3. QED
  BY <1>2 DEF line

\* What a line of a draft is: no cost of independents, or what the resolver found.
LineIn(ctx, source, category, line) ==
  \/ category = "FRANCHISE_INITIAL_FEES" /\ line.provenance = "DERIVED"
  \/ \E fallback : /\ fallback.provenance # "USER_INPUT"
                   /\ line = ResolveCostLine(InputsOf(ctx), source, category, fallback)

\* The inputs and sums of a draft come from these lines.
Calculated(ctx, d, lines) ==
  /\ InitialCategory \subseteq DOMAIN lines
  /\ d.inputs = DecisionInputs(lines, d.family, ctx.evidence)
  /\ \E rate, sales : d.finance = CalculateFinance(lines, rate, sales)
  /\ \A category \in DOMAIN lines : LineIn(ctx, d.source, category, lines[category])

\* simple_proposal.py:255-420, proposal_franchise.py: the inputs and sums of a draft come
\* from lines that the resolver found.
LEMMA DraftIsCalculated ==
  ASSUME NEW ctx, List(ctx.universe), NEW d \in Range(Drafts(ctx))
  PROVE  \E lines : Calculated(ctx, d, lines)
<1>1. d \in IndependentDrafts(ctx) \cup FranchiseDrafts(ctx)
  BY DraftsOfContext
<1>2. CASE d \in IndependentDrafts(ctx)
  <2>1. PICK seed : d = IndependentDraft(ctx, InputsOf(ctx), seed)
    BY <1>2 DEF IndependentDrafts
  <2> DEFINE lines == IndependentLines(seed, InputsOf(ctx))
  <2>2. d = Draft(ctx, "INDEPENDENT", seed.id, lines, None, seed.profile, None)
    BY <2>1 DEF IndependentDraft
  <2>3. /\ DOMAIN lines = InitialCategory \cup MonthlyCategory
        /\ \A category \in DOMAIN lines :
             lines[category] =
               IF category = "FRANCHISE_INITIAL_FEES"
               THEN CostLine(Exactly(0), "DERIVED", None)
               ELSE ResolveCostLine(InputsOf(ctx), seed.id, category,
                      IF category = "MONTHLY_EMPLOYER_ONCOST" THEN UnknownLine
                      ELSE IndependentFallback(seed.id, seed.profile.costs[category]))
    BY DEF IndependentLines
  <2>4. \A category :
          (IF category = "MONTHLY_EMPLOYER_ONCOST" THEN UnknownLine
           ELSE IndependentFallback(seed.id, seed.profile.costs[category])).provenance
            # "USER_INPUT"
    BY DEF UnknownLine, IndependentFallback, CostLine
  <2> HIDE DEF lines
  <2>5. ASSUME NEW category \in DOMAIN lines
        PROVE  LineIn(ctx, seed.id, category, lines[category])
    <3>1. CASE category = "FRANCHISE_INITIAL_FEES"
      BY <2>3, <3>1 DEF LineIn, CostLine
    <3>2. CASE category # "FRANCHISE_INITIAL_FEES"
      BY <2>3, <2>4, <3>2 DEF LineIn
    <3>3. QED
      BY <3>1, <3>2
  <2>6. /\ d.source = seed.id
        /\ d.inputs = DecisionInputs(lines, d.family, ctx.evidence)
        /\ d.finance = CalculateFinance(lines, None, seed.profile)
    BY <2>2 DEF Draft
  <2>7. QED
    BY <2>3, <2>5, <2>6 DEF Calculated
<1>3. CASE d \in FranchiseDrafts(ctx)
  <2>1. PICK brand : d = FranchiseDraft(ctx, InputsOf(ctx), brand)
    BY <1>3 DEF FranchiseDrafts
  <2> DEFINE lines == FranchiseLines(brand, InputsOf(ctx))
             Fallback(category) ==
               FranchiseFallback(brand.id, category, brand.profile, FranchiseAssumption)
  <2>2. PICK rate, franchise :
          d = Draft(ctx, "FRANCHISE", brand.id, lines, rate, FranchiseSales, franchise)
    BY <2>1 DEF FranchiseDraft
  <2>3. /\ DOMAIN lines = InitialCategory \cup RegisteredMonthlyCategory
        /\ \A category \in DOMAIN lines :
             lines[category] =
               ResolveCostLine(InputsOf(ctx), brand.id, category, Fallback(category))
    BY DEF FranchiseLines
  <2>4. \A category : Fallback(category).provenance # "USER_INPUT"
    BY DEF FranchiseFallback, CostLine, UnknownLine
  <2> HIDE DEF lines, Fallback
  <2>5. \A category \in DOMAIN lines : LineIn(ctx, brand.id, category, lines[category])
    BY <2>3, <2>4 DEF LineIn
  <2>6. /\ d.source = brand.id
        /\ d.inputs = DecisionInputs(lines, d.family, ctx.evidence)
        /\ d.finance = CalculateFinance(lines, rate, FranchiseSales)
    BY <2>2 DEF Draft
  <2>7. QED
    BY <2>3, <2>5, <2>6 DEF Calculated
<1>4. QED
  BY <1>1, <1>2, <1>3

-----------------------------------------------------------------------------
(* Cases: what a source, a candidate and a kept result stand for.           *)

\* The family a source is of, and the id of its candidate.
FamilyOf(source) == IF source \in Sources(Seeds) THEN "INDEPENDENT" ELSE "FRANCHISE"

\* The id of the candidate of a source.
IdOf(source) == CandidateId(FamilyOf(source), source)

\* A case is a candidate of a source.
IsCase(id) == \E source \in CaseSource : id = IdOf(source)

\* A candidate as a result keeps it.
KeptCandidate(c, cases) ==
  /\ c.source \in CaseSource
  /\ c.family = FamilyOf(c.source)
  /\ c.id = IdOf(c.source)
  /\ c.franchise # None => c.family = "FRANCHISE"
  /\ c.property # None => c.id \in cases

\* A result as it is kept: of a version so far, about sources and cases so far.
KeptBundle(b, newest, cases) ==
  /\ b.version \in 1..newest
  /\ List(b.candidates)
  /\ \A c \in Range(b.candidates) : KeptCandidate(c, cases)

\* No line of the result is of the user.
NoUserInputs(b) ==
  \A c \in Range(b.candidates) : \A category \in DOMAIN c.inputs :
    c.inputs[category].provenance # "USER_INPUT"

\* An item that a tool may return: a brand that is listed, or a fee of a numbered version.
SoundItem(tool, item) ==
  /\ tool = "list_franchise_universe" =>
       /\ item.id \in ListedBrands
       /\ {"initial", "refs", "missing"} \subseteq DOMAIN item.profile
       /\ List(item.profile.refs)
  /\ tool = "get_franchise_disclosure" => item.version \in Nat

\* What is retrieved has only items that its tools may return.
SoundAnswers(results) ==
  \A outcome \in Range(results) :
    /\ {"tool", "data"} \subseteq DOMAIN outcome
    /\ \A item \in Range(outcome.data) : SoundItem(outcome.tool, item)

\* Nothing has happened to the case before the first result.
UntouchedCase ==
  /\ version = 1
  /\ activeCase = None
  /\ selections = {} /\ claims = {} /\ conflicts = {}
  /\ terms = <<>>
  /\ queued = None

\* Claims are of cases, and no two have one id.
ClaimsKept ==
  /\ IsFiniteSet(claims)
  /\ \A c \in claims :
       /\ c.id \in 1..(10 * version + 9)
       /\ IsCase(c.case)
       /\ c.source = c.case[2]
       /\ c.revision \in DOMAIN Forms
  /\ \A c, d \in claims : c.id = d.id => c = d

\* Two claims about the same fact of the same case.
SameFact(c, d) == c.case = d.case /\ c.document = d.document /\ c.type = d.type

\* A conflict is about one fact, and what two revisions say differently of a fact is one.
ConflictsKept ==
  /\ \A k \in conflicts :
       /\ k \subseteq 1..(10 * version + 9)
       /\ \A c, d \in claims : c.id \in k /\ d.id \in k => SameFact(c, d)
  /\ \A c, d \in claims :
       SameFact(c, d) /\ c.revision # d.revision /\ c.value # d.value =>
         \E k \in conflicts : c.id \in k /\ d.id \in k

\* The terms of a case are of its source.
TermsKept ==
  \A case \in DOMAIN terms :
    IsCase(case) /\ terms[case] \in Terms /\ terms[case].source = case[2]

\* An id names its source.
LEMMA IdsAreOfSources ==
  \A s, t : (IdOf(s) = IdOf(t) => s = t) /\ IdOf(s)[2] = s
<1>1. \A f, g, s, t :
        (CandidateId(f, s) = CandidateId(g, t) => s = t) /\ CandidateId(f, s)[2] = s
  BY DEF CandidateId
<1>2. QED
  BY <1>1 DEF IdOf

\* A registered model has a source of the registry.
LEMMA SelectedAreSources ==
  ASSUME NEW who, NEW seed \in Range(SelectSeeds(who))
  PROVE  seed.id \in Sources(Seeds)
<1>1. seed \in Range(Seeds)
  BY SelectedSeeds
<1>2. Range(Seeds) = {Seeds[i] : i \in 1..Len(Seeds)} /\ DOMAIN Seeds = 1..Len(Seeds)
  BY ListBasics, BuilderAssumption
<1>3. QED
  BY <1>1, <1>2 DEF Sources

\* The brands that may be proposed are brands that a tool lists.
ListsKnown(universe) ==
  List(universe) /\ \A brand \in Range(universe) : brand.id \in ListedBrands

\* What a draft of the context stands for.
IsDraft(ctx, d) ==
  /\ d.source \in CaseSource
  /\ d.family = FamilyOf(d.source)
  /\ d.id = IdOf(d.source)
  /\ d.franchise # None => d.family = "FRANCHISE"
  /\ d.property = PropertyOf(ctx, d.source)
  /\ {"id", "family", "source", "inputs", "finance", "property", "franchise"}
       \subseteq DOMAIN d

\* What a draft stands for.
LEMMA DraftIsOfCase ==
  ASSUME NEW ctx, ListsKnown(ctx.universe), NEW d \in Range(Drafts(ctx))
  PROVE  IsDraft(ctx, d)
<1>1. d \in IndependentDrafts(ctx) \cup FranchiseDrafts(ctx)
  BY DraftsOfContext DEF ListsKnown
<1>2. CASE d \in IndependentDrafts(ctx)
  <2>1. PICK seed \in Range(SelectSeeds(ctx.founder)) :
          d = IndependentDraft(ctx, InputsOf(ctx), seed)
    BY <1>2 DEF IndependentDrafts
  <2>2. PICK lines :
          d = Draft(ctx, "INDEPENDENT", seed.id, lines, None, seed.profile, None)
    BY <2>1 DEF IndependentDraft
  <2>3. seed.id \in Sources(Seeds)
    BY SelectedAreSources
  <2>4. /\ d.source = seed.id /\ d.family = "INDEPENDENT" /\ d.franchise = None
        /\ d.id = CandidateId("INDEPENDENT", seed.id)
        /\ d.property = PropertyOf(ctx, seed.id)
        /\ {"id", "family", "source", "inputs", "finance", "property", "franchise"}
             \subseteq DOMAIN d
    BY <2>2 DEF Draft
  <2>5. QED
    BY <2>3, <2>4 DEF IsDraft, CaseSource, FamilyOf, IdOf
<1>3. CASE d \in FranchiseDrafts(ctx)
  <2>1. PICK brand \in Range(ctx.universe) : d = FranchiseDraft(ctx, InputsOf(ctx), brand)
    BY <1>3 DEF FranchiseDrafts
  <2>2. PICK lines, rate, franchise :
          d = Draft(ctx, "FRANCHISE", brand.id, lines, rate, FranchiseSales, franchise)
    BY <2>1 DEF FranchiseDraft
  <2>3. brand.id \in ListedBrands /\ brand.id \notin Sources(Seeds)
    BY CaseAssumption DEF ListsKnown
  <2>4. /\ d.source = brand.id /\ d.family = "FRANCHISE"
        /\ d.id = CandidateId("FRANCHISE", brand.id)
        /\ d.property = PropertyOf(ctx, brand.id)
        /\ {"id", "family", "source", "inputs", "finance", "property", "franchise"}
             \subseteq DOMAIN d
    BY <2>2 DEF Draft
  <2>5. QED
    BY <2>3, <2>4 DEF IsDraft, CaseSource, FamilyOf, IdOf
<1>4. QED
  BY <1>1, <1>2, <1>3

\* A candidate is a draft, with the decision on one that has its id.
ShowsDrafts(ctx, c, d, e) ==
  /\ d \in Range(Drafts(ctx)) /\ e \in Range(Drafts(ctx))
  /\ IsDraft(ctx, d) /\ IsDraft(ctx, e)
  /\ d.source = e.source
  /\ c.id = d.id /\ c.family = d.family /\ c.source = d.source
  /\ c.inputs = d.inputs /\ c.finance = d.finance
  /\ c.property = d.property /\ c.franchise = d.franchise
  /\ c.decision.status = Status(RankingInput(ctx, e))

\* simple_proposal.py:220-245: what a candidate shows is what drafts of its source say.
LEMMA CandidateShowsDrafts ==
  ASSUME NEW ctx, ListsKnown(ctx.universe), NEW c, FromDrafts(ctx, c)
  PROVE  \E d, e : ShowsDrafts(ctx, c, d, e)
<1>1. PICK d, e, rank, trace :
        /\ d \in Range(Drafts(ctx)) /\ e \in Range(Drafts(ctx)) /\ d.id = e.id
        /\ c = Finished(d, Decision(RankingInput(ctx, e), rank, trace))
  BY DEF FromDrafts
<1>2. IsDraft(ctx, d) /\ IsDraft(ctx, e)
  BY <1>1, DraftIsOfCase
<1>3. d.source = e.source
  <2>1. d.id = IdOf(d.source) /\ e.id = IdOf(e.source)
    BY <1>2 DEF IsDraft
  <2>2. QED
    BY <1>1, <2>1, IdsAreOfSources
<1> DEFINE decision == Decision(RankingInput(ctx, e), rank, trace)
<1>4. decision.status = Status(RankingInput(ctx, e))
  BY DEF Decision
<1> HIDE DEF decision
<1>5. /\ c.decision = decision
      /\ c.id = d.id /\ c.family = d.family /\ c.source = d.source
      /\ c.inputs = d.inputs /\ c.finance = d.finance
      /\ c.property = d.property /\ c.franchise = d.franchise
  <2>1. c = [field \in DOMAIN d \cup {"decision"} |->
               IF field = "decision" THEN decision ELSE d[field]]
    BY <1>1 DEF Finished, decision
  <2>2. {"id", "family", "source", "inputs", "finance", "property", "franchise"}
          \subseteq DOMAIN d
    BY <1>2 DEF IsDraft
  <2>3. QED
    BY <2>1, <2>2
<1>6. QED
  BY <1>1, <1>2, <1>3, <1>4, <1>5 DEF ShowsDrafts

\* simple_proposal.py:130-245: a result that is built is kept.
LEMMA BuiltIsKept ==
  ASSUME NEW ctx, ListsKnown(ctx.universe), Drafts(ctx) # <<>>,
         NEW newest \in Nat, ctx.version \in 1..newest, NEW cases,
         \A source \in CaseSource : PropertyOf(ctx, source) # None => IdOf(source) \in cases
  PROVE  KeptBundle(Build(ctx), newest, cases)
<1> DEFINE b == Build(ctx)
<1>1. List(ctx.universe)
  BY DEF ListsKnown
<1>2. /\ b.version = ctx.version /\ List(b.candidates)
      /\ \A c \in Range(b.candidates) : FromDrafts(ctx, c)
  BY <1>1, BuiltFromDrafts
<1> HIDE DEF b
<1>3. ASSUME NEW c \in Range(b.candidates)
      PROVE  KeptCandidate(c, cases)
  <2>1. PICK d, e : ShowsDrafts(ctx, c, d, e)
    BY <1>2, CandidateShowsDrafts
  <2>2. QED
    BY <2>1 DEF ShowsDrafts, IsDraft, KeptCandidate
<1>4. QED
  BY <1>2, <1>3 DEF KeptBundle, b

-----------------------------------------------------------------------------
(* What a recomputation is given to read.                                   *)

\* simple_proposal.py:421-470: the brands of a result are brands that a tool has listed.
LEMMA UniverseIsKnown ==
  ASSUME NEW b, NEW newest, NEW cases, KeptBundle(b, newest, cases)
  PROVE  ListsKnown(UniverseOf(b))
<1> DEFINE places == {i \in DOMAIN b.candidates : b.candidates[i].franchise # None}
           brands == Picked(b.candidates, places)
           r == [i \in DOMAIN brands |->
                   [id |-> brands[i].source, eligibility |-> "VERIFIED",
                    refs |-> brands[i].franchise.refs,
                    profile |-> brands[i].franchise.profile]]
<1>1. UniverseOf(b) = r
  BY DEF UniverseOf
<1>2. List(b.candidates) /\ \A c \in Range(b.candidates) : KeptCandidate(c, cases)
  BY DEF KeptBundle
<1>3. \A i \in (1..Len(b.candidates)) \cap places :
        b.candidates[i].franchise # None /\ b.candidates[i] \in Range(b.candidates)
  BY <1>2, ListBasics
<1> HIDE DEF places
<1>4. /\ List(brands)
      /\ Range(brands) = {b.candidates[i] : i \in (1..Len(b.candidates)) \cap places}
  BY <1>2, PickedIsList
<1> HIDE DEF brands
<1>5. ASSUME NEW c \in Range(brands)
      PROVE  c.source \in ListedBrands
  <2>1. c \in Range(b.candidates) /\ c.franchise # None
    BY <1>3, <1>4
  <2>2. KeptCandidate(c, cases)
    BY <1>2, <2>1
  <2>3. QED
    BY <2>1, <2>2 DEF KeptCandidate, FamilyOf, CaseSource
<1>6. /\ DOMAIN r = DOMAIN brands /\ r = [i \in DOMAIN brands |-> r[i]]
      /\ \A i \in DOMAIN brands : r[i].id = brands[i].source
  OBVIOUS
<1> HIDE DEF r
<1>7. List(r) /\ Range(r) = {r[i] : i \in 1..Len(brands)}
  BY <1>4, <1>6, MappedIsList
<1>8. DOMAIN brands = 1..Len(brands) /\ \A i \in DOMAIN brands : brands[i] \in Range(brands)
  BY <1>4, ListBasics
<1>9. \A brand \in Range(r) : brand.id \in ListedBrands
  BY <1>5, <1>6, <1>7, <1>8
<1>10. QED
  BY <1>1, <1>7, <1>9 DEF ListsKnown

\* execution.py:180-210: the shop that a recomputation knows.
Shop == IF activeCase \in DOMAIN terms THEN terms[activeCase] ELSE None

\* execution.py:180-210: whatever result it starts from, a recomputation knows the terms
\* of the active case and of no other.
LEMMA ShopOfContext ==
  ASSUME NEW b, NEW newest, KeptBundle(b, newest, DOMAIN terms)
  PROVE  PropertyContext(b) = Shop
<1>1. CASE activeCase \in DOMAIN terms
  BY <1>1 DEF PropertyContext, Shop
<1>2. CASE activeCase \notin DOMAIN terms /\ activeCase \in CandidateIds(b)
  <2>1. CandidateOf(b, activeCase) \in Range(b.candidates)
        /\ CandidateOf(b, activeCase).id = activeCase
    BY <1>2 DEF CandidateOf, CandidateIds
  <2>2. CandidateOf(b, activeCase).property = None
    BY <1>2, <2>1 DEF KeptBundle, KeptCandidate
  <2>3. QED
    BY <1>2, <2>2 DEF PropertyContext, Shop
<1>3. CASE activeCase \notin DOMAIN terms /\ activeCase \notin CandidateIds(b)
  BY <1>3 DEF PropertyContext, Shop
<1>4. QED
  BY <1>1, <1>2, <1>3

\* execution.py:180-210: what a recomputation is given.
LEMMA ContextOfRecompute ==
  ASSUME NEW b
  PROVE  LET ctx == RecomputeContext(b)
             current == CurrentClaims(claims, activeCase)
         IN  /\ ctx.version = version
             /\ ctx.founder = founder
             /\ ctx.evidence = evidence
             /\ ctx.property = PropertyContext(b)
             /\ ctx.claims = current
             /\ ctx.contested = OpenConflictKeys(current, conflicts)
             /\ ctx.disclosure = <<>>
             /\ ctx.universe = UniverseOf(b)
             /\ ctx.proposed = Sources(Seeds) \cup Sources(UniverseOf(b))
BY DEF RecomputeContext

\* The calculation reads the shop and the claims it was given.
LEMMA FieldsOfInputs ==
  ASSUME NEW ctx
  PROVE  /\ InputsOf(ctx).property = ctx.property
         /\ InputsOf(ctx).claims = ctx.claims
         /\ InputsOf(ctx).contested = ctx.contested
BY DEF InputsOf, FinancialInputs

-----------------------------------------------------------------------------
\* property_terms.py: the line of the shop's terms, for the case they were entered for.
LEMMA EnteredLine ==
  ASSUME TermsKept, activeCase = None \/ IsCase(activeCase), NEW source, NEW category
  PROVE  LET line == PropertyLine(Shop, source, category)
             amount == Entered(IdOf(source), category)
         IN  IF amount = None THEN line = None
             ELSE /\ line # None
                  /\ IdOf(source) = activeCase
                  /\ \E ref : line = CostLine(Exactly(amount), "USER_INPUT", ref)
<1> DEFINE line == PropertyLine(Shop, source, category)
           amount == Entered(IdOf(source), category)
           shop == terms[activeCase]
<1>1. CASE activeCase \in DOMAIN terms
  <2>1. /\ Shop = shop /\ shop \in Terms /\ shop # None
        /\ IsCase(activeCase) /\ shop.source = activeCase[2]
    BY <1>1, CaseAssumption DEF Shop, TermsKept
  <2>2. shop.source = source <=> IdOf(source) = activeCase
    BY <2>1, IdsAreOfSources DEF IsCase
  <2>3. CASE IdOf(source) # activeCase
    BY <2>1, <2>2, <2>3 DEF PropertyLine, Entered
  <2>4. CASE IdOf(source) = activeCase /\ PropertyAmount(shop, category) = None
    BY <1>1, <2>1, <2>2, <2>4 DEF PropertyLine, Entered
  <2>5. CASE IdOf(source) = activeCase /\ PropertyAmount(shop, category) # None
    <3> DEFINE v == PropertyAmount(shop, category)
               entered == CostLine(Exactly(v), "USER_INPUT", PropertyRef(shop))
    <3>1. amount = v /\ line = entered
      BY <1>1, <2>1, <2>2, <2>5 DEF PropertyLine, Entered
    <3>2. v \in Nat
      <4>1. /\ shop.deposit \in Nat /\ shop.rent \in Nat /\ shop.fee \in Nat
            /\ shop.keyMoney \in Nat \cup {None}
        BY <2>1 DEF Terms
      <4> HIDE DEF shop
      <4>2. PropertyAmount(shop, category)
              \in {shop.deposit, shop.keyMoney, shop.rent + shop.fee, None}
        BY DEF PropertyAmount
      <4>3. QED
        BY <2>5, <4>1, <4>2
    <3>3. shop.id \in Nat
      BY <2>1 DEF Terms
    <3> HIDE DEF v, shop
    <3>4. entered \in [amount : [low : Nat, base : Nat, high : Nat],
                       provenance : Provenance,
                       ref : {"property-input"} \X Nat, derivation : {None}]
      BY <3>2, <3>3 DEF CostLine, Exactly, MoneyRange, PropertyRef, Provenance, Grounded
    <3>5. entered # None
      BY <3>4, CaseAssumption
    <3> HIDE DEF entered
    <3>6. \E ref : entered = CostLine(Exactly(v), "USER_INPUT", ref)
      BY DEF entered
    <3>7. v # None
      BY <2>5 DEF v
    <3>8. QED
      BY <2>5, <3>1, <3>5, <3>6, <3>7
  <2>6. QED
    BY <2>3, <2>4, <2>5
<1>2. CASE activeCase \notin DOMAIN terms
  BY <1>2 DEF Shop, PropertyLine, Entered
<1>3. QED
  BY <1>1, <1>2

\* What documents say of a source, as the calculation of a case is given it.
Said(b, source) == ClaimsOf(InputsOf(RecomputeContext(b)), source)

\* The facts it is told are contested.
Disputed(b) == InputsOf(RecomputeContext(b)).contested

\* case_fact_repository.py: these are the claims of the active case, if it is the source's.
LEMMA SaidOfSource ==
  ASSUME ClaimsKept, NEW b, NEW source
  PROVE  /\ Said(b, source) = {c \in claims : c.case = activeCase /\ c.source = source}
         /\ Said(b, source) # {} => IdOf(source) = activeCase
         /\ IdOf(source) = activeCase =>
              Said(b, source) = {c \in claims : c.case = activeCase}
<1>1. Said(b, source) = {c \in CurrentClaims(claims, activeCase) : c.source = source}
  BY ContextOfRecompute, FieldsOfInputs DEF Said, ClaimsOf
<1>2. Said(b, source) = {c \in claims : c.case = activeCase /\ c.source = source}
  BY <1>1 DEF CurrentClaims
<1>3. ASSUME NEW c \in claims, c.case = activeCase
      PROVE  c.source = source <=> IdOf(source) = activeCase
  <2>1. PICK s \in CaseSource : c.case = IdOf(s)
    BY DEF ClaimsKept, IsCase
  <2>2. c.source = s
    BY <2>1, IdsAreOfSources DEF ClaimsKept
  <2>3. QED
    BY <1>3, <2>1, <2>2, IdsAreOfSources
<1>4. QED
  BY <1>2, <1>3

\* case_fact_repository.py: the contested facts are those of the open conflicts.
LEMMA ConflictIsOpen ==
  ASSUME ConflictsKept, NEW k \in conflicts, NEW c \in claims, c.id \in k,
         NEW S \in SUBSET claims, c \in S
  PROVE  <<c.document, c.type>> \in OpenConflictKeys(S, conflicts)
<1> DEFINE keys == ConflictKeys(S, k)
<1>1. keys = {<<d.document, d.type>> : d \in {e \in S : e.id \in k}}
  BY DEF ConflictKeys
<1>2. \A d \in {e \in S : e.id \in k} : d.document = c.document /\ d.type = c.type
  BY DEF ConflictsKept, SameFact
<1>3. keys = {<<c.document, c.type>>}
  BY <1>1, <1>2
<1>4. Cardinality(keys) = 1
  BY <1>3, FS_Singleton
<1>5. QED
  BY <1>3, <1>4 DEF OpenConflictKeys

\* extraction.py:586-640: whatever two revisions say differently of it is told to be
\* contested.
LEMMA SaidIsSound ==
  ASSUME version \in Nat, ClaimsKept, ConflictsKept, NEW b, NEW source
  PROVE  AreClaims(Said(b, source)) /\ Contests(Said(b, source), Disputed(b))
<1> DEFINE S == Said(b, source)
           current == CurrentClaims(claims, activeCase)
<1>1. S = {c \in claims : c.case = activeCase /\ c.source = source}
  BY SaidOfSource
<1>2. Disputed(b) = OpenConflictKeys(current, conflicts)
  BY ContextOfRecompute, FieldsOfInputs DEF Disputed
<1>3. current = {c \in claims : c.case = activeCase}
  BY DEF CurrentClaims
<1> HIDE DEF S, current
<1>4. AreClaims(S)
  <2>1. IsFiniteSet(S)
    BY <1>1, FS_Subset DEF ClaimsKept
  <2>2. 10 * version + 9 \in Nat
    OBVIOUS
  <2>3. \A c \in S : c.id \in 1..(10 * version + 9)
    BY <1>1 DEF ClaimsKept
  <2>4. QED
    BY <2>1, <2>2, <2>3 DEF AreClaims
<1>5. ASSUME NEW c \in S, NEW d \in S, c.document = d.document, c.type = d.type,
             c.revision # d.revision, c.value # d.value
      PROVE  <<c.document, c.type>> \in Disputed(b)
  <2>1. c \in claims /\ d \in claims /\ SameFact(c, d)
    BY <1>1, <1>5 DEF SameFact
  <2>2. PICK k \in conflicts : c.id \in k /\ d.id \in k
    BY <1>5, <2>1 DEF ConflictsKept
  <2>3. current \in SUBSET claims /\ c \in current
    BY <1>1, <1>3
  <2>4. QED
    BY <1>2, <2>1, <2>2, <2>3, ConflictIsOpen
<1>6. QED
  BY <1>4, <1>5 DEF Contests, S

\* What a document says of the source is what it says of the active case.
LEMMA SaidIsDocument ==
  ASSUME ClaimsKept, NEW b, NEW source, NEW category, NEW revision, NEW amount,
         SaidBy(Said(b, source), category, revision, amount)
  PROVE  /\ IdOf(source) = activeCase
         /\ revision \in DOMAIN Forms
         /\ DocumentSays(revision, category, amount)
<1> DEFINE S == Said(b, source)
<1>1. S # {}
  BY DEF SaidBy, OfType
<1>2. IdOf(source) = activeCase
  BY <1>1, SaidOfSource
<1>3. S = {c \in claims : c.case = activeCase}
  BY <1>2, SaidOfSource
<1>4. \A c \in S : c.revision \in DOMAIN Forms
  BY <1>3 DEF ClaimsKept
<1>5. SaidBy(S, category, revision, amount)
  OBVIOUS
<1> HIDE DEF S
<1>6. \A document, type : OfType(S, document, {type}) = ActiveClaims(document, type)
  BY <1>3 DEF OfType, ActiveClaims
<1>7. \A document, type : ActiveClaims(document, type) \subseteq S
  BY <1>3 DEF ActiveClaims
<1>8. CASE category = "MONTHLY_OCCUPANCY"
  <2>1. PICK document \in {"COMMERCIAL_LEASE", "PROPERTY_LISTING"} :
          \E rent \in OfType(S, document, {"MONTHLY_RENT"}),
             fee \in OfType(S, document, {"MANAGEMENT_FEE"}) :
            /\ rent.revision = revision /\ fee.revision = revision
            /\ \A c \in OfType(S, document, {"MONTHLY_RENT"}) : c.value = rent.value
            /\ \A c \in OfType(S, document, {"MANAGEMENT_FEE"}) : c.value = fee.value
            /\ amount = rent.value + fee.value
    BY <1>5, <1>8 DEF SaidBy
  <2>2. PICK rent \in ActiveClaims(document, "MONTHLY_RENT"),
             fee \in ActiveClaims(document, "MANAGEMENT_FEE") :
          /\ rent.revision = revision /\ fee.revision = revision
          /\ \A c \in ActiveClaims(document, "MONTHLY_RENT") : c.value = rent.value
          /\ \A c \in ActiveClaims(document, "MANAGEMENT_FEE") : c.value = fee.value
          /\ amount = rent.value + fee.value
    BY <1>6, <2>1
  <2>3. Undisputed(rent, revision, document, "MONTHLY_RENT")
        /\ Undisputed(fee, revision, document, "MANAGEMENT_FEE")
    BY <2>2 DEF Undisputed
  <2>4. revision \in DOMAIN Forms
    BY <1>4, <1>7, <2>2
  <2>5. QED
    BY <1>2, <1>8, <2>2, <2>3, <2>4 DEF DocumentSays
<1>9. CASE category # "MONTHLY_OCCUPANCY"
  <2>1. PICK family \in Range(Families(category)) :
          \E claim \in OfType(S, family[1], {family[2]}) :
            /\ claim.revision = revision
            /\ \A c \in OfType(S, family[1], {family[2]}) : c.value = claim.value
            /\ amount = claim.value
    BY <1>5, <1>9 DEF SaidBy
  <2>2. PICK claim \in ActiveClaims(family[1], family[2]) :
          /\ claim.revision = revision
          /\ \A c \in ActiveClaims(family[1], family[2]) : c.value = claim.value
          /\ amount = claim.value
    BY <1>6, <2>1
  <2>3. Undisputed(claim, revision, family[1], family[2])
    BY <2>2 DEF Undisputed
  <2>4. revision \in DOMAIN Forms
    BY <1>4, <1>7, <2>2
  <2>5. QED
    BY <1>2, <1>9, <2>2, <2>3, <2>4 DEF DocumentSays
<1>10. QED
  BY <1>8, <1>9

-----------------------------------------------------------------------------
(* A candidate of a recomputation shows what holds now.                     *)

\* What UserInputsAreCurrent asks of a line.
LineIsCurrent(id, category, line) ==
  IF Entered(id, category) # None
  THEN /\ line.provenance = "USER_INPUT"
       /\ line.amount = Exactly(Entered(id, category))
  ELSE line.provenance = "USER_INPUT" =>
         /\ id = activeCase
         /\ line.amount = Exactly(line.amount.base)
         /\ \E revision \in DOMAIN Forms :
              /\ line.ref = DocumentRef(revision)
              /\ DocumentSays(revision, category, line.amount.base)

\* The case, its terms and its claims are consistent with each other.
CaseKept ==
  /\ version \in Nat
  /\ activeCase = None \/ IsCase(activeCase)
  /\ TermsKept /\ ClaimsKept /\ ConflictsKept

\* What the calculation of a recomputation reads.
LEMMA ReadByRecompute ==
  ASSUME CaseKept, NEW b, KeptBundle(b, version, DOMAIN terms), NEW source, NEW category
  PROVE  LET inputs == InputsOf(RecomputeContext(b))
             said == CaseLineOf(inputs, source, category)
             official == OfficialLine(inputs, source, category)
         IN  /\ PropertyLine(inputs.property, source, category)
                  = PropertyLine(Shop, source, category)
             /\ said = CaseCostLine(Said(b, source), Disputed(b), category)
             /\ official # None => official.provenance # "USER_INPUT"
<1> DEFINE ctx == RecomputeContext(b)
<1>1. InputsOf(ctx).property = Shop
  BY ContextOfRecompute, FieldsOfInputs, ShopOfContext
<1>2. CaseLineOf(InputsOf(ctx), source, category)
        = CaseCostLine(Said(b, source), Disputed(b), category)
  BY DEF CaseLineOf, Said, Disputed
<1>3. \A s \in DOMAIN ctx.disclosure : ctx.disclosure[s].provenance # "USER_INPUT"
  <2>1. ctx.disclosure = <<>>
    BY ContextOfRecompute
  <2>2. DOMAIN ctx.disclosure = {}
    BY <2>1
  <2>3. QED
    BY <2>2
<1> HIDE DEF ctx
<1>4. LET official == OfficialLine(InputsOf(ctx), source, category) IN
      official # None => official.provenance # "USER_INPUT"
  BY <1>3, OfficialIsNotTheUsers
<1>5. QED
  BY <1>1, <1>2, <1>4 DEF ctx

\* case_facts.py:432-511: a line of a recomputation shows what holds of its case now.
LEMMA ResolvedIsCurrent ==
  ASSUME CaseKept, NEW b, KeptBundle(b, version, DOMAIN terms), NEW source, NEW category,
         NEW line, LineIn(RecomputeContext(b), source, category, line)
  PROVE  LineIsCurrent(IdOf(source), category, line)
<1> DEFINE inputs == InputsOf(RecomputeContext(b))
           entered == PropertyLine(Shop, source, category)
           said == CaseCostLine(Said(b, source), Disputed(b), category)
           official == OfficialLine(inputs, source, category)
           amount == Entered(IdOf(source), category)
<1>1. IF amount = None THEN entered = None
      ELSE /\ entered # None
           /\ IdOf(source) = activeCase
           /\ \E ref : entered = CostLine(Exactly(amount), "USER_INPUT", ref)
  BY EnteredLine DEF CaseKept
<1>2. official # None => official.provenance # "USER_INPUT"
  BY ReadByRecompute
<1>3. said \in {None, UnknownLine} \/ FromDocument(said, Said(b, source), category)
  BY SaidIsSound, CaseLine DEF CaseKept
<1>4. CASE category = "FRANCHISE_INITIAL_FEES" /\ line.provenance = "DERIVED"
  <2>1. amount = None
    BY <1>4 DEF Entered, PropertyAmount
  <2>2. QED
    BY <1>4, <2>1 DEF LineIsCurrent
<1>5. ASSUME NEW fallback, fallback.provenance # "USER_INPUT",
             line = ResolveCostLine(inputs, source, category, fallback)
      PROVE  LineIsCurrent(IdOf(source), category, line)
  <2>1. line = IF entered # None THEN entered
               ELSE IF said # None THEN said
               ELSE IF official # None THEN official
               ELSE fallback
    BY <1>5, ResolvedLine, ReadByRecompute
  <2>2. CASE entered # None
    <3>1. PICK ref : entered = CostLine(Exactly(amount), "USER_INPUT", ref)
      BY <1>1, <2>2
    <3>2. line.provenance = "USER_INPUT" /\ line.amount = Exactly(amount)
      BY <2>1, <2>2, <3>1 DEF CostLine
    <3>3. amount # None
      BY <1>1, <2>2
    <3>4. QED
      BY <3>2, <3>3 DEF LineIsCurrent
  <2>3. CASE entered = None
    <3>1. amount = None
      BY <1>1, <2>3
    <3>2. CASE line.provenance # "USER_INPUT"
      BY <3>1, <3>2 DEF LineIsCurrent
    <3>3. CASE line.provenance = "USER_INPUT"
      <4>1. line = said /\ said # None
        BY <1>2, <1>5, <2>1, <2>3, <3>3
      <4>2. FromDocument(line, Said(b, source), category)
        BY <1>3, <3>3, <4>1 DEF UnknownLine, CostLine
      <4>3. PICK v \in Nat :
              \E revision :
                /\ line = CostLine(Exactly(v), "USER_INPUT", DocumentRef(revision))
                /\ SaidBy(Said(b, source), category, revision, v)
        BY <4>2 DEF FromDocument
      <4>4. PICK revision :
              /\ line = CostLine(Exactly(v), "USER_INPUT", DocumentRef(revision))
              /\ SaidBy(Said(b, source), category, revision, v)
        BY <4>3
      <4>5. /\ line.amount = Exactly(v) /\ line.amount.base = v
            /\ line.ref = DocumentRef(revision)
        <5>1. line.amount = Exactly(v) /\ line.ref = DocumentRef(revision)
          BY <4>4 DEF CostLine
        <5>2. Exactly(v).base = v
          BY DEF Exactly, MoneyRange
        <5>3. QED
          BY <5>1, <5>2
      <4>6. /\ IdOf(source) = activeCase /\ revision \in DOMAIN Forms
            /\ DocumentSays(revision, category, v)
        BY <4>4, SaidIsDocument DEF CaseKept
      <4>7. QED
        BY <3>1, <4>5, <4>6 DEF LineIsCurrent
    <3>4. QED
      BY <3>2, <3>3 DEF LineIsCurrent
  <2>4. QED
    BY <2>2, <2>3
<1>6. QED
  BY <1>4, <1>5 DEF LineIn

\* A candidate's inputs show the lines it is calculated from.
LEMMA ShownLines ==
  ASSUME NEW lines, NEW family, NEW records
  PROVE  LET inputs == DecisionInputs(lines, family, records) IN
         /\ DOMAIN inputs = DOMAIN lines
         /\ \A category \in DOMAIN lines :
              /\ inputs[category].amount = lines[category].amount
              /\ inputs[category].provenance = lines[category].provenance
              /\ inputs[category].ref = lines[category].ref
BY DEF DecisionInputs, DecisionInput

\* case_facts.py:432-511: so does every line of a candidate.
LEMMA CandidateIsCurrent ==
  ASSUME CaseKept, NEW b, KeptBundle(b, version, DOMAIN terms), NEW c,
         FromDrafts(RecomputeContext(b), c)
  PROVE  \A category \in DOMAIN c.inputs :
           LineIsCurrent(c.id, category, c.inputs[category])
<1> DEFINE ctx == RecomputeContext(b)
<1>1. ListsKnown(ctx.universe)
  BY ContextOfRecompute, UniverseIsKnown
<1>2. PICK d, e : ShowsDrafts(ctx, c, d, e)
  BY <1>1, CandidateShowsDrafts
<1>3. PICK lines : Calculated(ctx, d, lines)
  BY <1>1, <1>2, DraftIsCalculated DEF ShowsDrafts, ListsKnown
<1>4. /\ c.inputs = DecisionInputs(lines, d.family, ctx.evidence)
      /\ c.id = IdOf(d.source)
  BY <1>2, <1>3 DEF ShowsDrafts, IsDraft, Calculated
<1>5. ASSUME NEW category \in DOMAIN c.inputs
      PROVE  LineIsCurrent(c.id, category, c.inputs[category])
  <2>1. /\ category \in DOMAIN lines
        /\ c.inputs[category].amount = lines[category].amount
        /\ c.inputs[category].provenance = lines[category].provenance
        /\ c.inputs[category].ref = lines[category].ref
    BY <1>4, ShownLines
  <2>2. LineIsCurrent(IdOf(d.source), category, lines[category])
    BY <1>3, <2>1, ResolvedIsCurrent DEF Calculated
  <2>3. QED
    BY <1>4, <2>1, <2>2 DEF LineIsCurrent
<1>6. QED
  BY <1>5

\* calculator.py:60-120: one cost that is not known leaves the initial cash unknown.
LEMMA UnknownCostIsOpen ==
  ASSUME NEW lines, InitialCategory \subseteq DOMAIN lines,
         NEW category \in InitialCategory,
         lines[category] = UnknownLine, NEW rate, NEW sales
  PROVE  LET finance == CalculateFinance(lines, rate, sales) IN
         finance.initial = NoAmount /\ finance.unknown # {}
<1> DEFINE initial == Restrict(lines, InitialCategory \cap DOMAIN lines)
           finance == CalculateFinance(lines, rate, sales)
<1>1. /\ finance.initial = SumLines(initial, InitialCategory)
      /\ UnknownFields(initial, InitialCategory) \subseteq finance.unknown
  BY DEF CalculateFinance
<1>2. DOMAIN initial = InitialCategory /\ initial[category] = UnknownLine
  BY DEF Restrict
<1> HIDE DEF initial, finance
<1>3. UnknownLine.amount = NoAmount
  BY DEF UnknownLine, CostLine
<1>4. \A s \in Scenario : NoAmount[s] = None
  BY DEF NoAmount, Exactly, MoneyRange, Scenario
<1>5. \A s \in Scenario : initial[category].amount[s] = None
  BY <1>2, <1>3, <1>4
<1>6. \A s \in Scenario : SumScenario(initial, s) = None
  BY <1>2, <1>5 DEF SumScenario
<1>7. SumLines(initial, InitialCategory) = [s \in Scenario |-> None]
  <2>1. SumLines(initial, InitialCategory) = [s \in Scenario |-> SumScenario(initial, s)]
    BY <1>2 DEF SumLines
  <2>2. QED
    BY <1>6, <2>1
<1>8. [s \in Scenario |-> None] = NoAmount
  BY DEF NoAmount, Exactly, MoneyRange, Scenario
<1>9. category \in UnknownFields(initial, InitialCategory)
  BY <1>2, <1>5 DEF UnknownFields, Scenario
<1>10. QED
  BY <1>1, <1>7, <1>8, <1>9 DEF finance

\* ranking.py:300-360: what is not known is a reason not to recommend.
LEMMA UnknownIsNotRecommended ==
  ASSUME NEW ctx, NEW e, e.finance.unknown # {}
  PROVE  Status(RankingInput(ctx, e)) # "REVIEW_RECOMMENDED"
<1> DEFINE input == RankingInput(ctx, e)
<1>1. input.finance = e.finance
  BY DEF RankingInput
<1> HIDE DEF input
<1>2. ConditionalReasons(input) # {}
  <2>1. When(input.finance.unknown # {}, "MATERIAL_COST_UNKNOWN")
          \subseteq ConditionalReasons(input)
    BY DEF ConditionalReasons
  <2>2. "MATERIAL_COST_UNKNOWN"
          \in When(input.finance.unknown # {}, "MATERIAL_COST_UNKNOWN")
    BY <1>1 DEF When
  <2>3. QED
    BY <2>1, <2>2
<1>3. QED
  BY <1>2 DEF Status, input

\* The case's documents contradict each other about a category.
Contradicted(category) ==
  LET decides == Families(category) IN
  /\ decides # <<>>
  /\ Cardinality({claim.value : claim \in ActiveClaims(decides[1][1], decides[1][2])}) > 1

\* A contradiction is between two claims.
LEMMA TwoValues ==
  ASSUME NEW category, Contradicted(category)
  PROVE  LET first == Families(category)[1] IN
         \E c, d \in ActiveClaims(first[1], first[2]) : c.value # d.value
<1> DEFINE first == Families(category)[1]
           active == ActiveClaims(first[1], first[2])
           values == {claim.value : claim \in active}
<1>1. Cardinality(values) > 1
  BY DEF Contradicted
<1> HIDE DEF active
<1>2. CASE values = {}
  BY <1>1, <1>2, FS_EmptySet
<1>3. CASE values # {}
  <2>1. PICK c \in active : TRUE
    BY <1>3
  <2>2. SUFFICES ASSUME \A d \in active : d.value = c.value
                 PROVE  FALSE
    BY <2>1 DEF active
  <2>3. values = {c.value}
    BY <2>1, <2>2
  <2>4. Cardinality(values) = 1
    BY <2>3, FS_Singleton
  <2>5. QED
    BY <1>1, <2>4
<1>4. QED
  BY <1>2, <1>3

\* case_facts.py:204-242: so the line of that category is open, unless the terms say it.
LEMMA ContradictedLine ==
  ASSUME CaseKept, NEW b, KeptBundle(b, version, DOMAIN terms), NEW source, NEW category,
         IdOf(source) = activeCase, Entered(activeCase, category) = None,
         Contradicted(category),
         NEW line, LineIn(RecomputeContext(b), source, category, line)
  PROVE  line = UnknownLine
<1> DEFINE inputs == InputsOf(RecomputeContext(b))
           S == Said(b, source)
           said == CaseCostLine(S, Disputed(b), category)
           first == Families(category)[1]
<1>1. PICK c, d \in ActiveClaims(first[1], first[2]) : c.value # d.value
  BY TwoValues
<1>2. S = {e \in claims : e.case = activeCase}
  BY SaidOfSource DEF CaseKept
<1>3. AreClaims(S)
  BY SaidIsSound DEF CaseKept
<1> HIDE DEF S
<1>4. {c, d} \subseteq OfType(S, first[1], {first[2]})
  BY <1>1, <1>2 DEF ActiveClaims, OfType
<1>5. CostFact(S, Disputed(b), category) = Unsettled
  BY <1>1, <1>3, <1>4, ContestedFact DEF Contradicted
<1>6. said = UnknownLine /\ said # None
  <2>1. Unsettled # None /\ UnknownLine # None
    BY BuilderAssumption
  <2>2. CostLineOf(Unsettled) = UnknownLine
    BY <2>1 DEF CostLineOf, Unsettled
  <2>3. QED
    BY <1>5, <2>1, <2>2 DEF CaseCostLine
<1>7. PropertyLine(Shop, source, category) = None
  BY EnteredLine DEF CaseKept
<1>8. category # "FRANCHISE_INITIAL_FEES"
  BY DEF Contradicted, Families
<1>9. PICK fallback : line = ResolveCostLine(inputs, source, category, fallback)
  BY <1>8 DEF LineIn
<1> HIDE DEF said
<1>10. /\ PropertyLine(inputs.property, source, category) = None
       /\ CaseLineOf(inputs, source, category) = said
  BY <1>7, ReadByRecompute DEF said, S
<1>11. line = said
  BY <1>6, <1>9, <1>10, ResolvedLine
<1>12. QED
  BY <1>6, <1>11

\* The candidate leaves the category open.
LeftOpen(c, category) ==
  /\ c.inputs[category].provenance = "UNKNOWN"
  /\ c.finance.initial = NoAmount
  /\ c.decision.status # "REVIEW_RECOMMENDED"

\* case_facts.py:204-242: so is that of the candidate, which is not recommended then.
LEMMA ContradictedCandidate ==
  ASSUME CaseKept, NEW b, KeptBundle(b, version, DOMAIN terms), NEW c,
         FromDrafts(RecomputeContext(b), c), NEW category \in InitialCategory,
         c.id = activeCase, Entered(c.id, category) = None, Contradicted(category)
  PROVE  LeftOpen(c, category)
<1> DEFINE ctx == RecomputeContext(b)
<1>1. ListsKnown(ctx.universe)
  BY ContextOfRecompute, UniverseIsKnown
<1>2. PICK d, e : ShowsDrafts(ctx, c, d, e)
  BY <1>1, CandidateShowsDrafts
<1>3. ASSUME NEW draft \in {d, e}
      PROVE  /\ draft.inputs[category].provenance = "UNKNOWN"
             /\ draft.finance.initial = NoAmount
             /\ draft.finance.unknown # {}
  <2>1. draft \in Range(Drafts(ctx)) /\ IdOf(draft.source) = activeCase
    BY <1>2 DEF ShowsDrafts, IsDraft
  <2>2. PICK lines : Calculated(ctx, draft, lines)
    BY <1>1, <2>1, DraftIsCalculated DEF ListsKnown
  <2>3. category \in DOMAIN lines /\ LineIn(ctx, draft.source, category, lines[category])
    BY <2>2 DEF Calculated
  <2>4. lines[category] = UnknownLine
    BY <2>1, <2>3, ContradictedLine
  <2>5. PICK rate, sales : draft.finance = CalculateFinance(lines, rate, sales)
    BY <2>2 DEF Calculated
  <2>6. draft.finance.initial = NoAmount /\ draft.finance.unknown # {}
    BY <2>2, <2>4, <2>5, UnknownCostIsOpen DEF Calculated
  <2>7. draft.inputs[category].provenance = UnknownLine.provenance
    BY <2>2, <2>3, <2>4, ShownLines DEF Calculated
  <2>8. QED
    BY <2>6, <2>7 DEF UnknownLine, CostLine
<1>4. QED
  BY <1>2, <1>3, UnknownIsNotRecommended DEF ShowsDrafts, LeftOpen

-----------------------------------------------------------------------------
(* The first result knows nothing of a case.                                *)

\* proposal_evidence_retrieval.py: what is retrieved is what the tools answer.
LEMMA RetrievedAreSound ==
  ASSUME NEW calls, List(calls), NEW failed
  PROVE  SoundAnswers(RetrieveAll(calls, failed))
<1> DEFINE r == RetrieveAll(calls, failed)
<1>1. /\ DOMAIN r = DOMAIN calls /\ r = [i \in DOMAIN calls |-> r[i]]
      /\ \A i \in DOMAIN calls : r[i] = RetrieveOne(calls[i], failed)
  BY DEF RetrieveAll
<1>2. ASSUME NEW call, NEW item \in Range(RetrieveOne(call, failed).data)
      PROVE  SoundItem(RetrieveOne(call, failed).tool, item)
  <2>1. RetrieveOne(call, failed).tool = call[1]
    BY DEF RetrieveOne
  <2>2. CASE call \in DOMAIN McpAnswer \ failed
    <3>1. RetrieveOne(call, failed).data = McpAnswer[call].data
      BY <2>2 DEF RetrieveOne
    <3>2. item \in Range(McpAnswer[call].data) /\ call \in DOMAIN McpAnswer
      BY <2>2, <3>1
    <3>3. call[1] = "list_franchise_universe" => item.id \in ListedBrands
      BY <3>2 DEF ListedBrands
    <3>4. QED
      BY <2>1, <3>2, <3>3, McpAssumption DEF SoundItem
  <2>3. CASE call \notin DOMAIN McpAnswer \ failed
    <3>1. RetrieveOne(call, failed).data = <<>>
      BY <2>3 DEF RetrieveOne
    <3>2. QED
      BY <3>1, EmptyIsList
  <2>4. QED
    BY <2>2, <2>3
<1>3. \A call : {"tool", "data"} \subseteq DOMAIN RetrieveOne(call, failed)
  BY DEF RetrieveOne
<1> HIDE DEF r
<1>4. List(r) /\ Range(r) = {r[i] : i \in 1..Len(calls)}
  BY <1>1, MappedIsList
<1>5. DOMAIN calls = 1..Len(calls)
  BY ListBasics
<1>6. \A outcome \in Range(r) : \E call : outcome = RetrieveOne(call, failed)
  BY <1>1, <1>4, <1>5
<1>7. SoundAnswers(r)
  BY <1>2, <1>3, <1>6 DEF SoundAnswers
<1>8. QED
  BY <1>7 DEF r

\* So do two answers after each other.
LEMMA JoinedAreSound ==
  ASSUME NEW s, NEW t, List(s), List(t), SoundAnswers(s), SoundAnswers(t)
  PROVE  SoundAnswers(s \o t)
<1>1. Range(s \o t) = Range(s) \cup Range(t)
  BY ConcatIsList
<1>2. QED
  BY <1>1 DEF SoundAnswers

\* official_evidence.py: records that are added to an answer leave its items alone.
LEMMA RetrieveLeavesSound ==
  ASSUME NEW all, AreOutcomes(all), SoundAnswers(all)
  PROVE  SoundAnswers([k \in DOMAIN all |-> WithOfficialRagEvidence(all[k])])
<1> DEFINE r == [k \in DOMAIN all |-> WithOfficialRagEvidence(all[k])]
<1>1. /\ DOMAIN r = DOMAIN all /\ r = [k \in DOMAIN all |-> r[k]]
      /\ \A k \in DOMAIN all : r[k] = WithOfficialRagEvidence(all[k])
  OBVIOUS
<1> HIDE DEF r
<1>2. /\ Range(r) = {r[k] : k \in 1..Len(all)}
      /\ DOMAIN all = 1..Len(all)
      /\ \A k \in 1..Len(all) : all[k] \in Range(all)
  BY <1>1, MappedIsList, ListBasics DEF AreOutcomes
<1>3. ASSUME NEW outcome \in Range(all)
      PROVE  LET found == WithOfficialRagEvidence(outcome) IN
             /\ {"tool", "data"} \subseteq DOMAIN found
             /\ found.tool = outcome.tool /\ found.data = outcome.data
  <2>1. {"tool", "data"} \subseteq DOMAIN outcome
    BY DEF SoundAnswers
  <2>2. PICK records : \/ WithOfficialRagEvidence(outcome) = outcome
                       \/ WithOfficialRagEvidence(outcome)
                            = [outcome EXCEPT !.records = records]
    BY DEF WithOfficialRagEvidence
  <2>3. QED
    BY <2>1, <2>2
<1>4. ASSUME NEW found \in Range(r)
      PROVE  /\ {"tool", "data"} \subseteq DOMAIN found
             /\ \A item \in Range(found.data) : SoundItem(found.tool, item)
  <2>1. PICK k \in 1..Len(all) : found = WithOfficialRagEvidence(all[k])
    BY <1>1, <1>2
  <2>2. all[k] \in Range(all)
    BY <1>2
  <2>3. /\ {"tool", "data"} \subseteq DOMAIN found
        /\ found.tool = all[k].tool /\ found.data = all[k].data
    BY <1>3, <2>1, <2>2
  <2>4. QED
    BY <2>2, <2>3 DEF SoundAnswers
<1>5. SoundAnswers(r)
  BY <1>4 DEF SoundAnswers
<1>6. QED
  BY <1>5 DEF r

\* franchise_grounding.py:63-100: so are the rows of the universe calls.
LEMMA ItemsAreSound ==
  ASSUME NEW results, AreOutcomes(results), SoundAnswers(results),
         NEW item \in Range(UniverseItems(results))
  PROVE  SoundItem("list_franchise_universe", item)
<1> DEFINE Of(i) == IF results[i].tool = "list_franchise_universe" THEN results[i].data
                    ELSE <<>>
           s == [i \in DOMAIN results |-> Of(i)]
<1>1. UniverseItems(results) = FlattenSeq(s)
  BY DEF UniverseItems
<1>2. DOMAIN s = DOMAIN results /\ s = [i \in DOMAIN results |-> s[i]]
      /\ \A i \in DOMAIN results : s[i] = Of(i)
  OBVIOUS
<1>3. /\ DOMAIN results = 1..Len(results)
      /\ \A i \in 1..Len(results) : results[i] \in Range(results)
  BY ListBasics DEF AreOutcomes
<1> HIDE DEF s
<1>4. List(s) /\ Len(s) = Len(results)
  BY <1>2, MappedIsList DEF AreOutcomes
<1>5. \A i \in 1..Len(s) : List(s[i])
  BY <1>2, <1>3, <1>4, EmptyIsList DEF AreOutcomes
<1>6. Range(FlattenSeq(s)) = UNION {Range(s[k]) : k \in 1..Len(s)}
  BY <1>4, <1>5, FlattenIsList
<1>7. PICK k \in 1..Len(s) : item \in Range(s[k])
  BY <1>1, <1>6
<1>8. s[k] = Of(k) /\ results[k] \in Range(results)
  BY <1>2, <1>3, <1>4
<1>9. CASE results[k].tool = "list_franchise_universe"
  BY <1>7, <1>8, <1>9 DEF SoundAnswers
<1>10. CASE results[k].tool # "list_franchise_universe"
  <2>1. s[k] = <<>>
    BY <1>8, <1>10
  <2>2. QED
    BY <1>7, <2>1, EmptyIsList
<1>11. QED
  BY <1>9, <1>10

\* franchise_grounding.py:63-166: what may be franchised is a brand that a tool has listed.
LEMMA FranchiseUniverseIsKnown ==
  ASSUME AreOutcomes(outcomes), SoundAnswers(outcomes)
  PROVE  ListsKnown(FranchiseUniverse)
<1> DEFINE items == UniverseItems(outcomes)
           places == {i \in DOMAIN items : /\ items[i].eligibility = "VERIFIED"
                                           /\ items[i].evidence \in Refs(frozen)}
           eligible == Picked(items, places)
           Brand(item) ==
             [id |-> item.id, eligibility |-> "VERIFIED", refs |-> <<item.evidence>>,
              profile |-> WithDisclosure(WithAcceptedFinance(item.profile),
                                         LineOf(FranchiseDisclosures, item.id))]
           brands == [i \in DOMAIN eligible |-> Brand(eligible[i])]
<1>1. FranchiseUniverse = ByCost(brands)
  BY DEF FranchiseUniverse
<1>2. List(items)
  BY ListOfItems
<1>3. \A item \in Range(items) : item.id \in ListedBrands
  BY ItemsAreSound DEF SoundItem
<1> HIDE DEF items, places
<1>4. List(eligible) /\ Range(eligible) \subseteq Range(items)
  BY <1>2, PickedFrom
<1> HIDE DEF eligible
<1>5. /\ DOMAIN brands = DOMAIN eligible /\ brands = [i \in DOMAIN eligible |-> brands[i]]
      /\ \A i \in DOMAIN eligible : brands[i].id = eligible[i].id
  OBVIOUS
<1> HIDE DEF brands
<1>6. List(brands) /\ Range(brands) = {brands[i] : i \in 1..Len(eligible)}
  BY <1>4, <1>5, MappedIsList
<1>7. /\ DOMAIN eligible = 1..Len(eligible)
      /\ \A i \in DOMAIN eligible : eligible[i] \in Range(eligible)
  BY <1>4, ListBasics
<1>8. \A brand \in Range(brands) : brand.id \in ListedBrands
  BY <1>3, <1>4, <1>5, <1>6, <1>7
<1>9. List(ByCost(brands)) /\ Range(ByCost(brands)) \subseteq Range(brands)
  BY <1>6, ByCostIsList
<1>10. QED
  BY <1>1, <1>8, <1>9 DEF ListsKnown

\* franchise_disclosure.py: a disclosed amount is the authority's, not the user's.
LEMMA DisclosuresAreFacts ==
  \A s \in DOMAIN FranchiseDisclosures : FranchiseDisclosures[s].provenance # "USER_INPUT"
<1> DEFINE Line(s) == DisclosedFees(outcomes, Refs(frozen), s)
<1>1. FranchiseDisclosures =
        [s \in {t \in Range(VerifiedBrands(outcomes)) : Line(t) # None} |-> Line(s)]
  BY DEF FranchiseDisclosures, LinesBySource
<1>2. \A s : Line(s) # None => Line(s).provenance # "USER_INPUT"
  <2>1. ASSUME NEW s, Line(s) # None
        PROVE  Line(s).provenance = "FACT"
    BY <2>1 DEF DisclosedFees, CostLine
  <2> HIDE DEF Line
  <2>2. QED
    BY <2>1
<1> HIDE DEF Line
<1>3. QED
  BY <1>1, <1>2

\* linear_agent_pipeline.py:430-470: a first result knows nothing of a case.
LEMMA FirstResolved ==
  ASSUME NEW source, NEW category, NEW line,
         LineIn(ProposalContext, source, category, line)
  PROVE  line.provenance # "USER_INPUT"
<1> DEFINE ctx == ProposalContext
           inputs == InputsOf(ctx)
           said == CaseLineOf(inputs, source, category)
           official == OfficialLine(inputs, source, category)
<1>1. /\ ctx.property = None /\ ctx.claims = {} /\ ctx.contested = {}
      /\ ctx.disclosure = FranchiseDisclosures
  BY DEF ProposalContext
<1>2. inputs.property = None /\ inputs.claims = {} /\ inputs.contested = {}
  BY <1>1, FieldsOfInputs
<1>3. official # None => official.provenance # "USER_INPUT"
  <2>1. \A s \in DOMAIN ctx.disclosure : ctx.disclosure[s].provenance # "USER_INPUT"
    BY <1>1, DisclosuresAreFacts
  <2> HIDE DEF ctx
  <2>2. QED
    BY <2>1, OfficialIsNotTheUsers
<1>4. said # None => said.provenance # "USER_INPUT"
  <2>1. said = CaseCostLine({}, {}, category)
    <3>1. ClaimsOf(inputs, source) = {}
      BY <1>2 DEF ClaimsOf
    <3>2. QED
      BY <1>2, <3>1 DEF CaseLineOf
  <2>2. AreClaims({}) /\ Contests({}, {})
    BY FS_EmptySet DEF AreClaims, Contests
  <2>3. ~ FromDocument(CaseCostLine({}, {}, category), {}, category)
    BY DEF FromDocument, SaidBy, OfType
  <2>4. CaseCostLine({}, {}, category) \in {None, UnknownLine}
    BY <2>2, <2>3, CaseLine
  <2> HIDE DEF said
  <2>5. QED
    BY <2>1, <2>4 DEF UnknownLine, CostLine
<1>5. PropertyLine(inputs.property, source, category) = None
  BY <1>2 DEF PropertyLine
<1>6. CASE category = "FRANCHISE_INITIAL_FEES" /\ line.provenance = "DERIVED"
  BY <1>6
<1>7. ASSUME NEW fallback, fallback.provenance # "USER_INPUT",
             line = ResolveCostLine(inputs, source, category, fallback)
      PROVE  line.provenance # "USER_INPUT"
  <2>1. line = IF said # None THEN said ELSE IF official # None THEN official ELSE fallback
    BY <1>5, <1>7, ResolvedLine
  <2> HIDE DEF said, official
  <2>2. QED
    BY <1>3, <1>4, <1>7, <2>1
<1>8. QED
  BY <1>6, <1>7 DEF LineIn

\* linear_agent_pipeline.py:430-470: so a first result is kept and has no user inputs.
LEMMA FirstBuilt ==
  ASSUME ListsKnown(FranchiseUniverse), Drafts(ProposalContext) # <<>>
  PROVE  KeptBundle(Build(ProposalContext), 1, {}) /\ NoUserInputs(Build(ProposalContext))
<1> DEFINE ctx == ProposalContext
           b == Build(ctx)
<1>1. ListsKnown(ctx.universe) /\ ctx.version = 1 /\ ctx.property = None
  BY ContextFields DEF ProposalContext, RunHead
<1>2. \A source : PropertyOf(ctx, source) = None
  BY <1>1 DEF PropertyOf
<1>3. \A line, source, category : LineIn(ctx, source, category, line) =>
        line.provenance # "USER_INPUT"
  BY FirstResolved
<1>4. Drafts(ctx) # <<>>
  OBVIOUS
<1> HIDE DEF ctx
<1>5. KeptBundle(b, 1, {})
  BY <1>1, <1>2, <1>4, BuiltIsKept
<1>6. \A c \in Range(b.candidates) : FromDrafts(ctx, c)
  BY <1>1, <1>4, BuiltFromDrafts DEF ListsKnown
<1> HIDE DEF b
<1>7. ASSUME NEW c \in Range(b.candidates), NEW category \in DOMAIN c.inputs
      PROVE  c.inputs[category].provenance # "USER_INPUT"
  <2>1. PICK d, e : ShowsDrafts(ctx, c, d, e)
    BY <1>1, <1>6, CandidateShowsDrafts
  <2>2. PICK lines : Calculated(ctx, d, lines)
    BY <1>1, <2>1, DraftIsCalculated DEF ShowsDrafts, ListsKnown
  <2>3. c.inputs = DecisionInputs(lines, d.family, ctx.evidence)
    BY <2>1, <2>2 DEF ShowsDrafts, Calculated
  <2>4. /\ category \in DOMAIN lines
        /\ c.inputs[category].provenance = lines[category].provenance
    BY <2>3, ShownLines
  <2>5. LineIn(ctx, d.source, category, lines[category])
    BY <2>2, <2>4 DEF Calculated
  <2>6. QED
    BY <1>3, <2>4, <2>5
<1>8. QED
  BY <1>5, <1>7 DEF NoUserInputs, b, ctx

-----------------------------------------------------------------------------
(* The inductive invariant.                                                 *)

\* What a run keeps until its result is published.
RunKept ==
  /\ phase # "FOLLOWED" => UntouchedCase
  /\ phase \in {"ASSESS", "PROPOSE", "RANK"} => SoundAnswers(outcomes)
  /\ phase \in {"AUDIT", "COMMIT"} => KeptBundle(bundle, 1, {}) /\ NoUserInputs(bundle)

\* The results there are, the current one and those a recomputation may start from.
ResultsKept ==
  /\ IF phase \in {"DONE", "FOLLOWED"} THEN KeptBundle(result, version, DOMAIN terms)
     ELSE result = None
  /\ queued # None => KeptBundle(queued, version, DOMAIN terms)
  /\ \A s \in selections :
       IsCase(s.candidate) /\ KeptBundle(s.bundle, version, DOMAIN terms)

\* The inductive invariant: what a recomputation may start from and read is consistent, so
\* what it leaves is current.
CaseInv ==
  /\ CaseKept
  /\ RunKept
  /\ ResultsKept
  /\ UserInputsAreCurrent
  /\ ContestedStaysOpen

\* What the two properties ask of one candidate.
CandidateCurrent(c) ==
  /\ \A category \in DOMAIN c.inputs : LineIsCurrent(c.id, category, c.inputs[category])
  /\ \A category \in InitialCategory :
       c.id = activeCase /\ Entered(c.id, category) = None /\ Contradicted(category) =>
         LeftOpen(c, category)

\* If it holds of each, they hold.
LEMMA WhenCandidatesAreCurrent ==
  ASSUME \A c \in CurrentCandidates : CandidateCurrent(c)
  PROVE  UserInputsAreCurrent /\ ContestedStaysOpen
<1>1. UserInputsAreCurrent
  BY DEF CandidateCurrent, LineIsCurrent, UserInputsAreCurrent
<1>2. ContestedStaysOpen
  BY DEF CandidateCurrent, Contradicted, LeftOpen, ContestedStaysOpen
<1>3. QED
  BY <1>1, <1>2

\* No case contradicts itself while it has no claims.
LEMMA NoClaimsNoContradiction ==
  claims = {} => \A category : ~Contradicted(category)
<1>1. ASSUME claims = {}, NEW category
      PROVE  ~Contradicted(category)
  <2> DEFINE first == Families(category)[1]
  <2>1. {claim.value : claim \in ActiveClaims(first[1], first[2])} = {}
    BY <1>1 DEF ActiveClaims
  <2>2. Cardinality({claim.value : claim \in ActiveClaims(first[1], first[2])}) = 0
    BY <2>1, FS_EmptySet
  <2>3. SUFFICES ASSUME Contradicted(category)
                 PROVE  FALSE
    OBVIOUS
  <2>4. Cardinality({claim.value : claim \in ActiveClaims(first[1], first[2])}) > 1
    BY <2>3 DEF Contradicted
  <2>5. QED
    BY <2>2, <2>4
<1>2. QED
  BY <1>1

\* A bundle stays kept while versions and cases grow.
LEMMA BundleStaysKept ==
  ASSUME NEW b, NEW n \in Nat, NEW cases, KeptBundle(b, n, cases),
         NEW m \in Nat, n <= m, NEW more, cases \subseteq more
  PROVE  KeptBundle(b, m, more)
<1>1. b.version \in 1..m
  BY DEF KeptBundle
<1>2. \A c \in Range(b.candidates) : KeptCandidate(c, more)
  BY DEF KeptBundle, KeptCandidate
<1>3. QED
  BY <1>1, <1>2 DEF KeptBundle

-----------------------------------------------------------------------------
\* At first there is no case and no result.
LEMMA CaseInvInit ==
  ASSUME Init
  PROVE  CaseInv
<1>1. /\ phase = "RETRIEVE" /\ result = None /\ version = 1 /\ activeCase = None
      /\ selections = {} /\ terms = <<>> /\ claims = {} /\ conflicts = {} /\ queued = None
  BY DEF Init, PipelineInit
<1>2. DOMAIN terms = {}
  BY <1>1
<1>3. TermsKept /\ ClaimsKept /\ ConflictsKept
  BY <1>1, <1>2, FS_EmptySet DEF TermsKept, ClaimsKept, ConflictsKept
<1>4. CaseKept
  BY <1>1, <1>3 DEF CaseKept
<1>5. RunKept /\ ResultsKept
  BY <1>1 DEF RunKept, ResultsKept, UntouchedCase
<1>6. CurrentCandidates = {}
  BY <1>1 DEF CurrentCandidates, Candidates
<1>7. QED
  BY <1>4, <1>5, <1>6, WhenCandidatesAreCurrent DEF CaseInv

\* What does not concern the case leaves it consistent.
LEMMA CaseStays ==
  ASSUME CaseInv, UNCHANGED <<result, runVars, caseVars>>
  PROVE  CaseInv'
<1>1. /\ version' = version /\ activeCase' = activeCase /\ selections' = selections
      /\ terms' = terms /\ claims' = claims /\ conflicts' = conflicts /\ queued' = queued
      /\ result' = result
      /\ phase' = phase /\ outcomes' = outcomes /\ bundle' = bundle
  BY DEF caseVars, runVars
<1>2. CaseKept'
  BY <1>1 DEF CaseInv, CaseKept, TermsKept, ClaimsKept, ConflictsKept, SameFact
<1>3. RunKept' /\ ResultsKept'
  BY <1>1 DEF CaseInv, RunKept, ResultsKept, UntouchedCase
<1>4. UserInputsAreCurrent'
  BY <1>1 DEF CaseInv, UserInputsAreCurrent, CurrentCandidates, Candidates, Entered,
     DocumentSays, ActiveClaims, Undisputed
<1>5. ContestedStaysOpen'
  BY <1>1 DEF CaseInv, ContestedStaysOpen, CurrentCandidates, Candidates, Entered,
     ActiveClaims
<1>6. QED
  BY <1>2, <1>3, <1>4, <1>5 DEF CaseInv

\* Before the first result there is nothing that could be out of date.
LEMMA RunStepKeeps ==
  ASSUME CaseInv, UNCHANGED <<result, caseVars>>, phase \notin {"DONE", "FOLLOWED"},
         phase' \notin {"DONE", "FOLLOWED"}, RunKept'
  PROVE  CaseInv'
<1>1. /\ version' = version /\ activeCase' = activeCase /\ selections' = selections
      /\ terms' = terms /\ claims' = claims /\ conflicts' = conflicts /\ queued' = queued
      /\ result' = result
  BY DEF caseVars
<1>2. CaseKept'
  BY <1>1 DEF CaseInv, CaseKept, TermsKept, ClaimsKept, ConflictsKept, SameFact
<1>3. ResultsKept' /\ result' = None
  BY <1>1 DEF CaseInv, ResultsKept
<1>4. CurrentCandidates' = {}
  BY <1>3 DEF CurrentCandidates, Candidates
<1>5. UserInputsAreCurrent' /\ ContestedStaysOpen'
  BY <1>4 DEF UserInputsAreCurrent, ContestedStaysOpen
<1>6. QED
  BY <1>2, <1>3, <1>5 DEF CaseInv

-----------------------------------------------------------------------------
(* The steps of the first run.                                              *)

\* The untouched case stays so during a run.
LEMMA UntouchedStays ==
  ASSUME UntouchedCase, UNCHANGED caseVars
  PROVE  UntouchedCase'
BY DEF UntouchedCase, caseVars

\* Retrieval brings brands that a tool lists.
LEMMA RetrieveKeepsRun ==
  ASSUME PipelineInv, CaseInv, UNCHANGED <<result, caseVars>>, NEW failed, Retrieve(failed)
  PROVE  CaseInv'
<1> DEFINE first == RetrieveAll(Calls, failed)
           disclosures == RetrieveAll(DisclosureCalls(first), failed)
           all == first \o disclosures
<1>1. AreOutcomes(first) /\ SoundAnswers(first)
  BY ListOfCalls, RetrievedAreOutcomes, RetrievedAreSound
<1> HIDE DEF first
<1>2. AreOutcomes(disclosures) /\ SoundAnswers(disclosures)
  BY <1>1, ListOfBrands, RetrievedAreOutcomes, RetrievedAreSound
<1> HIDE DEF disclosures
<1>3. AreOutcomes(all) /\ SoundAnswers(all)
  BY <1>1, <1>2, JoinedOutcomes, JoinedAreSound DEF AreOutcomes
<1>4. /\ phase = "RETRIEVE" /\ phase' = "ASSESS"
      /\ outcomes' = [k \in DOMAIN all |-> WithOfficialRagEvidence(all[k])]
  BY DEF Retrieve, first, disclosures
<1> HIDE DEF all
<1>5. SoundAnswers(outcomes')
  BY <1>3, <1>4, RetrieveLeavesSound
<1>6. UntouchedCase'
  BY <1>4, UntouchedStays DEF CaseInv, RunKept
<1>7. RunKept'
  <2>1. SoundAnswers(outcomes)'
    BY <1>5 DEF SoundAnswers
  <2>2. QED
    BY <1>4, <1>6, <2>1 DEF RunKept
<1>8. QED
  BY <1>4, <1>7, RunStepKeeps

\* linear_agent_pipeline.py:176-430: agents are asked, and the case does not know of it.
LEMMA AskingKeepsRun ==
  ASSUME CaseInv, UNCHANGED <<result, caseVars>>, outcomes' = outcomes,
         phase \in {"ASSESS", "PROPOSE"}, phase' \in {"PROPOSE", "RANK", "FAILED"}
  PROVE  CaseInv'
<1>1. SoundAnswers(outcomes)'
  BY DEF CaseInv, RunKept, SoundAnswers
<1>2. UntouchedCase'
  BY UntouchedStays DEF CaseInv, RunKept
<1>3. RunKept'
  BY <1>1, <1>2 DEF RunKept
<1>4. QED
  BY <1>3, RunStepKeeps

\* The first result has no user inputs.
LEMMA RankKeepsRun ==
  ASSUME PipelineInv, CaseInv, UNCHANGED <<result, caseVars>>, RankProposals
  PROVE  CaseInv'
<1> DEFINE b == Build(ProposalContext)
<1>1. /\ phase = "RANK" /\ bundle' = b
      /\ phase' = IF Drafts(ProposalContext) = <<>> THEN "FAILED" ELSE "AUDIT"
  BY DEF RankProposals
<1>2. AskedForProposals /\ Proposals(Tail(asked)) # <<>>
  BY <1>1 DEF PipelineInv
<1>3. Drafts(ProposalContext) # <<>>
  BY <1>2, ProposedHaveDrafts
<1>4. ListsKnown(FranchiseUniverse)
  BY <1>1, <1>2, FranchiseUniverseIsKnown DEF AskedForProposals, CaseInv, RunKept
<1>5. KeptBundle(b, 1, {}) /\ NoUserInputs(b)
  BY <1>3, <1>4, FirstBuilt
<1> HIDE DEF b
<1>6. phase' = "AUDIT"
  BY <1>1, <1>3
<1>7. KeptBundle(bundle', 1, {}) /\ NoUserInputs(bundle')
  BY <1>1, <1>5
<1>8. UntouchedCase'
  BY <1>1, UntouchedStays DEF CaseInv, RunKept
<1>9. RunKept'
  BY <1>6, <1>7, <1>8 DEF RunKept, KeptBundle, NoUserInputs
<1>10. QED
  BY <1>1, <1>6, <1>9, RunStepKeeps

\* linear_agent_pipeline.py:531-563: an audit changes no candidate.
LEMMA AuditKeepsRun ==
  ASSUME PipelineInv, CaseInv, UNCHANGED <<result, caseVars>>, NEW defect, Audit(defect)
  PROVE  CaseInv'
<1> DEFINE answer == Asks(AuditTask, defect)
<1>1. /\ phase = "AUDIT"
      /\ \/ phase' = "FAILED"
         \/ phase' = "COMMIT" /\ bundle' = [bundle EXCEPT !.audit = AuditStatus(answer)]
  BY DEF Audit
<1> HIDE DEF answer
<1>2. IsBundle(bundle) /\ KeptBundle(bundle, 1, {}) /\ NoUserInputs(bundle)
  BY <1>1 DEF PipelineInv, CaseInv, RunKept
<1>3. phase' = "COMMIT" =>
        bundle'.candidates = bundle.candidates /\ bundle'.version = bundle.version
  BY <1>1, <1>2 DEF IsBundle
<1>4. phase' = "COMMIT" => KeptBundle(bundle', 1, {}) /\ NoUserInputs(bundle')
  BY <1>2, <1>3 DEF KeptBundle, NoUserInputs
<1>5. UntouchedCase'
  BY <1>1, UntouchedStays DEF CaseInv, RunKept
<1>6. RunKept'
  BY <1>1, <1>4, <1>5 DEF RunKept, KeptBundle, NoUserInputs
<1>7. QED
  BY <1>1, <1>6, RunStepKeeps

\* first_proposal_repository.py: the first result is published as it was audited.
LEMMA PublishKeepsCase ==
  ASSUME CaseInv, UNCHANGED caseVars, Publish
  PROVE  CaseInv'
<1>1. /\ phase = "COMMIT" /\ result' = bundle /\ phase' \in {"FOLLOWED", "DONE"}
  BY DEF Publish
<1>2. UntouchedCase' /\ KeptBundle(bundle, 1, {}) /\ NoUserInputs(bundle)
  BY <1>1, UntouchedStays DEF CaseInv, RunKept
<1>3. /\ version' = 1 /\ DOMAIN terms' = {} /\ claims' = {} /\ queued' = None
      /\ selections' = {}
  BY <1>2 DEF UntouchedCase
<1>4. CaseKept'
  <2>1. /\ version' = version /\ activeCase' = activeCase /\ terms' = terms
        /\ claims' = claims /\ conflicts' = conflicts
    BY DEF caseVars
  <2>2. QED
    BY <2>1 DEF CaseInv, CaseKept, TermsKept, ClaimsKept, ConflictsKept, SameFact
<1>5. RunKept'
  BY <1>1, <1>2 DEF RunKept
<1>6. KeptBundle(result', version', DOMAIN terms')
  BY <1>1, <1>2, <1>3
<1>7. ResultsKept'
  BY <1>1, <1>3, <1>6 DEF ResultsKept
<1>8. ASSUME NEW c \in CurrentCandidates'
      PROVE  CandidateCurrent(c)'
  <2>1. c \in Range(bundle.candidates)
    BY <1>1 DEF CurrentCandidates, Candidates
  <2>2. \A id, category : Entered(id, category)' = None
    BY <1>3 DEF Entered
  <2>3. \A category \in DOMAIN c.inputs :
          LineIsCurrent(c.id, category, c.inputs[category])'
    BY <1>2, <2>1, <2>2 DEF NoUserInputs, LineIsCurrent
  <2>4. \A category : ~Contradicted(category)'
    <3>1. (claims = {} => \A category : ~Contradicted(category))'
      BY NoClaimsNoContradiction, PTL
    <3>2. QED
      BY <1>3, <3>1
  <2>5. QED
    BY <2>3, <2>4 DEF CandidateCurrent
<1>9. UserInputsAreCurrent' /\ ContestedStaysOpen'
  <2>1. (\A c \in CurrentCandidates : CandidateCurrent(c))'
    BY <1>8
  <2>2. QED
    BY <2>1, WhenCandidatesAreCurrent, PTL
<1>10. QED
  BY <1>4, <1>5, <1>7, <1>9 DEF CaseInv

-----------------------------------------------------------------------------
(* The recomputation.                                                       *)

\* What the properties are about has not changed.
LEMMA CurrentStays ==
  ASSUME UNCHANGED <<version, activeCase, terms, claims, result>>,
         UserInputsAreCurrent, ContestedStaysOpen
  PROVE  UserInputsAreCurrent' /\ ContestedStaysOpen'
<1>1. UserInputsAreCurrent'
  BY DEF UserInputsAreCurrent, CurrentCandidates, Candidates, Entered,
     DocumentSays, ActiveClaims, Undisputed
<1>2. ContestedStaysOpen'
  BY DEF ContestedStaysOpen, CurrentCandidates, Candidates, Entered, ActiveClaims
<1>3. QED
  BY <1>1, <1>2

\* The case stays consistent while nothing happens to it.
LEMMA CaseStaysKept ==
  ASSUME CaseKept, UNCHANGED <<version, activeCase, terms, claims, conflicts>>
  PROVE  CaseKept'
BY DEF CaseKept, TermsKept, ClaimsKept, ConflictsKept, SameFact

\* execution.py:180-260: a recomputation leaves a result that is current.
LEMMA RecomputeKeepsCase ==
  ASSUME CaseInv, Recompute
  PROVE  CaseInv'
<1> DEFINE ctx == RecomputeContext(queued)
           b == Build(ctx)
<1>1. /\ queued # None /\ queued' = None
      /\ version' = version /\ activeCase' = activeCase /\ selections' = selections
      /\ terms' = terms /\ claims' = claims /\ conflicts' = conflicts
      /\ phase' = phase /\ UNCHANGED runVars
      /\ result' = IF b = None THEN result ELSE b
  BY DEF Recompute, Replace, runVars
<1>2. phase = "FOLLOWED" /\ KeptBundle(queued, version, DOMAIN terms) /\ CaseKept
  BY <1>1 DEF CaseInv, RunKept, ResultsKept, UntouchedCase
<1>3. CaseKept' /\ RunKept'
  BY <1>1, <1>2, CaseStaysKept DEF RunKept
<1>4. CASE b = None
  <2>1. ResultsKept'
    BY <1>1, <1>2, <1>4 DEF CaseInv, ResultsKept
  <2>2. UserInputsAreCurrent' /\ ContestedStaysOpen'
    BY <1>1, <1>4, CurrentStays DEF CaseInv
  <2>3. QED
    BY <1>3, <2>1, <2>2 DEF CaseInv
<1>5. CASE b # None
  <2>1. Drafts(ctx) # <<>>
    BY <1>5 DEF Build
  <2>2. ListsKnown(ctx.universe) /\ ctx.version = version /\ ctx.property = Shop
    BY <1>2, ContextOfRecompute, UniverseIsKnown, ShopOfContext
  <2>3. version \in Nat /\ version \in 1..version
    BY <1>2 DEF CaseKept, KeptBundle
  <2>4. ASSUME NEW source \in CaseSource, PropertyOf(ctx, source) # None
        PROVE  IdOf(source) \in DOMAIN terms
    <3>1. Shop # None /\ Shop.source = source
      BY <2>2, <2>4 DEF PropertyOf
    <3>2. activeCase \in DOMAIN terms /\ Shop = terms[activeCase]
      BY <3>1 DEF Shop
    <3>3. IsCase(activeCase) /\ activeCase[2] = source
      BY <1>2, <3>1, <3>2 DEF CaseKept, TermsKept
    <3>4. QED
      BY <3>2, <3>3, IdsAreOfSources DEF IsCase
  <2>5. KeptBundle(b, version, DOMAIN terms)
    BY <2>1, <2>2, <2>3, <2>4, BuiltIsKept
  <2>6. \A c \in Range(b.candidates) : FromDrafts(ctx, c)
    BY <2>1, <2>2, BuiltFromDrafts DEF ListsKnown
  <2>7. ASSUME NEW c \in Range(b.candidates)
        PROVE  CandidateCurrent(c)
    <3>1. FromDrafts(ctx, c)
      BY <2>6
    <3>2. \A category \in DOMAIN c.inputs :
            LineIsCurrent(c.id, category, c.inputs[category])
      BY <1>2, <3>1, CandidateIsCurrent
    <3>3. ASSUME NEW category \in InitialCategory, c.id = activeCase,
                 Entered(c.id, category) = None, Contradicted(category)
          PROVE  LeftOpen(c, category)
      BY <1>2, <3>1, <3>3, ContradictedCandidate
    <3>4. QED
      BY <3>2, <3>3 DEF CandidateCurrent
  <2> HIDE DEF b, ctx
  <2>8. ASSUME NEW c \in CurrentCandidates'
        PROVE  CandidateCurrent(c)'
    <3>1. c \in Range(b.candidates)
      BY <1>1, <1>5, <2>8 DEF CurrentCandidates, Candidates
    <3>2. CandidateCurrent(c)
      BY <2>7, <3>1
    <3>3. (\A id, category : Entered(id, category)' = Entered(id, category))
          /\ (\A document, type :
                ActiveClaims(document, type)' = ActiveClaims(document, type))
      BY <1>1 DEF Entered, ActiveClaims
    <3>4. QED
      BY <1>1, <3>2, <3>3 DEF CandidateCurrent, LineIsCurrent, Contradicted, LeftOpen,
         DocumentSays, Undisputed
  <2>9. UserInputsAreCurrent' /\ ContestedStaysOpen'
    <3>1. (\A c \in CurrentCandidates : CandidateCurrent(c))'
      BY <2>8
    <3>2. QED
      BY <3>1, WhenCandidatesAreCurrent, PTL
  <2>10. KeptBundle(result', version', DOMAIN terms')
    BY <1>1, <1>5, <2>5
  <2>11. ResultsKept'
    BY <1>1, <1>2, <2>10 DEF CaseInv, ResultsKept
  <2>12. QED
    BY <1>3, <2>9, <2>11 DEF CaseInv
<1>6. QED
  BY <1>4, <1>5

-----------------------------------------------------------------------------
\* A command that makes a version leaves no result that claims to be current.
LEMMA NextVersion ==
  ASSUME CaseInv, phase = "FOLLOWED", UNCHANGED <<result, runVars>>, version' = version + 1,
         CaseKept', DOMAIN terms \subseteq DOMAIN terms',
         queued' # None => KeptBundle(queued', version, DOMAIN terms),
         \A s \in selections' :
           IsCase(s.candidate) /\ KeptBundle(s.bundle, version, DOMAIN terms)
  PROVE  CaseInv'
<1>1. version \in Nat /\ KeptBundle(result, version, DOMAIN terms)
  BY DEF CaseInv, CaseKept, ResultsKept
<1>2. phase' = "FOLLOWED" /\ result' = result
  BY DEF runVars
<1>3. \A b : KeptBundle(b, version, DOMAIN terms) => KeptBundle(b, version', DOMAIN terms')
  BY <1>1, BundleStaysKept
<1>4. ResultsKept'
  BY <1>1, <1>2, <1>3 DEF ResultsKept
<1>5. RunKept'
  BY <1>2 DEF RunKept
<1>6. CurrentCandidates' = {}
  <2>1. result'.version # version'
    BY <1>1, <1>2 DEF KeptBundle
  <2>2. QED
    BY <2>1 DEF CurrentCandidates
<1>7. UserInputsAreCurrent' /\ ContestedStaysOpen'
  BY <1>6 DEF UserInputsAreCurrent, ContestedStaysOpen
<1>8. QED
  BY <1>4, <1>5, <1>7 DEF CaseInv

-----------------------------------------------------------------------------
(* The commands of the user.                                                *)

\* The same claims at the next version.
LEMMA ClaimsAge ==
  ASSUME CaseKept, version' = version + 1, claims' = claims, conflicts' = conflicts
  PROVE  ClaimsKept' /\ ConflictsKept'
<1>1. version \in Nat
  BY DEF CaseKept
<1>2. \A i \in 1..(10 * version + 9) : i \in 1..(10 * version' + 9)
  BY <1>1
<1>3. ClaimsKept'
  BY <1>2 DEF CaseKept, ClaimsKept
<1>4. ConflictsKept'
  BY <1>2 DEF CaseKept, ConflictsKept, SameFact
<1>5. QED
  BY <1>3, <1>4

\* selections/service.py: the selected candidate is a case.
LEMMA SelectKeepsCase ==
  ASSUME CaseInv, phase = "FOLLOWED", NEW c \in Range(result.candidates), Select(c)
  PROVE  CaseInv'
<1>1. /\ version' = version + 1 /\ activeCase' = c.id /\ queued' = None
      /\ selections' = selections \cup {[candidate |-> c.id, bundle |-> result]}
      /\ terms' = terms /\ claims' = claims /\ conflicts' = conflicts
      /\ UNCHANGED <<result, runVars>>
  BY DEF Select
<1>2. CaseKept /\ KeptBundle(result, version, DOMAIN terms)
  BY DEF CaseInv, ResultsKept
<1>3. IsCase(c.id)
  BY <1>2 DEF KeptBundle, KeptCandidate, IsCase
<1>4. ClaimsKept' /\ ConflictsKept'
  BY <1>1, <1>2, ClaimsAge
<1>5. TermsKept'
  BY <1>1, <1>2 DEF CaseKept, TermsKept
<1>6. CaseKept'
  BY <1>1, <1>2, <1>3, <1>4, <1>5 DEF CaseKept
<1>7. \A s \in selections' :
        IsCase(s.candidate) /\ KeptBundle(s.bundle, version, DOMAIN terms)
  BY <1>1, <1>2, <1>3 DEF CaseInv, ResultsKept
<1>8. QED
  BY <1>1, <1>6, <1>7, NextVersion

\* property_terms.py: the terms of the active case are entered.
LEMMA TermsKeepCase ==
  ASSUME CaseInv, phase = "FOLLOWED", NEW selection \in selections, NEW shop \in ShopTerms,
         ApplyTerms(selection, shop)
  PROVE  CaseInv'
<1> DEFINE entered == TermsOfActiveCase(shop)
<1>1. /\ version' = version + 1 /\ queued' = selection.bundle
      /\ selection.candidate = activeCase
      /\ terms' = [case \in DOMAIN terms \cup {activeCase} |->
                     IF case = activeCase THEN entered ELSE terms[case]]
      /\ activeCase' = activeCase /\ selections' = selections
      /\ claims' = claims /\ conflicts' = conflicts
      /\ UNCHANGED <<result, runVars>>
  BY DEF ApplyTerms, Changed
<1>2. CaseKept /\ IsCase(activeCase) /\ KeptBundle(selection.bundle, version, DOMAIN terms)
  BY <1>1 DEF CaseInv, ResultsKept
<1>3. entered \in Terms /\ entered.source = activeCase[2]
  <2>1. version + 1 \in Nat
    BY <1>2 DEF CaseKept
  <2>2. activeCase[2] \in CaseSource
    BY <1>2, IdsAreOfSources DEF IsCase
  <2>3. /\ shop.deposit \in Nat /\ shop.rent \in Nat /\ shop.fee \in Nat
        /\ shop.keyMoney \in Nat \cup {None}
    <3>1. shop \in [deposit : Nat, rent : Nat, fee : Nat, keyMoney : Nat \cup {None}]
      BY CaseAssumption
    <3>2. QED
      BY <3>1
  <2>4. QED
    BY <2>1, <2>2, <2>3 DEF TermsOfActiveCase, Terms
<1> HIDE DEF entered
<1>4. DOMAIN terms' = DOMAIN terms \cup {activeCase}
  BY <1>1
<1>5. \A case \in DOMAIN terms' :
        IsCase(case) /\ terms'[case] \in Terms /\ terms'[case].source = case[2]
  <2>1. \A case \in DOMAIN terms' :
          terms'[case] = IF case = activeCase THEN entered ELSE terms[case]
    BY <1>1
  <2>2. QED
    BY <1>2, <1>3, <1>4, <2>1 DEF CaseKept, TermsKept
<1>6. TermsKept'
  BY <1>5 DEF TermsKept
<1>7. ClaimsKept' /\ ConflictsKept'
  BY <1>1, <1>2, ClaimsAge
<1>8. CaseKept'
  BY <1>1, <1>2, <1>6, <1>7 DEF CaseKept
<1>9. \A s \in selections' :
        IsCase(s.candidate) /\ KeptBundle(s.bundle, version, DOMAIN terms)
  BY <1>1 DEF CaseInv, ResultsKept
<1>10. QED
  BY <1>1, <1>2, <1>4, <1>8, <1>9, NextVersion

\* feedback: only what is known of the founder changes.
LEMMA FeedbackKeepsCase ==
  ASSUME CaseInv, phase = "FOLLOWED", NEW updated, ConfirmFeedback(updated)
  PROVE  CaseInv'
<1>1. /\ version' = version + 1 /\ queued' = result
      /\ activeCase' = activeCase /\ selections' = selections /\ terms' = terms
      /\ claims' = claims /\ conflicts' = conflicts
      /\ UNCHANGED <<result, runVars>>
  BY DEF ConfirmFeedback, Changed
<1>2. CaseKept /\ KeptBundle(result, version, DOMAIN terms)
  BY DEF CaseInv, ResultsKept
<1>3. ClaimsKept' /\ ConflictsKept'
  BY <1>1, <1>2, ClaimsAge
<1>4. CaseKept'
  BY <1>1, <1>2, <1>3 DEF CaseKept, TermsKept
<1>5. QED
  BY <1>1, <1>2, <1>4, NextVersion DEF CaseInv, ResultsKept

\* evidence/refresh.py: the result stays current, and the recomputation starts from it.
LEMMA RefreshKeepsCase ==
  ASSUME CaseInv, phase = "FOLLOWED", NEW stale, RefreshEvidence(stale)
  PROVE  CaseInv'
<1>1. /\ version' = version /\ queued' = result
      /\ activeCase' = activeCase /\ selections' = selections /\ terms' = terms
      /\ claims' = claims /\ conflicts' = conflicts /\ result' = result
      /\ phase' = phase
  BY DEF RefreshEvidence, runVars
<1>2. CaseKept' /\ RunKept'
  BY <1>1, CaseStaysKept DEF CaseInv, RunKept
<1>3. ResultsKept'
  BY <1>1 DEF CaseInv, ResultsKept
<1>4. UserInputsAreCurrent' /\ ContestedStaysOpen'
  BY <1>1, CurrentStays DEF CaseInv
<1>5. QED
  BY <1>2, <1>3, <1>4 DEF CaseInv

\* extraction.py: the ids of claims are of the version they were confirmed in.
LEMMA NewClaims ==
  ASSUME CaseKept, IsCase(activeCase), NEW revision \in DOMAIN Forms
  PROVE  LET new == ClaimsIn(revision) IN
         /\ IsFiniteSet(new)
         /\ \A c \in new :
              /\ c.id \in (10 * version + 10)..(10 * version + 19)
              /\ c.case = activeCase
              /\ c.source = activeCase[2]
              /\ c.revision = revision
         /\ \A c, d \in new : c.id = d.id => c = d
<1> DEFINE form == Forms[revision].claims
           Claim(k) ==
             [id |-> 10 * (version + 1) + k, case |-> activeCase, source |-> activeCase[2],
              document |-> Forms[revision].document, revision |-> revision,
              type |-> form[k].type, value |-> form[k].value, unit |-> form[k].unit]
           f == [k \in DOMAIN form |-> Claim(k)]
           new == ClaimsIn(revision)
<1>1. version \in Nat
  BY DEF CaseKept
<1>2. DOMAIN form = 1..Len(form) /\ Len(form) \in 0..9
  <2>1. List(form) /\ Len(form) < 10
    BY CaseAssumption
  <2> HIDE DEF form
  <2>2. Len(form) \in Nat /\ DOMAIN form = 1..Len(form)
    BY <2>1, ListBasics
  <2>3. \A n \in Nat : n < 10 => n \in 0..9
    OBVIOUS
  <2>4. QED
    BY <2>1, <2>2, <2>3, Zenon
<1>3. new = {Claim(k) : k \in DOMAIN form}
  BY DEF ClaimsIn
<1>4. \A k : /\ Claim(k).id = 10 * (version + 1) + k
             /\ Claim(k).case = activeCase /\ Claim(k).source = activeCase[2]
             /\ Claim(k).revision = revision
  OBVIOUS
<1>5. new = {f[k] : k \in 1..Len(form)}
  BY <1>2, <1>3
<1> HIDE DEF form, Claim, f, new
<1>6. IsFiniteSet(new)
  <2>1. IsFiniteSet(1..Len(form))
    BY <1>2, FS_Interval
  <2>2. QED
    BY <1>5, <2>1, ImageIsFinite
<1>7. ASSUME NEW c \in new
      PROVE  /\ c.id \in (10 * version + 10)..(10 * version + 19)
             /\ c.case = activeCase
             /\ c.source = activeCase[2]
             /\ c.revision = revision
  <2>1. PICK k \in 1..Len(form) : c = Claim(k)
    BY <1>2, <1>3
  <2>2. c.id = 10 * (version + 1) + k /\ k \in 1..9
    BY <1>2, <1>4, <2>1
  <2>3. QED
    BY <1>1, <1>4, <2>1, <2>2
<1>8. ASSUME NEW c \in new, NEW d \in new, c.id = d.id
      PROVE  c = d
  <2>1. PICK k \in 1..Len(form) : c = Claim(k)
    BY <1>2, <1>3
  <2>2. PICK l \in 1..Len(form) : d = Claim(l)
    BY <1>2, <1>3
  <2>3. 10 * (version + 1) + k = 10 * (version + 1) + l
    BY <1>4, <1>8, <2>1, <2>2
  <2>4. k = l
    BY <1>1, <1>2, <2>3
  <2>5. QED
    BY <2>1, <2>2, <2>4
<1>9. QED
  BY <1>6, <1>7, <1>8 DEF new

\* A conflict of a claim with others that say something else of its fact.
Joins(k, c, others) ==
  /\ k = {c.id} \cup {d.id : d \in others}
  /\ \A d \in others : SameFact(c, d)

\* A claim's conflict holds it and all that say something else of its fact.
LEMMA NewConflicts ==
  ASSUME NEW old, NEW new, NEW k \in ConflictsOf(old, new)
  PROVE  \E c \in new : \E others \in SUBSET old : Joins(k, c, others)
<1> DEFINE Others(c) ==
             {d \in old : /\ d.case = c.case
                          /\ d.type = c.type
                          /\ d.document = c.document
                          /\ d.value # c.value}
<1>1. PICK c \in new : k = {c.id} \cup {d.id : d \in Others(c)}
  BY DEF ConflictsOf
<1>2. Others(c) \in SUBSET old /\ \A d \in Others(c) : SameFact(c, d)
  BY DEF SameFact
<1> HIDE DEF Others
<1>3. Joins(k, c, Others(c))
  BY <1>1, <1>2 DEF Joins
<1>4. QED
  BY <1>2, <1>3

\* extraction.py:586-640: a claim that says another value than one before is in a conflict
\* with it.
LEMMA ConflictIsNoted ==
  ASSUME NEW old, NEW new, NEW c \in new, NEW d \in old, SameFact(c, d), c.value # d.value
  PROVE  \E k \in ConflictsOf(old, new) : c.id \in k /\ d.id \in k
<1> DEFINE Others(e) ==
             {x \in old : /\ x.case = e.case
                          /\ x.type = e.type
                          /\ x.document = e.document
                          /\ x.value # e.value}
           k == {c.id} \cup {e.id : e \in Others(c)}
<1>1. d \in Others(c)
  BY DEF SameFact
<1>2. c \in {e \in new : Others(e) # {}}
  BY <1>1
<1>3. ConflictsOf(old, new) =
        {{e.id} \cup {x.id : x \in Others(e)} : e \in {y \in new : Others(y) # {}}}
  BY DEF ConflictsOf
<1> HIDE DEF Others
<1>4. k \in ConflictsOf(old, new)
  BY <1>2, <1>3
<1>5. c.id \in k /\ d.id \in k
  BY <1>1
<1>6. QED
  BY <1>4, <1>5

\* extraction.py:520-640: the claims of a form, and their conflicts with those before.
LEMMA DocumentKeepsCase ==
  ASSUME CaseInv, phase = "FOLLOWED", NEW revision \in DOMAIN Forms, ApplyDocument(revision)
  PROVE  CaseInv'
<1> DEFINE new == ClaimsIn(revision)
           noted == ConflictsOf(claims, new)
           bound == 10 * version + 9
<1>1. /\ version' = version + 1 /\ queued' = result
      /\ activeCase' = activeCase /\ activeCase # None
      /\ selections' = selections /\ terms' = terms
      /\ claims' = claims \cup new /\ conflicts' = conflicts \cup noted
      /\ \A c \in claims : c.revision # revision
      /\ UNCHANGED <<result, runVars>>
  BY DEF ApplyDocument, Changed
<1>2. CaseKept /\ IsCase(activeCase) /\ KeptBundle(result, version, DOMAIN terms)
  BY <1>1 DEF CaseInv, ResultsKept, CaseKept
<1>3. version \in Nat /\ ClaimsKept /\ ConflictsKept /\ TermsKept
  BY <1>2 DEF CaseKept
<1>4. /\ IsFiniteSet(new)
      /\ \A c \in new :
           /\ c.id \in (bound + 1)..(bound + 10)
           /\ c.case = activeCase
           /\ c.source = activeCase[2]
           /\ c.revision = revision
      /\ \A c, d \in new : c.id = d.id => c = d
  <2>1. 10 * version + 10 = bound + 1 /\ 10 * version + 19 = bound + 10
    BY <1>3
  <2> HIDE DEF bound, new
  <2>2. QED
    BY <1>2, <2>1, NewClaims DEF new
<1>5. bound \in Nat /\ 10 * version' + 9 = bound + 10
  BY <1>1, <1>3
<1>6. \A c \in claims : c.id \in 1..bound
  BY <1>3 DEF ClaimsKept
<1> HIDE DEF new, noted, bound
<1>7. \A i : i \in 1..bound => i \in 1..(bound + 10) /\ i \notin (bound + 1)..(bound + 10)
  BY <1>5
<1>8. \A i : i \in (bound + 1)..(bound + 10) => i \in 1..(bound + 10)
  BY <1>5
<1>9. \A c, d \in claims' : c.id = d.id => c = d
  <2>1. \A c, d \in claims : c.id = d.id => c = d
    BY <1>3 DEF ClaimsKept
  <2>2. QED
    BY <1>1, <1>4, <1>6, <1>7, <2>1
<1>10. ClaimsKept'
  <2>1. IsFiniteSet(claims')
    BY <1>1, <1>3, <1>4, FS_Union DEF ClaimsKept
  <2>2. ASSUME NEW c \in claims'
        PROVE  /\ c.id \in 1..(10 * version' + 9)
               /\ IsCase(c.case)
               /\ c.source = c.case[2]
               /\ c.revision \in DOMAIN Forms
    <3>1. CASE c \in claims
      BY <1>3, <1>5, <1>6, <1>7, <3>1 DEF ClaimsKept
    <3>2. CASE c \in new
      BY <1>2, <1>4, <1>5, <1>8, <3>2
    <3>3. QED
      BY <1>1, <3>1, <3>2
  <2>3. QED
    BY <1>9, <2>1, <2>2 DEF ClaimsKept
<1>11. ASSUME NEW k \in conflicts'
       PROVE  /\ k \subseteq 1..(bound + 10)
              /\ \A c, d \in claims' : c.id \in k /\ d.id \in k => SameFact(c, d)
  <2>1. CASE k \in conflicts
    <3>1. /\ k \subseteq 1..bound
          /\ \A c, d \in claims : c.id \in k /\ d.id \in k => SameFact(c, d)
      BY <1>3, <2>1 DEF ConflictsKept, bound
    <3>2. \A c \in new : c.id \notin k
      BY <1>4, <1>7, <3>1
    <3>3. QED
      BY <1>1, <1>7, <3>1, <3>2
  <2>2. CASE k \in noted
    <3>1. k \in ConflictsOf(claims, new)
      BY <2>2 DEF noted
    <3>2. PICK c \in new : \E others \in SUBSET claims : Joins(k, c, others)
      BY <3>1, NewConflicts
    <3>3. PICK others \in SUBSET claims : Joins(k, c, others)
      BY <3>2
    <3>4. /\ k = {c.id} \cup {d.id : d \in others}
          /\ \A d \in others : SameFact(c, d)
      BY <3>3 DEF Joins
    <3>5. k \subseteq 1..(bound + 10)
      BY <1>4, <1>6, <1>7, <1>8, <3>4
    <3>6. ASSUME NEW d \in claims', d.id \in k
          PROVE  SameFact(c, d)
      <4>1. CASE d.id = c.id
        <5>1. d = c
          BY <1>1, <1>9, <3>4, <4>1
        <5>2. QED
          BY <5>1 DEF SameFact
      <4>2. CASE d.id # c.id
        <5>1. PICK e \in others : d.id = e.id
          BY <3>4, <3>6, <4>2
        <5>2. d = e
          BY <1>1, <1>9, <5>1
        <5>3. QED
          BY <3>4, <5>1, <5>2
      <4>3. QED
        BY <4>1, <4>2
    <3>7. QED
      BY <3>5, <3>6 DEF SameFact
  <2>3. QED
    BY <1>1, <2>1, <2>2
<1>12. ASSUME NEW c \in claims', NEW d \in claims', SameFact(c, d),
              c.revision # d.revision, c.value # d.value
       PROVE  \E k \in conflicts' : c.id \in k /\ d.id \in k
  <2>1. CASE c \in claims /\ d \in claims
    BY <1>1, <1>3, <1>12, <2>1 DEF ConflictsKept
  <2>2. CASE c \in new /\ d \in claims
    BY <1>1, <1>12, <2>2, ConflictIsNoted DEF noted
  <2>3. CASE c \in claims /\ d \in new
    <3>1. SameFact(d, c) /\ d.value # c.value
      BY <1>12 DEF SameFact
    <3>2. QED
      BY <1>1, <2>3, <3>1, ConflictIsNoted DEF noted
  <2>4. CASE c \in new /\ d \in new
    BY <1>4, <1>12, <2>4
  <2>5. QED
    BY <1>1, <2>1, <2>2, <2>3, <2>4
<1>13. ConflictsKept'
  BY <1>5, <1>11, <1>12 DEF ConflictsKept, SameFact
<1>14. CaseKept'
  BY <1>1, <1>2, <1>3, <1>10, <1>13 DEF CaseKept, TermsKept
<1>15. QED
  BY <1>1, <1>2, <1>14, NextVersion DEF CaseInv, ResultsKept

-----------------------------------------------------------------------------
\* Every command of the user keeps the case consistent.
LEMMA CommandKeepsCase ==
  ASSUME CaseInv, phase = "FOLLOWED", Command
  PROVE  CaseInv'
<1>1. ASSUME NEW c \in Range(result.candidates), Select(c)
      PROVE  CaseInv'
  BY <1>1, SelectKeepsCase
<1>2. ASSUME NEW selection \in selections, NEW shop \in ShopTerms,
             ApplyTerms(selection, shop)
      PROVE  CaseInv'
  BY <1>2, TermsKeepCase
<1>3. ASSUME NEW revision \in DOMAIN Forms, ApplyDocument(revision)
      PROVE  CaseInv'
  BY <1>3, DocumentKeepsCase
<1>4. ASSUME NEW updated, ConfirmFeedback(updated)
      PROVE  CaseInv'
  BY <1>4, FeedbackKeepsCase
<1>5. ASSUME NEW stale, RefreshEvidence(stale)
      PROVE  CaseInv'
  BY <1>5, RefreshKeepsCase
<1>6. QED
  BY <1>1, <1>2, <1>3, <1>4, <1>5 DEF Command, SetScalar, AddInterest, RemoveInterest

\* So does every step of the first run.
LEMMA PipelineKeepsCase ==
  ASSUME PipelineInv, CaseInv, PipelineStep, UNCHANGED caseVars
  PROVE  CaseInv'
<1>1. CASE Publish
  BY <1>1, PublishKeepsCase
<1>2. CASE UNCHANGED result /\ RankProposals
  BY <1>2, RankKeepsRun
<1>3. ASSUME NEW failed, Retrieve(failed), UNCHANGED result
      PROVE  CaseInv'
  BY <1>3, RetrieveKeepsRun
<1>4. ASSUME NEW defect, Assess(defect), UNCHANGED result
      PROVE  CaseInv'
  BY <1>4, AskingKeepsRun DEF Assess
<1>5. ASSUME NEW tasks, Refuse(tasks), UNCHANGED result
      PROVE  CaseInv'
  BY <1>5, AskingKeepsRun DEF Refuse
<1>6. ASSUME NEW tasks, NEW defects, Propose(tasks, defects), UNCHANGED result
      PROVE  CaseInv'
  <2>1. phase = "PROPOSE" /\ outcomes' = outcomes /\ phase' \in {"FAILED", "RANK"}
    BY <1>6 DEF Propose
  <2>2. QED
    BY <1>6, <2>1, AskingKeepsRun
<1>7. ASSUME NEW defect, Audit(defect), UNCHANGED result
      PROVE  CaseInv'
  BY <1>7, AuditKeepsRun
<1>8. QED
  BY <1>1, <1>2, <1>3, <1>4, <1>5, <1>6, <1>7 DEF PipelineStep

\* And every step of the system.
LEMMA CaseInvStep ==
  PipelineInv /\ CaseInv /\ [Next]_vars => CaseInv'
<1> SUFFICES ASSUME PipelineInv, CaseInv, [Next]_vars
             PROVE  CaseInv'
  OBVIOUS
<1>1. CASE PipelineStep /\ UNCHANGED <<founder, evidence, caseVars>>
  BY <1>1, PipelineKeepsCase
<1>2. CASE phase = "FOLLOWED" /\ Command
  BY <1>2, CommandKeepsCase
<1>3. CASE Recompute
  BY <1>3, RecomputeKeepsCase
<1>4. CASE UNCHANGED vars
  BY <1>4, CaseStays DEF vars
<1>5. QED
  BY <1>1, <1>2, <1>3, <1>4 DEF Next

\* The case, its claims, its terms and the results stay consistent, whatever is entered,
\* confirmed, selected or recomputed and in which order.
THEOREM CaseIsConsistent == Spec => []CaseInv
<1>1. Init => CaseInv
  BY CaseInvInit
<1>2. QED
  BY PipelineIsConsistent, <1>1, CaseInvStep, PTL DEF Spec

\* execution.py:180-210, case_facts.py:432-511: in a result of the current state a line of
\* the user shows the newest terms of its own case, or what a document of it says and no
\* other contradicts, whatever was selected, entered or confirmed before and in which order.
THEOREM InputsAreCurrent == Spec => []UserInputsAreCurrent
<1>1. CaseInv => UserInputsAreCurrent
  BY DEF CaseInv
<1>2. QED
  BY CaseIsConsistent, <1>1, PTL

\* case_facts.py:204-242: what the documents of the selected case contradict each other
\* about enters no sum of a current result, and its candidate is not recommended.
THEOREM ContestedIsOpen == Spec => []ContestedStaysOpen
<1>1. CaseInv => ContestedStaysOpen
  BY DEF CaseInv
<1>2. QED
  BY CaseIsConsistent, <1>1, PTL

-----------------------------------------------------------------------------
(* What a first result rests on: its lists, lines and brands.               *)

\* A list that has members has a last one.
LEMMA LastIsMember ==
  ASSUME NEW s, List(s), s # <<>>
  PROVE  Last(s) \in Range(s)
<1>1. Len(s) \in Nat /\ Len(s) # 0
  BY DEF List
<1>2. Last(s) = s[Len(s)]
  BY DEF Last
<1>3. QED
  BY <1>1, <1>2, ListBasics

\* Of finitely many natural numbers there is a largest one.
LEMMA NumbersHaveMax ==
  ASSUME NEW n \in Nat, NEW f, \A i \in 1..n : f[i] \in Nat,
         NEW S \in SUBSET {f[i] : i \in 1..n}, S # {}
  PROVE  Max(S) \in S
<1> DEFINE P == {m \in Nat : m <= n => \E b \in Nat : \A i \in 1..m : f[i] <= b}
<1>1. 0 \in P
  OBVIOUS
<1>2. ASSUME NEW m \in P
      PROVE  m + 1 \in P
  <2>1. SUFFICES ASSUME m + 1 <= n
                 PROVE  \E b \in Nat : \A i \in 1..(m + 1) : f[i] <= b
    OBVIOUS
  <2>2. PICK b \in Nat : \A i \in 1..m : f[i] <= b
    BY <2>1
  <2>3. f[m + 1] \in Nat
    BY <2>1
  <2>4. CASE f[m + 1] <= b
    <3>1. \A i \in 1..(m + 1) : i \in 1..m \/ i = m + 1
      OBVIOUS
    <3>2. QED
      BY <2>2, <2>4, <3>1
  <2>5. CASE ~(f[m + 1] <= b)
    <3>1. \A i \in 1..(m + 1) : i \in 1..m \/ i = m + 1
      OBVIOUS
    <3>2. \A i \in 1..m : f[i] \in Nat
      BY <2>1
    <3>3. \A i \in 1..(m + 1) : f[i] <= f[m + 1]
      BY <2>2, <2>3, <2>5, <3>1, <3>2
    <3>4. QED
      BY <2>3, <3>3
  <2>6. QED
    BY <2>4, <2>5
<1>3. n \in P
  <2>1. P \in SUBSET Nat
    OBVIOUS
  <2> HIDE DEF P
  <2>2. P = Nat
    BY <1>1, <1>2, <2>1, NatInductionOnSet
  <2>3. QED
    BY <2>2
<1>4. PICK b \in Nat : \A i \in 1..n : f[i] <= b
  BY <1>3
<1> HIDE DEF P
<1>5. \A x \in S : x \in 0..b
  BY <1>4
<1> DEFINE T == {x + 1 : x \in S}
<1>6. b + 1 \in Nat /\ T \in SUBSET (1..(b + 1)) /\ T # {}
  BY <1>5
<1>7. Max(T) \in T /\ \A y \in T : y <= Max(T)
  BY <1>6, MaxIsLargest
<1>8. PICK x \in S : Max(T) = x + 1
  BY <1>7
<1>9. \A y \in S : y + 1 \in T
  OBVIOUS
<1> HIDE DEF T
<1>10. \A y \in S : x >= y
  BY <1>5, <1>7, <1>8, <1>9
<1>11. Max(S) = CHOOSE y \in S : \A z \in S : y >= z
  BY DEF Max
<1>12. QED
  BY <1>10, <1>11

\* property_benchmark.py:164-220: the items of a tool are those of its usable answers.
LEMMA ItemsOfTool ==
  ASSUME NEW results, AreOutcomes(results), SoundAnswers(results), NEW tool
  PROVE  /\ List(ItemsOf(results, tool))
         /\ \A item \in Range(ItemsOf(results, tool)) : SoundItem(tool, item)
<1> DEFINE Of(i) == IF Usable(results[i], tool) THEN results[i].data ELSE <<>>
           s == [i \in DOMAIN results |-> Of(i)]
<1>1. ItemsOf(results, tool) = FlattenSeq(s)
  BY DEF ItemsOf
<1>2. DOMAIN s = DOMAIN results /\ s = [i \in DOMAIN results |-> s[i]]
      /\ \A i \in DOMAIN results : s[i] = Of(i)
  OBVIOUS
<1>3. /\ DOMAIN results = 1..Len(results)
      /\ \A i \in 1..Len(results) : results[i] \in Range(results)
  BY ListBasics DEF AreOutcomes
<1> HIDE DEF s
<1>4. List(s) /\ Len(s) = Len(results)
  BY <1>2, MappedIsList DEF AreOutcomes
<1>5. \A i \in 1..Len(s) : List(s[i])
  BY <1>2, <1>3, <1>4, EmptyIsList DEF AreOutcomes
<1>6. List(FlattenSeq(s)) /\ Range(FlattenSeq(s)) = UNION {Range(s[k]) : k \in 1..Len(s)}
  BY <1>4, <1>5, FlattenIsList
<1>7. ASSUME NEW item \in Range(FlattenSeq(s))
      PROVE  SoundItem(tool, item)
  <2>1. PICK k \in 1..Len(s) : item \in Range(s[k])
    BY <1>6
  <2>2. s[k] = Of(k) /\ results[k] \in Range(results)
    BY <1>2, <1>3, <1>4
  <2>3. CASE Usable(results[k], tool)
    BY <2>1, <2>2, <2>3 DEF SoundAnswers, Usable
  <2>4. CASE ~Usable(results[k], tool)
    BY <2>1, <2>2, <2>4, EmptyIsList
  <2>5. QED
    BY <2>3, <2>4
<1>8. QED
  BY <1>1, <1>6, <1>7

\* A line that is a fact names accepted evidence.
Rests(line, accepted) == line.provenance = "FACT" => line.ref \in accepted

\* franchise_disclosure.py:42-178: disclosed fees are a fact of accepted evidence.
LEMMA DisclosedFeesRest ==
  ASSUME NEW results, AreOutcomes(results), SoundAnswers(results),
         NEW accepted, NEW brand, DisclosedFees(results, accepted, brand) # None
  PROVE  /\ DisclosedFees(results, accepted, brand).provenance = "FACT"
         /\ DisclosedFees(results, accepted, brand).ref \in accepted
<1> DEFINE all == ItemsOf(results, "get_franchise_disclosure")
           places == {i \in DOMAIN all : /\ all[i].brand = brand
                                         /\ all[i].ref \in accepted}
           items == Picked(all, places)
           OfField(v, field) ==
             Picked(items, {i \in DOMAIN items : /\ items[i].version = v
                                                 /\ items[i].field = field})
           Item(v, field) ==
             IF OfField(v, field) = <<>> THEN None ELSE Last(OfField(v, field))
           Amount(v, field) ==
             IF Item(v, field) = None THEN None ELSE Item(v, field).value
           Parts(v) == [field \in InitialFeePart |-> Amount(v, field)]
           Holds(v) ==
             /\ \A field \in InitialFeePart \cup {InitialFeeTotal} :
                  Amount(v, field) \in Nat
             /\ SumFunction(Parts(v)) = Amount(v, InitialFeeTotal)
           versions == {n \in {items[i].version : i \in DOMAIN items} : Holds(n)}
           line == DisclosedFees(results, accepted, brand)
<1>1. line = IF versions = {} THEN None
             ELSE CostLine(Exactly(Amount(Max(versions), InitialFeeTotal)), "FACT",
                           Item(Max(versions), InitialFeeTotal).ref)
  BY DEF DisclosedFees
<1>2. List(all) /\ \A item \in Range(all) : item.version \in Nat
  BY ItemsOfTool DEF SoundItem
<1> HIDE DEF all
<1>3. /\ List(items)
      /\ Range(items) = {all[i] : i \in (1..Len(all)) \cap places}
  BY <1>2, PickedIsList
<1>4. /\ \A item \in Range(items) : item.ref \in accepted
      /\ Range(items) \subseteq Range(all)
  BY <1>2, <1>3, PickedFrom
<1> HIDE DEF items
<1>5. \A v, field : Item(v, field) # None => Item(v, field) \in Range(items)
  <2>1. \A v, field :
          /\ List(OfField(v, field))
          /\ Range(OfField(v, field)) \subseteq Range(items)
    BY <1>3, PickedFrom
  <2> HIDE DEF OfField
  <2>2. QED
    BY <2>1, LastIsMember
<1>6. versions # {}
  BY <1>1
<1>7. Max(versions) \in versions
  <2> DEFINE f == [i \in 1..Len(items) |-> items[i].version]
  <2>1. /\ Len(items) \in Nat /\ DOMAIN items = 1..Len(items)
        /\ \A i \in 1..Len(items) : items[i] \in Range(items)
    BY <1>3, ListBasics
  <2>2. \A i \in 1..Len(items) : f[i] = items[i].version /\ f[i] \in Nat
    BY <1>2, <1>4, <2>1
  <2>3. versions \in SUBSET {items[i].version : i \in 1..Len(items)}
    BY <2>1
  <2> HIDE DEF f, versions
  <2>4. versions \in SUBSET {f[i] : i \in 1..Len(items)}
    BY <2>2, <2>3
  <2>5. QED
    BY <1>6, <2>1, <2>2, <2>4, NumbersHaveMax
<1>8. Amount(Max(versions), InitialFeeTotal) \in Nat
  BY <1>7
<1>9. Item(Max(versions), InitialFeeTotal) # None
  <2> DEFINE newest == Max(versions)
             item == Item(newest, InitialFeeTotal)
  <2>1. Amount(newest, InitialFeeTotal) = IF item = None THEN None ELSE item.value
    OBVIOUS
  <2> HIDE DEF item, Amount
  <2>2. item # None
    BY <1>8, <2>1, FinanceAssumption
  <2>3. QED
    BY <2>2 DEF item
<1> HIDE DEF versions, Item
<1>10. Item(Max(versions), InitialFeeTotal).ref \in accepted
  BY <1>4, <1>5, <1>9
<1>11. /\ line.provenance = "FACT"
       /\ line.ref = Item(Max(versions), InitialFeeTotal).ref
  BY <1>1, <1>6 DEF CostLine
<1>12. QED
  BY <1>10, <1>11

\* franchise_grounding.py:40-60: each of them.
LEMMA DisclosuresRest ==
  ASSUME AreOutcomes(outcomes), SoundAnswers(outcomes),
         NEW s \in DOMAIN FranchiseDisclosures
  PROVE  /\ Rests(FranchiseDisclosures[s], Refs(frozen))
         /\ FranchiseDisclosures[s].ref \in Refs(frozen)
<1> DEFINE Line(t) == DisclosedFees(outcomes, Refs(frozen), t)
<1>1. FranchiseDisclosures =
        [b \in {t \in Range(VerifiedBrands(outcomes)) : Line(t) # None} |-> Line(b)]
  BY DEF FranchiseDisclosures, LinesBySource
<1>2. \A t : Line(t) # None => Line(t).ref \in Refs(frozen)
  BY DisclosedFeesRest
<1> HIDE DEF Line
<1>3. QED
  BY <1>1, <1>2 DEF Rests

\* simple_proposal.py:255-420: so what a first run resolves rests on accepted evidence if
\* its fallback does.
LEMMA FirstLineRests ==
  ASSUME AreOutcomes(outcomes), SoundAnswers(outcomes),
         NEW source, NEW category, NEW fallback, Rests(fallback, Refs(frozen))
  PROVE  Rests(ResolveCostLine(InputsOf(ProposalContext), source, category, fallback),
               Refs(frozen))
<1> DEFINE ctx == ProposalContext
           inputs == InputsOf(ctx)
           said == CaseLineOf(inputs, source, category)
           official == OfficialLine(inputs, source, category)
<1>1. ctx.property = None /\ ctx.disclosure = FranchiseDisclosures
  BY DEF ProposalContext
<1>2. \/ official = None
      \/ source \in DOMAIN ctx.disclosure /\ official = ctx.disclosure[source]
      \/ official.provenance \in {"BENCHMARK", "DERIVED", "UNKNOWN"}
  BY OfficialLines
<1>3. official # None => Rests(official, Refs(frozen))
  BY <1>1, <1>2, DisclosuresRest DEF Rests
<1>4. said # None => Rests(said, Refs(frozen))
  <2>1. \A fact : CostLineOf(fact) # None => Rests(CostLineOf(fact), Refs(frozen))
    BY DEF CostLineOf, UnknownLine, CostLine, Rests
  <2>2. QED
    BY <2>1 DEF CaseLineOf, CaseCostLine
<1>5. inputs.property = None
  BY <1>1, FieldsOfInputs
<1>6. PropertyLine(inputs.property, source, category) = None
  BY <1>5 DEF PropertyLine
<1> DEFINE line == ResolveCostLine(inputs, source, category, fallback)
<1>7. line = IF said # None THEN said ELSE IF official # None THEN official ELSE fallback
  BY <1>6, ResolvedLine
<1> HIDE DEF line, said, official
<1>8. Rests(line, Refs(frozen))
  BY <1>3, <1>4, <1>7
<1>9. QED
  BY <1>8 DEF line

\* The same of its rate.
LEMMA FirstRateRests ==
  ASSUME NEW source, NEW fallback, NEW inputs, NEW accepted,
         fallback # None => Rests(fallback, accepted)
  PROVE  LET line == ResolveRateLine(inputs, source, fallback) IN
         line # None => Rests(line, accepted)
<1> DEFINE said == CaseRateLine(ClaimsOf(inputs, source), inputs.contested)
           s == <<said>>
           line == ResolveRateLine(inputs, source, fallback)
<1>1. said # None => Rests(said, accepted)
  <2>1. \A fact : RateLineOf(fact) # None => Rests(RateLineOf(fact), accepted)
    BY DEF RateLineOf, RateLine, Rests
  <2>2. QED
    BY <2>1 DEF CaseRateLine
<1>2. line = FirstGiven(s, fallback)
  BY DEF ResolveRateLine
<1>3. List(s) /\ Len(s) = 1 /\ s[1] = said
  BY DEF List, Range
<1> HIDE DEF s, said
<1>4. line \in {said, fallback}
  BY <1>2, <1>3, FirstOfGiven
<1>5. QED
  BY <1>1, <1>4

\* What a brand is known from is accepted evidence.
BrandRests(brand, accepted) ==
  /\ Range(brand.refs) \subseteq accepted
  /\ List(brand.profile.refs)
  /\ Range(brand.profile.refs) \subseteq accepted

\* franchise_grounding.py:63-166: every brand that may be proposed is known from accepted
\* evidence only.
LEMMA UniverseRests ==
  ASSUME AreOutcomes(outcomes), SoundAnswers(outcomes)
  PROVE  \A brand \in Range(FranchiseUniverse) : BrandRests(brand, Refs(frozen))
<1> DEFINE items == UniverseItems(outcomes)
           places == {i \in DOMAIN items : /\ items[i].eligibility = "VERIFIED"
                                           /\ items[i].evidence \in Refs(frozen)}
           eligible == Picked(items, places)
           Profile(item) == WithDisclosure(WithAcceptedFinance(item.profile),
                                           LineOf(FranchiseDisclosures, item.id))
           Brand(item) ==
             [id |-> item.id, eligibility |-> "VERIFIED", refs |-> <<item.evidence>>,
              profile |-> Profile(item)]
           brands == [i \in DOMAIN eligible |-> Brand(eligible[i])]
<1>1. FranchiseUniverse = ByCost(brands)
  BY DEF FranchiseUniverse
<1>2. List(items)
  BY ListOfItems
<1>3. \A item \in Range(items) :
        /\ {"initial", "refs", "missing"} \subseteq DOMAIN item.profile
        /\ List(item.profile.refs)
  BY ItemsAreSound DEF SoundItem
<1> HIDE DEF items
<1>4. /\ List(eligible)
      /\ Range(eligible) = {items[i] : i \in (1..Len(items)) \cap places}
      /\ Range(eligible) \subseteq Range(items)
  BY <1>2, PickedFrom, PickedIsList
<1>5. \A item \in Range(eligible) : item.evidence \in Refs(frozen)
  BY <1>4
<1> HIDE DEF eligible
<1>6. ASSUME NEW item \in Range(eligible)
      PROVE  BrandRests(Brand(item), Refs(frozen))
  <2> DEFINE accepted == WithAcceptedFinance(item.profile)
             line == LineOf(FranchiseDisclosures, item.id)
  <2>1. /\ {"initial", "refs", "missing"} \subseteq DOMAIN item.profile
        /\ List(item.profile.refs)
    BY <1>3, <1>4
  <2>2. /\ {"initial", "refs", "missing"} \subseteq DOMAIN accepted
        /\ List(accepted.refs) /\ Range(accepted.refs) \subseteq Refs(frozen)
    BY <2>1, EmptyIsList DEF WithAcceptedFinance
  <2>3. line # None => line.ref \in Refs(frozen)
    BY DisclosuresRest DEF LineOf
  <2> HIDE DEF accepted, line
  <2>4. \A ref \in Refs(frozen) : List(<<ref>>) /\ Range(<<ref>>) \subseteq Refs(frozen)
    <3>1. \A ref : List(<<ref>>)
      BY OneIsList
    <3>2. \A ref \in Refs(frozen) : Range(<<ref>>) \subseteq Refs(frozen)
      BY DEF Range
    <3>3. QED
      BY <3>1, <3>2
  <2>5. /\ List(WithDisclosure(accepted, line).refs)
        /\ Range(WithDisclosure(accepted, line).refs) \subseteq Refs(frozen)
    BY <2>2, <2>3, <2>4 DEF WithDisclosure
  <2>6. Profile(item) = WithDisclosure(accepted, line)
    BY DEF accepted, line
  <2> HIDE DEF Profile
  <2>7. /\ Brand(item).refs = <<item.evidence>>
        /\ Brand(item).profile = Profile(item)
    OBVIOUS
  <2> HIDE DEF Brand
  <2>8. QED
    BY <1>5, <2>4, <2>5, <2>6, <2>7 DEF BrandRests
<1>7. /\ DOMAIN brands = DOMAIN eligible /\ brands = [i \in DOMAIN eligible |-> brands[i]]
      /\ \A i \in DOMAIN eligible : brands[i] = Brand(eligible[i])
  OBVIOUS
<1> HIDE DEF brands, Brand
<1>8. List(brands) /\ Range(brands) = {brands[i] : i \in 1..Len(eligible)}
  BY <1>4, <1>7, MappedIsList
<1>9. /\ DOMAIN eligible = 1..Len(eligible)
      /\ \A i \in DOMAIN eligible : eligible[i] \in Range(eligible)
  BY <1>4, ListBasics
<1>10. \A brand \in Range(brands) : BrandRests(brand, Refs(frozen))
  BY <1>6, <1>7, <1>8, <1>9
<1>11. Range(ByCost(brands)) \subseteq Range(brands)
  BY <1>8, ByCostIsList
<1>12. QED
  BY <1>1, <1>10, <1>11

-----------------------------------------------------------------------------
(* Its drafts and candidates.                                               *)

\* projection.py: signals are evidence.
LEMMA SignalsAreEvidence ==
  ASSUME NEW records
  PROVE  MarketSignals(records) \subseteq records
BY DEF MarketSignals

\* projection.py: official documents quote evidence.
LEMMA DocumentsAreEvidence ==
  ASSUME NEW records, NEW family, NEW source
  PROVE  \A d \in OfficialDocuments(records, family, source) : \A id \in d.refs :
           <<"evidence", id>> \in Refs(records)
BY DEF OfficialDocuments, Refs, EvidenceRef

\* What a candidate or a draft calls a fact, shows of the area or quotes, and what its brand
\* is known from, is accepted evidence.
RestsOn(c, accepted) ==
  /\ \A category \in DOMAIN c.inputs : Rests(c.inputs[category], accepted)
  /\ c.rate # None => Rests(c.rate, accepted)
  /\ BrandRefs(c) \subseteq accepted
  /\ Refs(c.signals) \subseteq accepted
  /\ \A d \in c.documents : \A id \in d.refs : <<"evidence", id>> \in accepted

\* A draft rests on what its lines, its rate and its brand rest on.
LEMMA DraftOfRestingLines ==
  ASSUME NEW ctx, NEW family, NEW source, NEW lines, NEW rate, NEW sales, NEW franchise,
         \A category \in DOMAIN lines : Rests(lines[category], Refs(ctx.evidence)),
         rate # None => Rests(rate, Refs(ctx.evidence)),
         franchise # None =>
           /\ Range(franchise.refs) \subseteq Refs(ctx.evidence)
           /\ Range(franchise.profile.refs) \subseteq Refs(ctx.evidence)
  PROVE  RestsOn(Draft(ctx, family, source, lines, rate, sales, franchise),
                 Refs(ctx.evidence))
<1> DEFINE d == Draft(ctx, family, source, lines, rate, sales, franchise)
           accepted == Refs(ctx.evidence)
           brand == IF franchise = None THEN None ELSE source
<1>1. /\ d.inputs = DecisionInputs(lines, family, ctx.evidence)
      /\ d.rate = RateInput(rate, ctx.evidence)
      /\ d.franchise = franchise
      /\ d.signals = MarketSignals(ctx.evidence)
      /\ d.documents = OfficialDocuments(ctx.evidence, family, brand)
  BY DEF Draft
<1> HIDE DEF d
<1>2. \A category \in DOMAIN d.inputs : Rests(d.inputs[category], accepted)
  BY <1>1 DEF DecisionInputs, DecisionInput, Rests
<1>3. d.rate # None => Rests(d.rate, accepted)
  BY <1>1 DEF RateInput, Rests
<1>4. BrandRefs(d) \subseteq accepted
  BY <1>1 DEF BrandRefs
<1>5. Refs(d.signals) \subseteq accepted
  BY <1>1, SignalsAreEvidence DEF Refs
<1>6. \A e \in d.documents : \A id \in e.refs : <<"evidence", id>> \in accepted
  BY <1>1, DocumentsAreEvidence
<1>7. RestsOn(d, accepted)
  BY <1>2, <1>3, <1>4, <1>5, <1>6 DEF RestsOn
<1>8. QED
  BY <1>7 DEF d

\* simple_proposal.py:255-420, proposal_franchise.py: so does each draft of a first run.
LEMMA FirstDraftRests ==
  ASSUME AreOutcomes(outcomes), SoundAnswers(outcomes), List(FranchiseUniverse),
         NEW d \in Range(Drafts(ProposalContext))
  PROVE  RestsOn(d, Refs(frozen))
<1> DEFINE ctx == ProposalContext
           inputs == InputsOf(ctx)
<1>1. ctx.universe = FranchiseUniverse /\ ctx.evidence = frozen
  BY ContextFields
<1>2. d \in IndependentDrafts(ctx) \cup FranchiseDrafts(ctx)
  BY <1>1, DraftsOfContext
<1>3. CASE d \in IndependentDrafts(ctx)
  <2>1. PICK seed : d = IndependentDraft(ctx, inputs, seed)
    BY <1>3 DEF IndependentDrafts
  <2> DEFINE lines == IndependentLines(seed, inputs)
             Fallback(category) ==
               IF category = "MONTHLY_EMPLOYER_ONCOST" THEN UnknownLine
               ELSE IndependentFallback(seed.id, seed.profile.costs[category])
  <2>2. d = Draft(ctx, "INDEPENDENT", seed.id, lines, None, seed.profile, None)
    BY <2>1 DEF IndependentDraft
  <2>3. \A category \in DOMAIN lines :
          lines[category] =
            IF category = "FRANCHISE_INITIAL_FEES"
            THEN CostLine(Exactly(0), "DERIVED", None)
            ELSE ResolveCostLine(inputs, seed.id, category, Fallback(category))
    BY DEF IndependentLines
  <2>4. \A category : Rests(Fallback(category), Refs(frozen))
    BY DEF UnknownLine, IndependentFallback, CostLine, Rests
  <2>5. Rests(CostLine(Exactly(0), "DERIVED", None), Refs(frozen))
    BY DEF CostLine, Rests
  <2> HIDE DEF lines, Fallback, ctx
  <2>6. \A category :
          Rests(ResolveCostLine(inputs, seed.id, category, Fallback(category)),
                Refs(frozen))
    BY <2>4, FirstLineRests DEF ctx
  <2>7. \A category \in DOMAIN lines : Rests(lines[category], Refs(frozen))
    BY <2>3, <2>5, <2>6
  <2>8. QED
    BY <1>1, <2>2, <2>7, DraftOfRestingLines
<1>4. CASE d \in FranchiseDrafts(ctx)
  <2>1. PICK brand \in Range(FranchiseUniverse) : d = FranchiseDraft(ctx, inputs, brand)
    BY <1>1, <1>4 DEF FranchiseDrafts
  <2> DEFINE lines == FranchiseLines(brand, inputs)
             Fallback(category) ==
               FranchiseFallback(brand.id, category, brand.profile, FranchiseAssumption)
             known == FranchiseRateFallback(brand.profile)
             rate == ResolveRateLine(inputs, brand.id, known)
             franchise == [refs |-> brand.refs, profile |-> brand.profile]
  <2>2. d = Draft(ctx, "FRANCHISE", brand.id, lines, rate, FranchiseSales, franchise)
    BY <2>1 DEF FranchiseDraft
  <2>3. \A category \in DOMAIN lines :
          lines[category] = ResolveCostLine(inputs, brand.id, category, Fallback(category))
    BY DEF FranchiseLines
  <2>4. BrandRests(brand, Refs(frozen))
    BY UniverseRests
  <2>5. brand.profile.refs # <<>> => Head(brand.profile.refs) \in Refs(frozen)
    <3> DEFINE refs == brand.profile.refs
    <3>1. List(refs) /\ Range(refs) \subseteq Refs(frozen)
      BY <2>4 DEF BrandRests
    <3> HIDE DEF refs
    <3>2. refs # <<>> => Head(refs) \in Range(refs)
      BY <3>1, ListBasics DEF List
    <3>3. QED
      BY <3>1, <3>2 DEF refs
  <2>6. \A category : Rests(Fallback(category), Refs(frozen))
    BY <2>5 DEF FranchiseFallback, UnknownLine, CostLine, Rests
  <2>7. known # None => Rests(known, Refs(frozen))
    BY <2>5 DEF FranchiseRateFallback, RateLine, Rests
  <2>8. /\ Range(franchise.refs) \subseteq Refs(frozen)
        /\ Range(franchise.profile.refs) \subseteq Refs(frozen)
    BY <2>4 DEF BrandRests
  <2> HIDE DEF lines, Fallback, known, franchise, ctx
  <2>9. \A category :
          Rests(ResolveCostLine(inputs, brand.id, category, Fallback(category)),
                Refs(frozen))
    BY <2>6, FirstLineRests DEF ctx
  <2>10. \A category \in DOMAIN lines : Rests(lines[category], Refs(frozen))
    BY <2>3, <2>9
  <2>11. rate # None => Rests(rate, Refs(frozen))
    BY <2>7, FirstRateRests
  <2> HIDE DEF rate
  <2>12. QED
    BY <1>1, <2>2, <2>8, <2>10, <2>11, DraftOfRestingLines
<1>5. QED
  BY <1>2, <1>3, <1>4

\* simple_proposal.py:220-245: a candidate of a first result rests on what its draft does.
LEMMA FirstResultRests ==
  ASSUME AreOutcomes(outcomes), SoundAnswers(outcomes), List(FranchiseUniverse),
         Drafts(ProposalContext) # <<>>,
         NEW c \in Range(Build(ProposalContext).candidates)
  PROVE  RestsOn(c, Refs(frozen))
<1> DEFINE ctx == ProposalContext
           accepted == Refs(frozen)
<1>1. List(ctx.universe)
  BY ContextFields
<1>2. FromDrafts(ctx, c)
  BY <1>1, BuiltFromDrafts
<1>3. PICK d, decision : d \in Range(Drafts(ctx)) /\ c = Finished(d, decision)
  BY <1>2 DEF FromDrafts
<1>4. RestsOn(d, accepted)
  BY <1>3, FirstDraftRests
<1>5. {"inputs", "rate", "franchise", "signals", "documents"} \subseteq DOMAIN d
  <2>1. d \in IndependentDrafts(ctx) \cup FranchiseDrafts(ctx)
    BY <1>1, <1>3, DraftsOfContext
  <2>2. \E family, source, lines, rate, sales, franchise :
          d = Draft(ctx, family, source, lines, rate, sales, franchise)
    BY <2>1 DEF IndependentDrafts, FranchiseDrafts, IndependentDraft, FranchiseDraft
  <2>3. QED
    BY <2>2 DEF Draft
<1> HIDE DEF accepted
<1>6. /\ c.inputs = d.inputs /\ c.rate = d.rate /\ c.franchise = d.franchise
      /\ c.signals = d.signals /\ c.documents = d.documents
  BY <1>3, <1>5 DEF Finished
<1>7. BrandRefs(c) = BrandRefs(d)
  BY <1>6 DEF BrandRefs
<1>8. RestsOn(c, accepted)
  BY <1>4, <1>6, <1>7 DEF RestsOn
<1>9. QED
  BY <1>8 DEF accepted

-----------------------------------------------------------------------------
(* What the run goes on with, and the inductive invariant about it.         *)

\* linear_agent_pipeline.py:507-529: what the run goes on with was stored, or is accepted by
\* the researcher, who has not turned it down then.
LEMMA FrozenIsAssessed ==
  ASSUME NEW answer, answer.task.type = "EVIDENCE_ASSESS", NEW e \in Freeze(Used(answer))
  PROVE  \/ EvidenceRef(e) \in Refs(evidence)
         \/ /\ Used(answer) # None
            /\ \E row \in Range(Used(answer)) :
                 /\ row.candidate = EvidenceRef(e)
                 /\ {row.relation, row.scope, row.date, row.anchor, row.authority} \cap
                      {"IRRELEVANT", "MISMATCH", "INVALID", "INSUFFICIENT"} = {}
<1> DEFINE rows == Used(answer)
<1>1. \/ e \in evidence
      \/ rows # None /\ EvidenceRef(e) \in AcceptedRefs(rows)
  BY DEF Freeze
<1>2. CASE e \in evidence
  BY <1>2 DEF Refs
<1>3. CASE rows # None /\ EvidenceRef(e) \in AcceptedRefs(rows)
  <2>1. PICK row \in Range(rows) :
          /\ row.candidate = EvidenceRef(e)
          /\ row.relation \in {"SUPPORTS", "CONTRADICTS", "AMBIGUOUS"}
          /\ row.scope # "MISMATCH" /\ row.date # "MISMATCH"
          /\ row.anchor # "INVALID" /\ row.authority # "INSUFFICIENT"
    BY <1>3 DEF AcceptedRefs
  <2>2. rows = answer.reply.rows /\ Verdict(answer) = "ACCEPTED"
    BY <1>3 DEF Used, UsableRows, Verdict
  <2>3. MatchesSchema(answer.task, answer.reply)
    BY <2>2, AcceptedHasNoCodes
  <2>4. \A field \in DOMAIN AssessmentValue : row[field] \in AssessmentValue[field]
    BY <1>3, <2>1, <2>2, <2>3 DEF MatchesSchema
  <2>5. /\ row.scope \in {"MATCH", "MISMATCH", "UNKNOWN"}
        /\ row.date \in {"MATCH", "MISMATCH", "UNKNOWN"}
        /\ row.anchor \in {"VALID", "INVALID", "MISSING"}
        /\ row.authority \in {"ACCEPTABLE", "INSUFFICIENT", "UNKNOWN"}
    BY <2>4 DEF AssessmentValue
  <2>6. {row.relation, row.scope, row.date, row.anchor, row.authority} \cap
          {"IRRELEVANT", "MISMATCH", "INVALID", "INSUFFICIENT"} = {}
    BY <2>1, <2>5
  <2>7. QED
    BY <1>3, <2>1, <2>6
<1>4. QED
  BY <1>1, <1>2, <1>3

\* The inductive invariant: what a run goes on with is assessed, and its result rests on it.
GroundInv ==
  /\ phase \in {"PROPOSE", "RANK", "AUDIT", "COMMIT"} =>
       List(asked) /\ asked # <<>> /\ Refs(frozen) \subseteq Assessed
  /\ phase \in {"AUDIT", "COMMIT"} =>
       \A c \in Range(bundle.candidates) : RestsOn(c, Refs(frozen))

\* It says what is wanted.
LEMMA GroundIsAssessed ==
  GroundInv => NothingUnassessedIsFact
<1>1. SUFFICES ASSUME GroundInv, phase = "COMMIT", NEW c \in Range(bundle.candidates)
               PROVE  RestsOn(c, Assessed)
  BY DEF NothingUnassessedIsFact, RestsOn, Rests
<1>2. RestsOn(c, Refs(frozen)) /\ Refs(frozen) \subseteq Assessed
  BY <1>1 DEF GroundInv
<1>3. QED
  BY <1>2 DEF RestsOn, Rests

\* What was asked first stays so.
LEMMA AssessmentStays ==
  ASSUME List(asked), asked # <<>>, NEW more, List(more), asked' = asked \o more,
         evidence' = evidence
  PROVE  List(asked') /\ asked' # <<>> /\ Assessed' = Assessed
<1>1. Len(asked) \in Nat /\ Len(asked) # 0
  BY DEF List
<1>2. List(asked') /\ Len(asked') = Len(asked) + Len(more) /\ Len(more) \in Nat
  BY ConcatIsList, ListBasics
<1>3. asked'[1] = asked[1]
  BY <1>1, ConcatIsList
<1>4. asked' # <<>>
  <2>1. Len(asked') # 0
    BY <1>1, <1>2
  <2>2. QED
    BY <2>1
<1>5. Assessed' = Assessed
  BY <1>3 DEF Assessed
<1>6. QED
  BY <1>2, <1>4, <1>5

-----------------------------------------------------------------------------
(* The steps of the first run and what it rests on.                         *)

\* At first nothing has been asked.
LEMMA GroundInvInit ==
  Init => GroundInv
BY DEF Init, PipelineInit, GroundInv

\* What a step of the run does not touch stays grounded.
LEMMA GroundStays ==
  ASSUME GroundInv, UNCHANGED <<evidence, frozen, asked, bundle, phase>>
  PROVE  GroundInv'
<1>1. /\ evidence' = evidence /\ frozen' = frozen /\ asked' = asked
      /\ bundle' = bundle /\ phase' = phase
  OBVIOUS
<1>2. Refs(frozen)' = Refs(frozen) /\ Assessed' = Assessed
  BY <1>1 DEF Assessed
<1>3. (\A c \in Range(bundle.candidates) : RestsOn(c, Refs(frozen)))' <=>
      \A c \in Range(bundle.candidates) : RestsOn(c, Refs(frozen))
  BY <1>1 DEF RestsOn
<1>4. QED
  BY <1>1, <1>2, <1>3 DEF GroundInv

\* linear_agent_pipeline.py:159-168: the run goes on with what the researcher has accepted.
LEMMA AssessKeepsGround ==
  ASSUME evidence' = evidence, NEW defect, Assess(defect)
  PROVE  GroundInv'
<1> DEFINE answer == Asks(AssessTask, defect)
<1>1. /\ asked' = <<answer>>
      /\ \/ phase' = "FAILED"
         \/ phase' = "PROPOSE" /\ frozen' = Freeze(Used(answer))
  BY DEF Assess
<1>2. answer.task.type = "EVIDENCE_ASSESS"
  BY AskedTasks DEF Asks
<1> HIDE DEF answer
<1>3. List(asked') /\ asked'[1] = answer /\ asked' # <<>>
  BY <1>1, OneIsList
<1>4. CASE phase' = "PROPOSE" /\ frozen' = Freeze(Used(answer))
  <2>1. ASSUME NEW e \in frozen'
        PROVE  EvidenceRef(e) \in Assessed'
    <3>1. \/ EvidenceRef(e) \in Refs(evidence)
          \/ /\ Used(answer) # None
             /\ \E row \in Range(Used(answer)) :
                  /\ row.candidate = EvidenceRef(e)
                  /\ {row.relation, row.scope, row.date, row.anchor, row.authority} \cap
                       {"IRRELEVANT", "MISMATCH", "INVALID", "INSUFFICIENT"} = {}
      BY <1>2, <1>4, FrozenIsAssessed
    <3>2. CASE EvidenceRef(e) \in Refs(evidence)
      BY <3>2 DEF Assessed
    <3>3. CASE /\ Used(answer) # None
               /\ \E row \in Range(Used(answer)) :
                    /\ row.candidate = EvidenceRef(e)
                    /\ {row.relation, row.scope, row.date, row.anchor, row.authority} \cap
                         {"IRRELEVANT", "MISMATCH", "INVALID", "INSUFFICIENT"} = {}
      <4>1. Used(asked'[1]) = Used(answer)
        BY <1>3
      <4>2. PICK row \in Range(Used(answer)) :
              /\ row.candidate = EvidenceRef(e)
              /\ {row.relation, row.scope, row.date, row.anchor, row.authority} \cap
                   {"IRRELEVANT", "MISMATCH", "INVALID", "INSUFFICIENT"} = {}
        BY <3>3
      <4>3. QED
        BY <1>3, <3>3, <4>1, <4>2 DEF Assessed
    <3>4. QED
      BY <3>1, <3>2, <3>3
  <2>2. Refs(frozen)' \subseteq Assessed'
    BY <2>1 DEF Refs
  <2>3. QED
    BY <1>3, <1>4, <2>2 DEF GroundInv
<1>5. CASE phase' = "FAILED"
  BY <1>5 DEF GroundInv
<1>6. QED
  BY <1>1, <1>4, <1>5

\* linear_agent_pipeline.py:176-219: what the proposal agents say is added to it.
LEMMA ProposeKeepsGround ==
  ASSUME PipelineInv, GroundInv, evidence' = evidence,
         NEW defects, Propose(ProposalTasks, defects)
  PROVE  GroundInv'
<1> DEFINE tasks == ProposalTasks
           answers == [k \in DOMAIN tasks |-> Asks(tasks[k], defects[k])]
<1>1. phase = "PROPOSE" /\ asked' = asked \o answers
  BY Zenon DEF Propose
<1>2. phase' \in {"FAILED", "RANK"}
  <2>1. phase' = IF \/ \E k \in DOMAIN answers : Verdict(answers[k]) = "FATAL"
                    \/ Proposals(answers) = <<>>
                 THEN "FAILED" ELSE "RANK"
    BY Zenon DEF Propose
  <2>2. QED
    BY <2>1
<1>3. frozen' = frozen
  BY Zenon DEF Propose
<1>4. List(tasks)
  BY <1>1, ListOfProposalTasks DEF PipelineInv, AskedForProposals
<1> HIDE DEF tasks
<1>5. List(answers)
  <2>1. DOMAIN answers = DOMAIN tasks /\ answers = [k \in DOMAIN tasks |-> answers[k]]
    OBVIOUS
  <2> HIDE DEF answers
  <2>2. QED
    BY <1>4, <2>1, MappedIsList
<1> HIDE DEF answers
<1>6. List(asked) /\ asked # <<>> /\ Refs(frozen) \subseteq Assessed
  BY <1>1 DEF GroundInv
<1>7. List(asked') /\ asked' # <<>> /\ Assessed' = Assessed
  BY <1>1, <1>5, <1>6, AssessmentStays
<1>8. Refs(frozen)' = Refs(frozen)
  BY <1>3
<1>9. QED
  BY <1>2, <1>6, <1>7, <1>8 DEF GroundInv

\* linear_agent_pipeline.py:220-243: the result rests on what the run went on with.
LEMMA RankKeepsGround ==
  ASSUME PipelineInv, CaseInv, GroundInv, evidence' = evidence, RankProposals
  PROVE  GroundInv'
<1> DEFINE b == Build(ProposalContext)
<1>1. /\ phase = "RANK" /\ bundle' = b /\ frozen' = frozen /\ asked' = asked
      /\ phase' \in {"FAILED", "AUDIT"}
  BY DEF RankProposals
<1>2. AskedForProposals /\ Proposals(Tail(asked)) # <<>>
  BY <1>1 DEF PipelineInv
<1>3. AreOutcomes(outcomes) /\ SoundAnswers(outcomes)
  BY <1>1, <1>2 DEF AskedForProposals, CaseInv, RunKept
<1>4. List(FranchiseUniverse) /\ Drafts(ProposalContext) # <<>>
  BY <1>2, <1>3, ListOfUniverse, ProposedHaveDrafts
<1>5. \A c \in Range(b.candidates) : RestsOn(c, Refs(frozen))
  BY <1>3, <1>4, FirstResultRests
<1> HIDE DEF b
<1>6. List(asked) /\ asked # <<>> /\ Refs(frozen) \subseteq Assessed
  BY <1>1 DEF GroundInv
<1>7. Refs(frozen)' = Refs(frozen) /\ Assessed' = Assessed
  BY <1>1 DEF Assessed
<1>8. (\A c \in Range(bundle.candidates) : RestsOn(c, Refs(frozen)))'
  BY <1>1, <1>5 DEF RestsOn
<1>9. QED
  BY <1>1, <1>6, <1>7, <1>8 DEF GroundInv

\* linear_agent_pipeline.py:531-563: and an audit changes none of it.
LEMMA AuditKeepsGround ==
  ASSUME PipelineInv, GroundInv, evidence' = evidence, NEW defect, Audit(defect)
  PROVE  GroundInv'
<1> DEFINE answer == Asks(AuditTask, defect)
<1>1. /\ phase = "AUDIT" /\ asked' = Append(asked, answer) /\ frozen' = frozen
      /\ \/ phase' = "FAILED"
         \/ phase' = "COMMIT" /\ bundle' = [bundle EXCEPT !.audit = AuditStatus(answer)]
  BY DEF Audit
<1> HIDE DEF answer
<1>2. List(asked) /\ IsBundle(bundle)
  BY <1>1 DEF PipelineInv
<1>3. /\ asked # <<>> /\ Refs(frozen) \subseteq Assessed
      /\ \A c \in Range(bundle.candidates) : RestsOn(c, Refs(frozen))
  BY <1>1 DEF GroundInv
<1>4. /\ List(asked') /\ Len(asked') = Len(asked) + 1
      /\ \A i \in 1..Len(asked) : asked'[i] = asked[i]
  BY <1>1, <1>2, AppendIsList
<1>5. Len(asked) \in Nat /\ Len(asked) # 0
  BY <1>2, <1>3 DEF List
<1>6. asked'[1] = asked[1] /\ asked' # <<>>
  <2>1. Len(asked') # 0
    BY <1>4, <1>5
  <2>2. QED
    BY <1>4, <1>5, <2>1
<1>7. Refs(frozen)' = Refs(frozen) /\ Assessed' = Assessed
  BY <1>1, <1>6 DEF Assessed
<1>8. CASE phase' = "COMMIT" /\ bundle' = [bundle EXCEPT !.audit = AuditStatus(answer)]
  <2>1. bundle'.candidates = bundle.candidates
    BY <1>2, <1>8 DEF IsBundle
  <2>2. (\A c \in Range(bundle.candidates) : RestsOn(c, Refs(frozen)))'
    BY <1>1, <1>3, <2>1 DEF RestsOn
  <2>3. QED
    BY <1>3, <1>4, <1>6, <1>7, <1>8, <2>2 DEF GroundInv
<1>9. CASE phase' = "FAILED"
  BY <1>9 DEF GroundInv
<1>10. QED
  BY <1>1, <1>8, <1>9

\* Every step of the system keeps it.
LEMMA GroundInvStep ==
  PipelineInv /\ CaseInv /\ GroundInv /\ [Next]_vars => GroundInv'
<1> SUFFICES ASSUME PipelineInv, CaseInv, GroundInv, [Next]_vars
             PROVE  GroundInv'
  OBVIOUS
<1>1. CASE PipelineStep /\ evidence' = evidence
  <2>1. CASE Publish
    <3>1. phase' \in {"DONE", "FOLLOWED"}
      BY <2>1 DEF Publish
    <3>2. QED
      BY <3>1 DEF GroundInv
  <2>2. ASSUME NEW failed, Retrieve(failed)
        PROVE  GroundInv'
    <3>1. phase' = "ASSESS"
      BY <2>2 DEF Retrieve
    <3>2. QED
      BY <3>1 DEF GroundInv
  <2>3. ASSUME NEW defect, Assess(defect)
        PROVE  GroundInv'
    BY <1>1, <2>3, AssessKeepsGround
  <2>4. ASSUME NEW tasks, Refuse(tasks)
        PROVE  GroundInv'
    <3>1. phase' = "FAILED"
      BY <2>4 DEF Refuse
    <3>2. QED
      BY <3>1 DEF GroundInv
  <2>5. ASSUME NEW tasks \in {ProposalTasks}, NEW defects, Propose(tasks, defects)
        PROVE  GroundInv'
    <3>1. Propose(ProposalTasks, defects)
      BY <2>5
    <3>2. QED
      BY <1>1, <3>1, ProposeKeepsGround
  <2>6. CASE RankProposals
    BY <1>1, <2>6, RankKeepsGround
  <2>7. ASSUME NEW defect, Audit(defect)
        PROVE  GroundInv'
    BY <1>1, <2>7, AuditKeepsGround
  <2>8. QED
    BY <1>1, <2>1, <2>2, <2>3, <2>4, <2>5, <2>6, <2>7 DEF PipelineStep
<1>2. CASE phase = "FOLLOWED" /\ Command
  <2>1. UNCHANGED runVars
    BY <1>2 DEF Command, Select, ApplyTerms, ApplyDocument, SetScalar, AddInterest,
       RemoveInterest, ConfirmFeedback, RefreshEvidence
  <2>2. phase' = "FOLLOWED"
    BY <1>2, <2>1 DEF runVars
  <2>3. QED
    BY <2>2 DEF GroundInv
<1>3. CASE Recompute
  <2>1. UNCHANGED <<evidence, runVars>>
    BY <1>3 DEF Recompute
  <2>2. QED
    BY <2>1, GroundStays DEF runVars
<1>4. CASE UNCHANGED vars
  BY <1>4, GroundStays DEF vars, runVars
<1>5. QED
  BY <1>1, <1>2, <1>3, <1>4 DEF Next

\* linear_agent_pipeline.py:159-168, franchise_grounding.py:63-166: whatever a result about
\* to be published calls a fact, a signal, a document or the ground of a brand was stored
\* before or is accepted by the researcher, for any answers of the tools and the agents.
THEOREM FactsAreAssessed == Spec => []NothingUnassessedIsFact
<1>1. Spec => []GroundInv
  BY PipelineIsConsistent, CaseIsConsistent, GroundInvInit, GroundInvStep, PTL DEF Spec
<1>2. QED
  BY <1>1, GroundIsAssessed, PTL
=============================================================================
