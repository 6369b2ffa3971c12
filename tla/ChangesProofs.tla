--------------------------- MODULE ChangesProofs ---------------------------
(* Facts about the operators of Changes, for the proofs about recordings. *)
EXTENDS Changes, FiniteSetTheorems, TLAPS

LEMMA LeastElement ==
  ASSUME NEW T \in SUBSET Nat, T # {}
  PROVE  \E x \in T : \A y \in T : x <= y
<1>1. /\ IsWellFoundedOn(OpToRel(<, Nat), Nat)
      /\ \A x, y \in Nat : x < y => <<x, y>> \in OpToRel(<, Nat)
  BY NatLessThanWellFounded DEF OpToRel
<1>2. \E R : IsWellFoundedOn(R, Nat) /\ \A x, y \in Nat : x < y => <<x, y>> \in R
  BY <1>1, Zenon
<1>3. PICK R : IsWellFoundedOn(R, Nat) /\ \A x, y \in Nat : x < y => <<x, y>> \in R
  BY <1>2
<1>4. IsWellFoundedOn(R, Nat) /\ T \subseteq Nat
  BY <1>3
<1>5. PICK x \in T : \A y \in T : ~(<<y, x>> \in R)
  BY ONLY <1>4, WFMin, T # {}, Zenon
<1>6. ASSUME NEW y \in T PROVE x <= y
  <2>1. x \in Nat /\ y \in Nat
    BY <1>4
  <2>2. ~(y < x)
    BY <1>3, <1>5, <2>1
  <2> QED BY <2>1, <2>2
<1> QED BY <1>6

\* Induction over the numbers of a set.
LEMMA Induction ==
  ASSUME NEW S, 0 \in S, \A n \in Nat : n \in S => n + 1 \in S
  PROVE  Nat \subseteq S
<1> DEFINE T == Nat \ S
<1> SUFFICES ASSUME T # {} PROVE FALSE
  OBVIOUS
<1>1. PICK x \in T : \A y \in T : x <= y
  BY LeastElement
<1>2. x # 0 /\ x - 1 \in Nat /\ x - 1 \notin T
  BY <1>1
<1> QED BY <1>2

-----------------------------------------------------------------------------
(* Ranks in a total order *)

StrictOrder(R, S) ==
  /\ \A x \in S : <<x, x>> \notin R
  /\ \A x, y, z \in S : <<x, y>> \in R /\ <<y, z>> \in R => <<x, z>> \in R
  /\ \A x, y \in S : x # y => <<x, y>> \in R \/ <<y, x>> \in R

Rank(R, S, x) == Cardinality({y \in S : <<y, x>> \in R})

\* The ranks of the members of a finite set are 0, 1, ... up to its size, each the rank of one member.
LEMMA Ranks ==
  ASSUME NEW S, IsFiniteSet(S), NEW R, StrictOrder(R, S)
  PROVE  /\ Cardinality(S) \in Nat
         /\ \A x \in S : Rank(R, S, x) \in 0..(Cardinality(S) - 1)
         /\ \A x, y \in S : <<x, y>> \in R => Rank(R, S, x) < Rank(R, S, y)
         /\ \A k \in 1..Cardinality(S) : \E x \in S : Rank(R, S, x) = k - 1
<1> DEFINE Less(x) == {y \in S : <<y, x>> \in R}
           n       == Cardinality(S)
<1>1. n \in Nat
  BY FS_CardinalityType
<1>2. \A x \in S : IsFiniteSet(Less(x)) /\ Cardinality(Less(x)) \in Nat
  <2> TAKE x \in S
  <2>1. Less(x) \in SUBSET S
    OBVIOUS
  <2>2. IsFiniteSet(Less(x))
    BY <2>1, FS_Subset
  <2> QED BY <2>2, FS_CardinalityType
<1>3. ASSUME NEW A, NEW B, IsFiniteSet(B), A \subseteq B, A # B
      PROVE  Cardinality(A) < Cardinality(B)
  <2>1. A \in SUBSET B
    BY <1>3
  <2>2. IsFiniteSet(A) /\ Cardinality(A) <= Cardinality(B) /\ Cardinality(A) # Cardinality(B)
    BY <1>3, <2>1, FS_Subset
  <2>3. Cardinality(A) \in Nat /\ Cardinality(B) \in Nat
    BY <1>3, <2>2, FS_CardinalityType
  <2> QED BY <2>2, <2>3
<1>4. \A x \in S : Cardinality(Less(x)) < n
  <2> TAKE x \in S
  <2>1. Less(x) \subseteq S /\ x \notin Less(x)
    BY DEF StrictOrder
  <2> QED BY <1>3, <2>1
<1>5. \A x, y \in S : <<x, y>> \in R => Cardinality(Less(x)) < Cardinality(Less(y))
  <2> SUFFICES ASSUME NEW x \in S, NEW y \in S, <<x, y>> \in R
               PROVE  Cardinality(Less(x)) < Cardinality(Less(y))
    OBVIOUS
  <2>1. Less(x) \subseteq Less(y) /\ x \in Less(y) /\ x \notin Less(x)
    BY DEF StrictOrder
  <2>2. IsFiniteSet(Less(y)) /\ Less(x) # Less(y)
    BY <1>2, <2>1
  <2> QED BY <1>3, <2>1, <2>2
<1> DEFINE rank == [x \in S |-> Cardinality(Less(x))]
<1>6. \A x \in S : rank[x] = Cardinality(Less(x)) /\ rank[x] \in 0..(n - 1)
  BY <1>1, <1>2, <1>4
<1>7. \A x, y \in S : <<x, y>> \in R => rank[x] < rank[y]
  BY <1>5, <1>6
<1> HIDE DEF rank, n
<1>8. \A x, y \in S : x # y => rank[x] # rank[y]
  <2> SUFFICES ASSUME NEW x \in S, NEW y \in S, x # y PROVE rank[x] # rank[y]
    OBVIOUS
  <2>1. rank[x] < rank[y] \/ rank[y] < rank[x]
    BY <1>7 DEF StrictOrder
  <2>2. rank[x] \in 0..(n - 1) /\ rank[y] \in 0..(n - 1)
    BY <1>6
  <2> QED BY ONLY <1>1, <2>1, <2>2
<1>9. rank \in Injection(S, 0..(n - 1))
  <2>1. rank \in [S -> 0..(n - 1)]
    BY <1>6 DEF rank
  <2>2. IsInjective(rank)
    BY <1>8, <2>1 DEF IsInjective
  <2> QED BY <2>1, <2>2 DEF Injection
<1>10. IsFiniteSet(0..(n - 1)) /\ Cardinality(0..(n - 1)) = n
  <2>1. 0 \in Int /\ n - 1 \in Int
    BY <1>1
  <2> QED BY <1>1, <2>1, FS_Interval
<1>11. Cardinality(S) = Cardinality(0..(n - 1))
  BY <1>10 DEF n
<1>12. rank \in Surjection(S, 0..(n - 1))
  BY <1>9, <1>10, <1>11, FS_Injection
<1>13. \A k \in 1..n : \E x \in S : rank[x] = k - 1
  <2> TAKE k \in 1..n
  <2>1. k - 1 \in 0..(n - 1)
    BY <1>1
  <2> QED BY <1>12, <2>1 DEF Surjection
<1>14. \A x \in S : Rank(R, S, x) = rank[x]
  BY <1>6 DEF Rank
<1> QED BY <1>1, <1>6, <1>7, <1>13, <1>14 DEF n

\* A function that picks the member of each rank lists the set in its order.
Lists(f, S, R) ==
  /\ f \in [1..Cardinality(S) -> S]
  /\ \A k \in 1..Cardinality(S) : Rank(R, S, f[k]) = k - 1

LEMMA Listed ==
  ASSUME NEW S, IsFiniteSet(S), NEW R, StrictOrder(R, S), NEW f, Lists(f, S, R)
  PROVE  /\ Cardinality(S) \in Nat
         /\ f \in Seq(S) /\ Len(f) = Cardinality(S) /\ DOMAIN f = 1..Cardinality(S)
         /\ \A x \in S : \E k \in DOMAIN f : f[k] = x
         /\ \A j, k \in DOMAIN f : j < k => <<f[j], f[k]>> \in R
<1>1. /\ Cardinality(S) \in Nat
      /\ \A x \in S : Rank(R, S, x) \in 0..(Cardinality(S) - 1)
      /\ \A x, y \in S : <<x, y>> \in R => Rank(R, S, x) < Rank(R, S, y)
  BY Ranks
<1>2. /\ f \in Seq(S) /\ Len(f) = Cardinality(S) /\ DOMAIN f = 1..Cardinality(S)
      /\ \A k \in DOMAIN f : f[k] \in S /\ Rank(R, S, f[k]) = k - 1
  BY <1>1 DEF Lists
<1>3. \A x, y \in S : x # y => Rank(R, S, x) # Rank(R, S, y)
  <2> SUFFICES ASSUME NEW x \in S, NEW y \in S, x # y
               PROVE  Rank(R, S, x) # Rank(R, S, y)
    OBVIOUS
  <2>1. Rank(R, S, x) < Rank(R, S, y) \/ Rank(R, S, y) < Rank(R, S, x)
    BY <1>1 DEF StrictOrder
  <2>2. Rank(R, S, x) \in 0..(Cardinality(S) - 1) /\ Rank(R, S, y) \in 0..(Cardinality(S) - 1)
    BY <1>1
  <2> QED BY ONLY <1>1, <2>1, <2>2
<1>4. ASSUME NEW x \in S PROVE \E k \in DOMAIN f : f[k] = x
  <2>1. Rank(R, S, x) + 1 \in DOMAIN f
    BY <1>1, <1>2
  <2>2. f[Rank(R, S, x) + 1] \in S /\ Rank(R, S, f[Rank(R, S, x) + 1]) = Rank(R, S, x)
    BY <1>1, <1>2, <2>1
  <2>3. f[Rank(R, S, x) + 1] = x
    BY <1>3, <2>2
  <2> QED BY <2>1, <2>3
<1>5. ASSUME NEW j \in DOMAIN f, NEW k \in DOMAIN f, j < k PROVE <<f[j], f[k]>> \in R
  <2>1. /\ f[j] \in S /\ f[k] \in S /\ j \in Nat /\ k \in Nat
        /\ Rank(R, S, f[j]) = j - 1 /\ Rank(R, S, f[k]) = k - 1
    BY <1>1, <1>2
  <2>2. f[j] # f[k]
    BY <1>5, <2>1
  <2>3. ASSUME <<f[k], f[j]>> \in R PROVE FALSE
    <3>1. Rank(R, S, f[k]) < Rank(R, S, f[j])
      BY <1>1, <2>1, <2>3
    <3> QED BY ONLY <3>1, <2>1, <1>5
  <2> QED BY <2>1, <2>2, <2>3 DEF StrictOrder
<1> QED BY <1>1, <1>2, <1>4, <1>5

\* Numbers in their order: a list that picks each rank has them all.
PicksNumbers(f, S) ==
  /\ DOMAIN f = 1..Cardinality(S) /\ f = [k \in DOMAIN f |-> f[k]]
  /\ \A k \in DOMAIN f : (\E x \in S : Cardinality({y \in S : y < x}) = k - 1)
       => f[k] \in S /\ Cardinality({y \in S : y < f[k]}) = k - 1

ListsNumbers(f, S) ==
  /\ Cardinality(S) \in Nat
  /\ f \in Seq(S) /\ Len(f) = Cardinality(S) /\ DOMAIN f = 1..Cardinality(S)
  /\ \A x \in S : \E k \in DOMAIN f : f[k] = x
  /\ \A j, k \in DOMAIN f : j < k => f[j] < f[k]

LEMMA NumbersInOrder ==
  ASSUME NEW S \in SUBSET Nat, IsFiniteSet(S), NEW f, PicksNumbers(f, S)
  PROVE  ListsNumbers(f, S)
<1>1. PICK R : R = {p \in S \X S : p[1] < p[2]}
  OBVIOUS
<1>2. \A x, y \in S : <<x, y>> \in R <=> x < y
  BY <1>1
<1>3. StrictOrder(R, S)
  BY <1>2 DEF StrictOrder
<1>4. \A x \in S : Cardinality({y \in S : y < x}) = Rank(R, S, x)
  <2> TAKE x \in S
  <2>1. {y \in S : y < x} = {y \in S : <<y, x>> \in R}
    BY <1>2
  <2> QED BY <2>1 DEF Rank
<1>5. \A k \in 1..Cardinality(S) : \E x \in S : Rank(R, S, x) = k - 1
  BY <1>3, Ranks
<1>6. \A k \in 1..Cardinality(S) : f[k] \in S /\ Rank(R, S, f[k]) = k - 1
  BY <1>4, <1>5 DEF PicksNumbers
<1>7. Lists(f, S, R)
  BY <1>6 DEF Lists, PicksNumbers
<1>8. /\ Cardinality(S) \in Nat
      /\ f \in Seq(S) /\ Len(f) = Cardinality(S) /\ DOMAIN f = 1..Cardinality(S)
      /\ \A x \in S : \E k \in DOMAIN f : f[k] = x
      /\ \A j, k \in DOMAIN f : j < k => <<f[j], f[k]>> \in R
  BY <1>3, <1>7, Listed
<1>9. \A j, k \in DOMAIN f : j < k => f[j] < f[k]
  <2> TAKE j, k \in DOMAIN f
  <2>1. f[j] \in S /\ f[k] \in S
    BY ONLY <1>8
  <2> QED BY ONLY <1>2, <1>8, <2>1
<1> QED BY <1>8, <1>9 DEF ListsNumbers

-----------------------------------------------------------------------------
(* What the poller finds, and what is made of it *)

PollEvents(n) == [path : 1..n, kind : {"create", "remove", "modify"}]

\* A scan of n files reports those that differ, and only those.
ReportsAll(s, n, old, new) ==
  /\ s \in Seq(PollEvents(n))
  /\ \A p \in 1..n : old[p] # new[p] => \E k \in DOMAIN s : s[k].path = p
  /\ \A k \in DOMAIN s : old[s[k].path] # new[s[k].path]
  /\ \A k \in DOMAIN s : s[k].kind = "remove" <=> new[s[k].path] = Absent
  /\ \A k \in DOMAIN s : s[k].kind = "create" <=> old[s[k].path] = Absent

LEMMA ScanFinds ==
  ASSUME NEW n \in Nat, NEW V, NEW old \in [1..n -> V], NEW new \in [1..n -> V],
         NEW s, s = ScanEvents(old, new)
  PROVE  ReportsAll(s, n, old, new)
<1> DEFINE S == {p \in 1..n : old[p] # new[p]}
           at(k) == CHOOSE x \in S : Cardinality({y \in S : y < x}) = k - 1
           differ == [k \in 1..Cardinality(S) |-> at(k)]
           kind(p) == IF old[p] = Absent THEN "create"
                      ELSE IF new[p] = Absent THEN "remove" ELSE "modify"
<1>1. s = [i \in DOMAIN differ |-> [path |-> differ[i], kind |-> kind(differ[i])]]
  BY DEF ScanEvents, InOrder
<1>2. S \in SUBSET Nat /\ IsFiniteSet(S)
  <2>1. IsFiniteSet(1..n)
    BY FS_Interval
  <2> QED BY <2>1, FS_Subset
<1>3. \A k : (\E x \in S : Cardinality({y \in S : y < x}) = k - 1)
         => at(k) \in S /\ Cardinality({y \in S : y < at(k)}) = k - 1
  <2> TAKE k
  <2> HIDE DEF S
  <2> QED OBVIOUS
<1> HIDE DEF at, S
<1>4. PicksNumbers(differ, S)
  BY <1>3 DEF PicksNumbers
<1> HIDE DEF differ
<1>5. /\ Cardinality(S) \in Nat
      /\ differ \in Seq(S) /\ Len(differ) = Cardinality(S) /\ DOMAIN differ = 1..Cardinality(S)
      /\ \A x \in S : \E k \in DOMAIN differ : differ[k] = x
  BY <1>2, <1>4, NumbersInOrder DEF ListsNumbers
<1>6. DOMAIN s = 1..Len(differ) /\ \A k \in DOMAIN s : /\ s[k].path = differ[k] /\ differ[k] \in S
                                                      /\ s[k] \in PollEvents(n)
  <2>1. DOMAIN s = DOMAIN differ
    BY <1>1
  <2>2. ASSUME NEW k \in DOMAIN s
        PROVE  s[k].path = differ[k] /\ differ[k] \in S /\ s[k] \in PollEvents(n)
    <3>1. s[k] = [path |-> differ[k], kind |-> kind(differ[k])] /\ differ[k] \in S
      BY <1>1, <1>5, <2>1
    <3>2. differ[k] \in 1..n
      BY <3>1 DEF S
    <3> QED BY <3>1, <3>2 DEF PollEvents
  <2> QED BY <1>5, <2>1, <2>2
<1>7. s \in Seq(PollEvents(n))
  <2>1. s = [k \in 1..Len(differ) |-> s[k]]
    BY <1>1, <1>5, <1>6
  <2> QED BY <1>5, <1>6, <2>1
<1>8. \A p \in 1..n : old[p] # new[p] => \E k \in DOMAIN s : s[k].path = p
  <2> TAKE p \in 1..n
  <2> HAVE old[p] # new[p]
  <2>1. p \in S
    BY DEF S
  <2>2. PICK k \in DOMAIN differ : differ[k] = p
    BY <1>5, <2>1
  <2> QED BY <1>5, <1>6, <2>2
<1>9. \A k \in DOMAIN s : old[s[k].path] # new[s[k].path]
  BY <1>6 DEF S
<1>10. ASSUME NEW k \in DOMAIN s
       PROVE  /\ s[k].kind = "remove" <=> new[s[k].path] = Absent
              /\ s[k].kind = "create" <=> old[s[k].path] = Absent
  <2>1. s[k].kind = kind(s[k].path)
    BY <1>1, <1>6
  <2> QED BY <1>9, <2>1
<1> QED BY <1>7, <1>8, <1>9, <1>10 DEF ReportsAll

LEMMA PathsAre ==
  ASSUME NEW n \in Nat, NEW events \in Seq(PollEvents(n)), NEW kind, NEW f, f = PathsOf(events, kind)
  PROVE  ToSet(f) = {events[i].path : i \in {j \in DOMAIN events : events[j].kind = kind}}
         /\ ((\A i \in DOMAIN events : events[i].kind # kind) => DOMAIN f = {})
<1> DEFINE S == {i \in DOMAIN events : events[i].kind = kind}
           at(k) == CHOOSE x \in S : Cardinality({y \in S : y < x}) = k - 1
           chosen == [k \in 1..Cardinality(S) |-> at(k)]
<1>1. f = [k \in DOMAIN chosen |-> events[chosen[k]].path]
  BY DEF PathsOf, InOrder
<1>2. S \in SUBSET Nat /\ IsFiniteSet(S)
  <2>1. IsFiniteSet(1..Len(events)) /\ DOMAIN events = 1..Len(events)
    BY FS_Interval
  <2>2. S \in SUBSET (1..Len(events)) /\ S \in SUBSET Nat
    BY <2>1
  <2> HIDE DEF S
  <2>3. IsFiniteSet(S)
    BY <2>1, <2>2, FS_Subset
  <2> QED BY <2>2, <2>3
<1>3. \A k : (\E x \in S : Cardinality({y \in S : y < x}) = k - 1)
         => at(k) \in S /\ Cardinality({y \in S : y < at(k)}) = k - 1
  <2> TAKE k
  <2> HIDE DEF S
  <2> QED OBVIOUS
<1> HIDE DEF at, S
<1>4. PicksNumbers(chosen, S)
  BY <1>3 DEF PicksNumbers
<1> HIDE DEF chosen
<1>5. /\ chosen \in Seq(S) /\ DOMAIN chosen = 1..Cardinality(S) /\ Cardinality(S) \in Nat
      /\ \A x \in S : \E k \in DOMAIN chosen : chosen[k] = x
  BY <1>2, <1>4, NumbersInOrder DEF ListsNumbers
<1>6. DOMAIN f = DOMAIN chosen /\ \A k \in DOMAIN chosen : f[k] = events[chosen[k]].path /\ chosen[k] \in S
  BY <1>1, <1>5
<1>7. ToSet(f) = {events[i].path : i \in S}
  BY <1>5, <1>6 DEF ToSet
<1>8. ASSUME \A i \in DOMAIN events : events[i].kind # kind PROVE DOMAIN f = {}
  <2>1. S = {}
    BY <1>8 DEF S
  <2> QED BY <1>5, <1>6, <2>1, FS_EmptySet
<1> QED BY <1>7, <1>8 DEF S

SaidOf(kind) == CASE kind = "create" -> "created" [] kind = "modify" -> "modified" [] OTHER -> "deleted"

PlainChanges(n, disk) ==
  {ChangeFor(kind, path, NoPath, disk) : kind \in {"created", "modified", "deleted"}, path \in 1..n}
MovedChanges(n, disk) ==
  {ChangeFor("moved", path, previous, disk) : path \in 1..n, previous \in 1..n}

LEMMA NoticedAre ==
  ASSUME NEW n \in Nat, NEW events \in Seq(PollEvents(n)), NEW disk
  PROVE  Noticed(events, disk) =
           {ChangeFor(SaidOf(events[i].kind), events[i].path, NoPath, disk) : i \in DOMAIN events}
<1> DEFINE Of(kind) == {i \in DOMAIN events : events[i].kind = kind}
           plain(kind, name) == {ChangeFor(name, p, NoPath, disk) : p \in ToSet(PathsOf(events, kind))}
<1>1. \A i \in DOMAIN events : events[i].kind \in {"create", "remove", "modify"} /\ events[i].path \in 1..n
  <2> TAKE i \in DOMAIN events
  <2>1. events[i] \in PollEvents(n)
    OBVIOUS
  <2> QED BY <2>1 DEF PollEvents
<1>2. ASSUME NEW kind
      PROVE  /\ ToSet(PathsOf(events, kind)) = {events[i].path : i \in Of(kind)}
             /\ kind \notin {"create", "remove", "modify"} => DOMAIN PathsOf(events, kind) = {}
  <2>1. PICK f : f = PathsOf(events, kind)
    OBVIOUS
  <2>2. /\ ToSet(f) = {events[i].path : i \in Of(kind)}
        /\ (\A i \in DOMAIN events : events[i].kind # kind) => DOMAIN f = {}
    BY <2>1, PathsAre
  <2> QED BY <1>1, <2>1, <2>2
<1>3. /\ DOMAIN PathsOf(events, "from") = {} /\ DOMAIN PathsOf(events, "to") = {}
      /\ DOMAIN PathsOf(events, "any") = {}
  BY <1>2
<1>4. PairedHalves(PathsOf(events, "from"), PathsOf(events, "to"), disk) = {}
  BY <1>3 DEF PairedHalves
<1>5. UndirectedRenames(PathsOf(events, "any"), disk) = {}
  BY <1>3, FS_EmptySet DEF UndirectedRenames
<1>6. ASSUME NEW kind, NEW name
      PROVE  plain(kind, name) = {ChangeFor(name, events[i].path, NoPath, disk) : i \in Of(kind)}
  BY <1>2
<1>7. \A kind, name, path : ChangeFor(name, path, NoPath, disk).path = path
  BY DEF ChangeFor
<1>8. \A kind, name : plain(kind, name) = {ChangeFor(name, events[i].path, NoPath, disk) : i \in Of(kind)}
  BY <1>6
<1> HIDE DEF plain
<1>9. \A c \in plain("create", "created") \cup plain("modify", "modified") \cup plain("remove", "deleted") :
        c.path # Root
  <2> TAKE c \in plain("create", "created") \cup plain("modify", "modified") \cup plain("remove", "deleted")
  <2>1. PICK kind, name : c \in plain(kind, name)
    BY Zenon
  <2>2. PICK i \in DOMAIN events : c = ChangeFor(name, events[i].path, NoPath, disk)
    BY <1>8, <2>1
  <2>3. c.path = events[i].path /\ events[i].path \in 1..n
    BY <1>1, <1>7, <2>2
  <2> QED BY <2>3 DEF Root
<1>10. Noticed(events, disk) =
        plain("create", "created") \cup plain("modify", "modified") \cup plain("remove", "deleted")
  BY <1>4, <1>5, <1>9 DEF Noticed, plain
<1>11. SaidOf("create") = "created" /\ SaidOf("modify") = "modified" /\ SaidOf("remove") = "deleted"
  BY DEF SaidOf
<1> QED BY <1>1, <1>10, <1>8, <1>11

LEMMA AsMove ==
  ASSUME NEW p, NEW q, NEW r, NEW content, NEW c, NEW m,
         c = [kind |-> "created", path |-> p, previous |-> q, content |-> content],
         m = [c EXCEPT !.kind = "moved", !.previous = r]
  PROVE  m = [kind |-> "moved", path |-> p, previous |-> r, content |-> content]
<1>1. c \in [kind : {"created"}, path : {p}, previous : {q}, content : {content}]
  OBVIOUS
<1>2. c.path = p /\ c.content = content
  OBVIOUS
<1>3. m = [kind |-> "moved", path |-> c.path, previous |-> r, content |-> c.content]
  BY <1>1
<1> QED BY <1>2, <1>3

LEMMA OneMember ==
  ASSUME NEW S, Cardinality(S) = 1, IsFiniteSet(S)
  PROVE  (CHOOSE x \in S : TRUE) \in S /\ \A y \in S : y = CHOOSE x \in S : TRUE
<1>1. PICK x : S = {x}
  BY FS_Singleton
<1> QED BY <1>1

\* A change says what the files are.
TrueOf(c, disk) ==
  /\ c.content = disk[c.path]
  /\ c.kind = "deleted" <=> disk[c.path] = Absent
  /\ c.kind = "moved" => disk[c.previous] = Absent

\* A creation and a deletion that become a move are both still named, and the move says what they said.
LEMMA InferredNames ==
  ASSUME NEW n \in Nat, NEW disk, NEW S, S \subseteq PlainChanges(n, disk), IsFiniteSet(S)
  PROVE  /\ InferRename(S) \subseteq PlainChanges(n, disk) \cup MovedChanges(n, disk)
         /\ \A c \in S : NamedIn(InferRename(S), c.path)
         /\ IsFiniteSet(InferRename(S))
         /\ (\A c \in S : TrueOf(c, disk)) => \A c \in InferRename(S) : TrueOf(c, disk)
<1> DEFINE created == OfKind(S, "created")
           deleted == OfKind(S, "deleted")
           c == CHOOSE x \in created : TRUE
           d == CHOOSE x \in deleted : TRUE
           moved == [c EXCEPT !.kind = "moved", !.previous = d.path]
<1>1. CASE InferRename(S) = S
  BY <1>1 DEF NamedIn
<1>2. CASE InferRename(S) # S
  <2>1. /\ Cardinality(created) = 1 /\ Cardinality(deleted) = 1
        /\ c.path # d.path /\ InferRename(S) = (S \ {c, d}) \cup {moved}
    BY <1>2 DEF InferRename
  <2>2. created \in SUBSET S /\ deleted \in SUBSET S
    BY DEF OfKind
  <2>3. IsFiniteSet(created) /\ IsFiniteSet(deleted)
    BY <2>2, FS_Subset
  <2>4. c \in created /\ d \in deleted
    BY <2>1, <2>3, OneMember
  <2> HIDE DEF created, deleted, c, d
  <2>5. PICK p \in 1..n : c = ChangeFor("created", p, NoPath, disk)
    <3>1. c \in S /\ c.kind = "created"
      BY <2>4 DEF created, OfKind
    <3>2. PICK kind \in {"created", "modified", "deleted"}, p \in 1..n : c = ChangeFor(kind, p, NoPath, disk)
      BY <3>1 DEF PlainChanges
    <3>3. kind = "created"
      BY <3>1, <3>2 DEF ChangeFor
    <3> QED BY <3>2, <3>3
  <2>6. d.path \in 1..n
    <3>1. d \in S
      BY <2>2, <2>4
    <3>2. PICK kind \in {"created", "modified", "deleted"}, q \in 1..n : d = ChangeFor(kind, q, NoPath, disk)
      BY <3>1 DEF PlainChanges
    <3> QED BY <3>2 DEF ChangeFor
  <2>7. moved = ChangeFor("moved", p, d.path, disk)
    <3>1. PICK content, previous : content = disk[p] /\ previous = d.path
      OBVIOUS
    <3>2. c = [kind |-> "created", path |-> p, previous |-> NoPath, content |-> content]
      BY <2>5, <3>1 DEF ChangeFor
    <3>3. moved = [kind |-> "moved", path |-> p, previous |-> previous, content |-> content]
      <4>1. PICK m : m = moved
        OBVIOUS
      <4>2. m = [c EXCEPT !.kind = "moved", !.previous = previous]
        BY <3>1, <4>1
      <4> HIDE DEF moved
      <4>3. m = [kind |-> "moved", path |-> p, previous |-> previous, content |-> content]
        BY <3>2, <4>2, AsMove
      <4> QED BY <4>1, <4>3
    <3> QED BY <3>1, <3>3 DEF ChangeFor
  <2>8. moved \in MovedChanges(n, disk) /\ moved.kind = "moved" /\ moved.path = c.path /\ moved.previous = d.path
    <3>1. ChangeFor("moved", p, d.path, disk) \in MovedChanges(n, disk)
      BY <2>6 DEF MovedChanges
    <3> QED BY <2>5, <2>7, <3>1 DEF ChangeFor
  <2>11. moved.content = disk[moved.path]
    BY <2>7 DEF ChangeFor
  <2> HIDE DEF moved
  <2>9. \A x \in S : NamedIn(InferRename(S), x.path)
    BY <2>1, <2>8 DEF NamedIn
  <2>10. IsFiniteSet(S \ {c, d}) /\ IsFiniteSet(InferRename(S))
    <3>1. IsFiniteSet(S \ {c, d})
      BY FS_Subset
    <3> QED BY <2>1, <3>1, FS_AddElement
  <2>12. ASSUME \A x \in S : TrueOf(x, disk)
         PROVE  \A x \in InferRename(S) : TrueOf(x, disk)
    <3>1. d \in S /\ d.kind = "deleted"
      BY <2>4 DEF deleted, OfKind
    <3>2. disk[d.path] = Absent
      BY <2>12, <3>1 DEF TrueOf
    <3>3. c \in S /\ c.kind = "created" /\ disk[c.path] # Absent
      <4>1. c \in S /\ c.kind = "created"
        BY <2>4 DEF created, OfKind
      <4> QED BY <2>12, <4>1 DEF TrueOf
    <3>4. TrueOf(moved, disk)
      BY <2>8, <2>11, <3>2, <3>3 DEF TrueOf
    <3> QED BY <2>1, <2>12, <3>4
  <2> QED BY <2>1, <2>8, <2>9, <2>10, <2>12
<1> QED BY <1>1, <1>2

LEMMA DroppedNames ==
  ASSUME NEW S, IsFiniteSet(S)
  PROVE  /\ DropModified(S) \subseteq S
         /\ \A p : NamedIn(S, p) => NamedIn(DropModified(S), p)
         /\ IsFiniteSet(DropModified(S))
<1> DEFINE structural == {c.path : c \in OfKind(S, "created") \cup OfKind(S, "moved")}
<1>1. DropModified(S) = {c \in S : c.kind = "modified" => c.path \notin structural}
  BY DEF DropModified
<1>2. \A c \in OfKind(S, "created") \cup OfKind(S, "moved") : c \in DropModified(S)
  BY <1>1 DEF OfKind
<1>3. ASSUME NEW p, NamedIn(S, p) PROVE NamedIn(DropModified(S), p)
  <2>1. PICK c \in S : c.path = p \/ (c.kind = "moved" /\ c.previous = p)
    BY <1>3 DEF NamedIn
  <2>2. CASE c \in DropModified(S)
    BY <2>1, <2>2 DEF NamedIn
  <2>3. CASE c \notin DropModified(S)
    <3>1. c.kind = "modified" /\ c.path \in structural
      BY <1>1, <2>3
    <3>2. PICK x \in OfKind(S, "created") \cup OfKind(S, "moved") : x.path = c.path
      BY <3>1
    <3> QED BY <1>2, <2>1, <3>1, <3>2 DEF NamedIn
  <2> QED BY <2>2, <2>3
<1>4. IsFiniteSet(DropModified(S))
  BY <1>1, FS_Subset
<1> QED BY <1>1, <1>3, <1>4

\* Changes that agree in path, kind and previous path are equal, and FilesystemChange::cmp orders the others.
LEMMA ChangesAreOrdered ==
  ASSUME NEW n \in Nat, NEW disk, NEW S, S \subseteq PlainChanges(n, disk) \cup MovedChanges(n, disk),
         NEW R, \A x, y \in S : <<x, y>> \in R <=> ChangeBefore(x, y)
  PROVE  StrictOrder(R, S)
<1>1. \A c \in S : \E kind \in {"created", "modified", "moved", "deleted"}, path \in 1..n, previous \in 0..n :
                     c = ChangeFor(kind, path, previous, disk)
  <2> TAKE c \in S
  <2>1. CASE c \in PlainChanges(n, disk)
    BY <2>1 DEF PlainChanges, NoPath
  <2>2. CASE c \in MovedChanges(n, disk)
    <3>1. PICK path \in 1..n, previous \in 1..n : c = ChangeFor("moved", path, previous, disk)
      BY <2>2 DEF MovedChanges
    <3>2. previous \in 0..n
      OBVIOUS
    <3> QED BY <3>1, <3>2
  <2> QED BY <2>1, <2>2
<1>2. \A c \in S : /\ c.path \in Nat /\ c.previous \in Nat /\ KindRank(c.kind) \in 1..4
                   /\ c = ChangeFor(c.kind, c.path, c.previous, disk)
                   /\ c.kind \in {"created", "modified", "moved", "deleted"}
  <2> TAKE c \in S
  <2>1. PICK kind \in {"created", "modified", "moved", "deleted"}, path \in 1..n, previous \in 0..n :
          c = ChangeFor(kind, path, previous, disk)
    BY <1>1
  <2>2. c.kind = kind /\ c.path = path /\ c.previous = previous
    BY <2>1 DEF ChangeFor
  <2>3. KindRank(kind) \in 1..4
    BY DEF KindRank
  <2> QED BY <2>1, <2>2, <2>3
<1>3. \A x, y \in S : KindRank(x.kind) = KindRank(y.kind) => x.kind = y.kind
  <2> TAKE x, y \in S
  <2>1. /\ x.kind \in {"created", "modified", "moved", "deleted"}
        /\ y.kind \in {"created", "modified", "moved", "deleted"}
    BY <1>2
  <2> QED BY <2>1 DEF KindRank
<1>4. \A x, y \in S : x.path = y.path /\ x.kind = y.kind /\ x.previous = y.previous => x = y
  <2> TAKE x, y \in S
  <2> HAVE x.path = y.path /\ x.kind = y.kind /\ x.previous = y.previous
  <2>1. /\ x = ChangeFor(x.kind, x.path, x.previous, disk)
        /\ y = ChangeFor(y.kind, y.path, y.previous, disk)
    BY <1>2
  <2> QED BY <2>1
<1>5. \A x \in S : <<x, x>> \notin R
  BY <1>2 DEF ChangeBefore
<1>6. ASSUME NEW x \in S, NEW y \in S, NEW z \in S, <<x, y>> \in R, <<y, z>> \in R
      PROVE  <<x, z>> \in R
  <2>1. ChangeBefore(x, y) /\ ChangeBefore(y, z)
    BY <1>6
  <2>2. /\ x.path \in Nat /\ y.path \in Nat /\ z.path \in Nat
        /\ x.previous \in Nat /\ y.previous \in Nat /\ z.previous \in Nat
        /\ KindRank(x.kind) \in 1..4 /\ KindRank(y.kind) \in 1..4 /\ KindRank(z.kind) \in 1..4
    BY <1>2
  <2>3. ChangeBefore(x, z)
    BY ONLY <2>1, <2>2 DEF ChangeBefore
  <2> QED BY <2>3
<1>7. ASSUME NEW x \in S, NEW y \in S, x # y
      PROVE  <<x, y>> \in R \/ <<y, x>> \in R
  <2>1. /\ x.path \in Nat /\ y.path \in Nat /\ x.previous \in Nat /\ y.previous \in Nat
        /\ KindRank(x.kind) \in 1..4 /\ KindRank(y.kind) \in 1..4
    BY <1>2
  <2>2. KindRank(x.kind) = KindRank(y.kind) => x.kind = y.kind
    BY <1>3
  <2>3. ~(x.path = y.path /\ x.kind = y.kind /\ x.previous = y.previous)
    BY <1>4, <1>7
  <2>4. ChangeBefore(x, y) \/ ChangeBefore(y, x)
    BY ONLY <2>1, <2>2, <2>3 DEF ChangeBefore
  <2> QED BY <2>4
<1> QED BY <1>5, <1>6, <1>7 DEF StrictOrder

\* adapt_events loses no path, puts the changes in order, and says what the files are.
LEMMA AdaptNames ==
  ASSUME NEW n \in Nat, NEW events \in Seq(PollEvents(n)), NEW disk, NEW s, s = Adapt(events, disk)
  PROVE  /\ s \in Seq(PlainChanges(n, disk) \cup MovedChanges(n, disk))
         /\ \A i \in DOMAIN events : NamedIn(ToSet(s), events[i].path)
         /\ \A j, k \in DOMAIN s : j < k => ChangeBefore(s[j], s[k])
         /\ (\A i \in DOMAIN events : events[i].kind = "remove" <=> disk[events[i].path] = Absent)
              => \A i \in DOMAIN s : TrueOf(s[i], disk)
<1> DEFINE noticed == Noticed(events, disk)
           S == DropModified(InferRename(noticed))
           at(k) == CHOOSE x \in S : Cardinality({y \in S : ChangeBefore(y, x)}) = k - 1
           listed == [k \in 1..Cardinality(S) |-> at(k)]
<1>1. s = listed
  BY DEF Adapt, InOrder
<1>2. noticed = {ChangeFor(SaidOf(events[i].kind), events[i].path, NoPath, disk) : i \in DOMAIN events}
  BY NoticedAre
<1>3. noticed \subseteq PlainChanges(n, disk)
  <2> SUFFICES ASSUME NEW i \in DOMAIN events
               PROVE  ChangeFor(SaidOf(events[i].kind), events[i].path, NoPath, disk) \in PlainChanges(n, disk)
    BY <1>2
  <2>1. events[i] \in PollEvents(n)
    OBVIOUS
  <2>2. events[i].path \in 1..n
    BY <2>1 DEF PollEvents
  <2>3. SaidOf(events[i].kind) \in {"created", "modified", "deleted"}
    BY DEF SaidOf
  <2> QED BY <2>2, <2>3 DEF PlainChanges
<1>4. IsFiniteSet(noticed)
  <2> DEFINE f == [i \in DOMAIN events |-> ChangeFor(SaidOf(events[i].kind), events[i].path, NoPath, disk)]
  <2>1. f \in Surjection(DOMAIN events, noticed)
    BY <1>2 DEF Surjection
  <2>2. IsFiniteSet(DOMAIN events)
    <3>1. DOMAIN events = 1..Len(events) /\ Len(events) \in Int
      OBVIOUS
    <3> QED BY <3>1, FS_Interval
  <2> HIDE DEF f, noticed
  <2> QED BY <2>1, <2>2, FS_Surjection
<1> HIDE DEF noticed
<1>5. /\ InferRename(noticed) \subseteq PlainChanges(n, disk) \cup MovedChanges(n, disk)
      /\ \A c \in noticed : NamedIn(InferRename(noticed), c.path)
      /\ IsFiniteSet(InferRename(noticed))
  BY <1>3, <1>4, InferredNames
<1>6. /\ S \subseteq InferRename(noticed) /\ IsFiniteSet(S)
      /\ \A p : NamedIn(InferRename(noticed), p) => NamedIn(S, p)
  BY <1>5, DroppedNames
<1>7. \A i \in DOMAIN events : NamedIn(S, events[i].path)
  <2> TAKE i \in DOMAIN events
  <2>1. PICK c \in noticed : c = ChangeFor(SaidOf(events[i].kind), events[i].path, NoPath, disk)
    BY <1>2
  <2>2. c.path = events[i].path
    BY <2>1 DEF ChangeFor
  <2> QED BY <1>5, <1>6, <2>2
<1>8. \A k : (\E x \in S : Cardinality({y \in S : ChangeBefore(y, x)}) = k - 1)
         => at(k) \in S /\ Cardinality({y \in S : ChangeBefore(y, at(k))}) = k - 1
  <2> TAKE k
  <2> HIDE DEF S
  <2> QED OBVIOUS
<1> HIDE DEF at, S
<1>9. PICK R : R = {p \in S \X S : ChangeBefore(p[1], p[2])}
  OBVIOUS
<1>10. \A x, y \in S : <<x, y>> \in R <=> ChangeBefore(x, y)
  BY <1>9
<1>11. S \subseteq PlainChanges(n, disk) \cup MovedChanges(n, disk)
  BY <1>5, <1>6
<1>12. StrictOrder(R, S)
  BY <1>10, <1>11, ChangesAreOrdered
<1>13. \A x \in S : Cardinality({y \in S : ChangeBefore(y, x)}) = Rank(R, S, x)
  <2> TAKE x \in S
  <2>1. {y \in S : ChangeBefore(y, x)} = {y \in S : <<y, x>> \in R}
    BY <1>10
  <2> QED BY <2>1 DEF Rank
<1>14. \A k \in 1..Cardinality(S) : \E x \in S : Rank(R, S, x) = k - 1
  BY <1>6, <1>12, Ranks
<1>15. \A k \in 1..Cardinality(S) : at(k) \in S /\ Rank(R, S, at(k)) = k - 1
  BY <1>8, <1>13, <1>14
<1>16. Lists(listed, S, R)
  BY <1>15 DEF Lists
<1> HIDE DEF listed
<1>17. /\ listed \in Seq(S) /\ \A x \in S : \E k \in DOMAIN listed : listed[k] = x
       /\ \A j, k \in DOMAIN listed : j < k => <<listed[j], listed[k]>> \in R
  BY <1>6, <1>12, <1>16, Listed
<1>18. ToSet(listed) = S
  BY <1>17 DEF ToSet
<1>19. \A j, k \in DOMAIN listed : j < k => ChangeBefore(listed[j], listed[k])
  <2> TAKE j, k \in DOMAIN listed
  <2> HAVE j < k
  <2>1. listed[j] \in S /\ listed[k] \in S /\ <<listed[j], listed[k]>> \in R
    BY <1>17
  <2> QED BY <1>10, <2>1
<1>20. ASSUME \A i \in DOMAIN events : events[i].kind = "remove" <=> disk[events[i].path] = Absent
       PROVE  \A i \in DOMAIN listed : TrueOf(listed[i], disk)
  <2>1. ASSUME NEW c \in noticed PROVE TrueOf(c, disk)
    <3>1. PICK i \in DOMAIN events : c = ChangeFor(SaidOf(events[i].kind), events[i].path, NoPath, disk)
      BY <1>2
    <3>2. SaidOf(events[i].kind) = "deleted" <=> disk[events[i].path] = Absent
      <4>1. events[i].kind \in {"create", "remove", "modify"}
        <5>1. events[i] \in PollEvents(n)
          OBVIOUS
        <5> QED BY <5>1 DEF PollEvents
      <4> QED BY <1>20, <4>1 DEF SaidOf
    <3>3. SaidOf(events[i].kind) # "moved"
      BY DEF SaidOf
    <3> QED BY <3>1, <3>2, <3>3 DEF TrueOf, ChangeFor
  <2>2. \A c \in InferRename(noticed) : TrueOf(c, disk)
    BY <1>3, <1>4, <2>1, InferredNames
  <2> QED BY <1>6, <1>17, <2>2
<1> QED BY <1>1, <1>7, <1>11, <1>17, <1>18, <1>19, <1>20

Relocated(files, from, to) == [files EXCEPT ![from] = Absent, ![to] = files[from]]
Moves(old, new, from, to) == old[from] # Absent /\ old[to] = Absent /\ new = Relocated(old, from, to)

OneMove(changes, from, to, disk) == changes = <<ChangeFor("moved", to, from, disk)>>

\* A file that was moved is reported as one move.
LEMMA MovesAreInferred ==
  ASSUME NEW n \in Nat, NEW V, NEW old \in [1..n -> V], NEW new \in [1..n -> V],
         NEW from \in 1..n, NEW to \in 1..n, Moves(old, new, from, to),
         NEW s, s = Adapt(ScanEvents(old, new), new)
  PROVE  OneMove(s, from, to, new)
<1> old[from] # Absent /\ old[to] = Absent /\ new = Relocated(old, from, to)
  BY DEF Moves
<1>1. PICK scan : scan = ScanEvents(old, new)
  OBVIOUS
<1>2. ReportsAll(scan, n, old, new)
  BY <1>1, ScanFinds
<1>3. from # to /\ new[from] = Absent /\ new[to] # Absent
      /\ \A p \in 1..n : p # from /\ p # to => new[p] = old[p]
  BY DEF Relocated
<1>4. PICK c, d, m : /\ c = ChangeFor("created", to, NoPath, new)
                     /\ d = ChangeFor("deleted", from, NoPath, new)
                     /\ m = ChangeFor("moved", to, from, new)
  OBVIOUS
<1>5. /\ c.kind = "created" /\ c.path = to /\ d.kind = "deleted" /\ d.path = from
      /\ m.kind = "moved" /\ m.path = to /\ m.previous = from
  BY <1>4 DEF ChangeFor
<1>6. \A k \in DOMAIN scan : \/ scan[k].path = to /\ SaidOf(scan[k].kind) = "created"
                             \/ scan[k].path = from /\ SaidOf(scan[k].kind) = "deleted"
  <2> TAKE k \in DOMAIN scan
  <2>1. scan[k].path \in 1..n /\ scan[k].kind \in {"create", "remove", "modify"}
    <3>1. scan \in Seq(PollEvents(n))
      BY <1>2 DEF ReportsAll
    <3>2. scan[k] \in PollEvents(n)
      BY <3>1
    <3> QED BY <3>2 DEF PollEvents
  <2>2. /\ old[scan[k].path] # new[scan[k].path]
        /\ scan[k].kind = "remove" <=> new[scan[k].path] = Absent
        /\ scan[k].kind = "create" <=> old[scan[k].path] = Absent
    BY <1>2 DEF ReportsAll
  <2>3. scan[k].path = to \/ scan[k].path = from
    BY <1>3, <2>1, <2>2
  <2>4. CASE scan[k].path = to
    BY <2>2, <2>4 DEF SaidOf
  <2>5. CASE scan[k].path = from
    BY <1>3, <2>2, <2>5 DEF SaidOf
  <2> QED BY <2>3, <2>4, <2>5
<1>7. Noticed(scan, new) = {c, d}
  <2>1. Noticed(scan, new) =
          {ChangeFor(SaidOf(scan[i].kind), scan[i].path, NoPath, new) : i \in DOMAIN scan}
    <3>1. scan \in Seq(PollEvents(n))
      BY <1>2 DEF ReportsAll
    <3>2. PICK disk : disk = new
      OBVIOUS
    <3>3. Noticed(scan, disk) =
            {ChangeFor(SaidOf(scan[i].kind), scan[i].path, NoPath, disk) : i \in DOMAIN scan}
      BY ONLY <3>1, n \in Nat, NoticedAre
    <3> QED BY ONLY <3>2, <3>3
  <2>2. \A i \in DOMAIN scan : ChangeFor(SaidOf(scan[i].kind), scan[i].path, NoPath, new) \in {c, d}
    BY <1>4, <1>6
  <2>3. PICK i \in DOMAIN scan : scan[i].path = to
    BY <1>2, <1>3 DEF ReportsAll
  <2>4. PICK j \in DOMAIN scan : scan[j].path = from
    BY <1>2, <1>3 DEF ReportsAll
  <2>5. SaidOf(scan[i].kind) = "created" /\ SaidOf(scan[j].kind) = "deleted"
    BY <1>3, <1>6, <2>3, <2>4
  <2>6. c = ChangeFor(SaidOf(scan[i].kind), scan[i].path, NoPath, new)
        /\ d = ChangeFor(SaidOf(scan[j].kind), scan[j].path, NoPath, new)
    BY <1>4, <2>3, <2>4, <2>5
  <2> QED BY <2>1, <2>2, <2>6
<1>8. InferRename({c, d}) = {m}
  <2>1. /\ OfKind({c, d}, "created") = {c} /\ OfKind({c, d}, "deleted") = {d}
        /\ OfKind({c, d}, "moved") = {}
    BY <1>5 DEF OfKind
  <2>2. Cardinality({c}) = 1 /\ Cardinality({d}) = 1
    BY FS_Singleton
  <2>3. (CHOOSE x \in {c} : TRUE) = c /\ (CHOOSE x \in {d} : TRUE) = d
    OBVIOUS
  <2>4. [c EXCEPT !.kind = "moved", !.previous = d.path] = m
    <3>1. PICK content : content = new[to]
      OBVIOUS
    <3>2. c = [kind |-> "created", path |-> to, previous |-> NoPath, content |-> content]
      BY <1>4, <3>1 DEF ChangeFor
    <3>3. PICK r : r = [c EXCEPT !.kind = "moved", !.previous = from]
      OBVIOUS
    <3>4. r = [kind |-> "moved", path |-> to, previous |-> from, content |-> content]
      BY ONLY <3>2, <3>3, AsMove
    <3>5. m = [kind |-> "moved", path |-> to, previous |-> from, content |-> content]
      BY <1>4, <3>1 DEF ChangeFor
    <3> QED BY <1>5, <3>3, <3>4, <3>5
  <2>5. c # d
    BY <1>5
  <2> QED BY <1>3, <1>5, <2>1, <2>2, <2>3, <2>4, <2>5 DEF InferRename
<1>9. DropModified({m}) = {m}
  BY <1>5 DEF DropModified
<1>10. s = InOrder({m}, ChangeBefore)
  BY <1>1, <1>7, <1>8, <1>9 DEF Adapt
<1>11. Cardinality({m}) = 1 /\ {y \in {m} : ChangeBefore(y, m)} = {} /\ Cardinality({}) = 0
  <2>1. m.path \in Nat /\ m.previous \in Nat
    BY <1>5
  <2>2. ~ChangeBefore(m, m)
    BY <1>5, <2>1 DEF ChangeBefore, KindRank
  <2> QED BY <2>2, FS_Singleton, FS_EmptySet
<1>12. s = [k \in 1..1 |-> m]
  <2>1. s = [k \in 1..1 |-> CHOOSE x \in {m} : Cardinality({y \in {m} : ChangeBefore(y, x)}) = k - 1]
    BY <1>10, <1>11 DEF InOrder
  <2>2. \A k \in 1..1 : (CHOOSE x \in {m} : Cardinality({y \in {m} : ChangeBefore(y, x)}) = k - 1) = m
    BY <1>11
  <2> QED BY <2>1, <2>2
<1> QED BY ONLY <1>4, <1>12 DEF OneMove

-----------------------------------------------------------------------------
(* The timeline *)

Kinds == {"created", "modified", "moved", "deleted"}

FileEntries(C) ==
  {e \in [at : Nat, source : {"files"}, event : [kind : {"changed"}, change : C]] :
     LET c == e.event.change IN c.path \in Nat /\ c.previous \in Nat /\ c.kind \in Kinds}
TapeEntries(E) == [at : Nat, source : {"tape"}, sequence : Nat, event : E]

\* Six numbers compared one after the other.
Keys == [1..6 -> Nat]
Lex(a, b) ==
  \/ a[1] < b[1]
  \/ a[1] = b[1] /\ a[2] < b[2]
  \/ a[1] = b[1] /\ a[2] = b[2] /\ a[3] < b[3]
  \/ a[1] = b[1] /\ a[2] = b[2] /\ a[3] = b[3] /\ a[4] < b[4]
  \/ a[1] = b[1] /\ a[2] = b[2] /\ a[3] = b[3] /\ a[4] = b[4] /\ a[5] < b[5]
  \/ a[1] = b[1] /\ a[2] = b[2] /\ a[3] = b[3] /\ a[4] = b[4] /\ a[5] = b[5] /\ a[6] < b[6]

LEMMA LexIsAnOrder ==
  ASSUME NEW a \in Keys, NEW b \in Keys, NEW c \in Keys
  PROVE  /\ ~Lex(a, a)
         /\ Lex(a, b) /\ Lex(b, c) => Lex(a, c)
         /\ a[6] # b[6] => Lex(a, b) \/ Lex(b, a)
<1>1. /\ a[1] \in Nat /\ a[2] \in Nat /\ a[3] \in Nat /\ a[4] \in Nat /\ a[5] \in Nat /\ a[6] \in Nat
      /\ b[1] \in Nat /\ b[2] \in Nat /\ b[3] \in Nat /\ b[4] \in Nat /\ b[5] \in Nat /\ b[6] \in Nat
      /\ c[1] \in Nat /\ c[2] \in Nat /\ c[3] \in Nat /\ c[4] \in Nat /\ c[5] \in Nat /\ c[6] \in Nat
  BY DEF Keys
<1>2. ~Lex(a, a)
  BY ONLY <1>1 DEF Lex
<1>3. Lex(a, b) /\ Lex(b, c) => Lex(a, c)
  BY ONLY <1>1 DEF Lex
<1>4. a[6] # b[6] => Lex(a, b) \/ Lex(b, a)
  BY ONLY <1>1 DEF Lex
<1> QED BY <1>2, <1>3, <1>4

\* What the i-th entry is compared by, if what is equal is left as it came.
Key(e, i) ==
  IF e.source = "files"
  THEN <<e.at, 0, e.event.change.path, KindRank(e.event.change.kind), e.event.change.previous, i>>
  ELSE <<e.at, 1, e.sequence, 0, 0, i>>

LEMMA KindRanks ==
  /\ \A kind \in Kinds : KindRank(kind) \in 1..4
  /\ \A k, l \in Kinds : KindRank(k) = KindRank(l) => k = l
<1>1. \A kind \in Kinds : KindRank(kind) \in 1..4
  BY DEF KindRank, Kinds
<1>2. ASSUME NEW k \in Kinds, NEW l \in Kinds, KindRank(k) = KindRank(l)
      PROVE  k = l
  BY <1>2 DEF KindRank, Kinds
<1> QED BY <1>1, <1>2

LEMMA TimelineOrder ==
  ASSUME NEW C, NEW E, NEW a \in FileEntries(C) \cup TapeEntries(E),
         NEW b \in FileEntries(C) \cup TapeEntries(E), NEW i \in Nat, NEW j \in Nat
  PROVE  /\ Key(a, i) \in Keys /\ Key(a, i)[6] = i
         /\ Lex(Key(a, i), Key(b, j)) <=> TimelineBefore(a, b) \/ (~TimelineBefore(b, a) /\ i < j)
<1>1. ASSUME NEW e \in FileEntries(C)
      PROVE  /\ e.source = "files" /\ e.at \in Nat /\ e.event.change.path \in Nat
             /\ e.event.change.previous \in Nat /\ e.event.change.kind \in Kinds
             /\ KindRank(e.event.change.kind) \in Nat
  <2>1. /\ e.source = "files" /\ e.at \in Nat /\ e.event.change.path \in Nat
        /\ e.event.change.previous \in Nat /\ e.event.change.kind \in Kinds
    BY DEF FileEntries
  <2>2. KindRank(e.event.change.kind) \in 1..4
    BY <2>1, KindRanks
  <2> QED BY <2>1, <2>2
<1>2. ASSUME NEW e \in TapeEntries(E)
      PROVE  e.source = "tape" /\ e.at \in Nat /\ e.sequence \in Nat
  BY DEF TapeEntries
<1>3. ASSUME NEW e \in FileEntries(C) \cup TapeEntries(E), NEW n \in Nat
      PROVE  Key(e, n) \in Keys /\ Key(e, n)[6] = n
  <2>1. CASE e \in FileEntries(C)
    <3>1. Key(e, n) = <<e.at, 0, e.event.change.path, KindRank(e.event.change.kind),
                        e.event.change.previous, n>>
      BY <1>1, <2>1 DEF Key
    <3> QED BY <1>1, <2>1, <3>1 DEF Keys
  <2>2. CASE e \in TapeEntries(E)
    <3>1. Key(e, n) = <<e.at, 1, e.sequence, 0, 0, n>>
      BY <1>2, <2>2 DEF Key
    <3> QED BY <1>2, <2>2, <3>1 DEF Keys
  <2> QED BY <2>1, <2>2
<1>4. CASE a \in FileEntries(C) /\ b \in FileEntries(C)
  <2>1. /\ Key(a, i) = <<a.at, 0, a.event.change.path, KindRank(a.event.change.kind),
                         a.event.change.previous, i>>
        /\ Key(b, j) = <<b.at, 0, b.event.change.path, KindRank(b.event.change.kind),
                         b.event.change.previous, j>>
    BY <1>1, <1>4 DEF Key
  <2>2. KindRank(a.event.change.kind) = KindRank(b.event.change.kind)
           <=> a.event.change.kind = b.event.change.kind
    BY <1>1, <1>4, KindRanks
  <2>3. /\ a.source = "files" /\ a.at \in Nat /\ a.event.change.path \in Nat
        /\ a.event.change.previous \in Nat /\ KindRank(a.event.change.kind) \in Nat
        /\ b.source = "files" /\ b.at \in Nat /\ b.event.change.path \in Nat
        /\ b.event.change.previous \in Nat /\ KindRank(b.event.change.kind) \in Nat
    BY <1>1, <1>4
  <2>4. /\ TimelineBefore(a, b) <=> a.at < b.at \/ (a.at = b.at /\ ChangeBefore(a.event.change, b.event.change))
        /\ TimelineBefore(b, a) <=> b.at < a.at \/ (a.at = b.at /\ ChangeBefore(b.event.change, a.event.change))
    BY <2>3 DEF TimelineBefore
  <2> QED BY ONLY <1>3, <2>1, <2>2, <2>3, <2>4, i \in Nat, j \in Nat DEF Lex, ChangeBefore
<1>5. CASE a \in TapeEntries(E) /\ b \in TapeEntries(E)
  <2>1. /\ Key(a, i) = <<a.at, 1, a.sequence, 0, 0, i>> /\ Key(b, j) = <<b.at, 1, b.sequence, 0, 0, j>>
    BY <1>2, <1>5 DEF Key
  <2>2. /\ a.source = "tape" /\ a.at \in Nat /\ a.sequence \in Nat
        /\ b.source = "tape" /\ b.at \in Nat /\ b.sequence \in Nat
    BY <1>2, <1>5
  <2> QED BY <1>3, <2>1, <2>2 DEF Lex, TimelineBefore
<1>6. CASE a \in FileEntries(C) /\ b \in TapeEntries(E)
  <2>1. /\ Key(a, i)[1] = a.at /\ Key(a, i)[2] = 0 /\ Key(b, j)[1] = b.at /\ Key(b, j)[2] = 1
        /\ a.source = "files" /\ b.source = "tape" /\ a.at \in Nat /\ b.at \in Nat
    BY <1>1, <1>2, <1>6 DEF Key
  <2> QED BY <1>3, <2>1 DEF Lex, TimelineBefore
<1>7. CASE a \in TapeEntries(E) /\ b \in FileEntries(C)
  <2>1. /\ Key(a, i)[1] = a.at /\ Key(a, i)[2] = 1 /\ Key(b, j)[1] = b.at /\ Key(b, j)[2] = 0
        /\ a.source = "tape" /\ b.source = "files" /\ a.at \in Nat /\ b.at \in Nat
    BY <1>1, <1>2, <1>7 DEF Key
  <2> QED BY <1>3, <2>1 DEF Lex, TimelineBefore
<1> QED BY <1>3, <1>4, <1>5, <1>6, <1>7

\* The entries of s, each once, in the order of the timeline.
Reordered(merged, s, T) ==
  /\ s \in Seq(T)
  /\ merged \in Seq(T) /\ Len(merged) = Len(s)
  /\ \E order \in [1..Len(s) -> 1..Len(s)] :
       /\ \A k \in 1..Len(s) : merged[k] = s[order[k]]
       /\ \A i \in 1..Len(s) : \E k \in 1..Len(s) : order[k] = i
       /\ \A j, k \in 1..Len(s) : j < k =>
            \/ TimelineBefore(s[order[j]], s[order[k]])
            \/ ~TimelineBefore(s[order[k]], s[order[j]]) /\ order[j] < order[k]

\* merge_capture_timeline neither loses nor repeats nor invents an entry: it only reorders them.
LEMMA MergeReorders ==
  ASSUME NEW C, NEW E, NEW files \in Seq(FileEntries(C)), NEW tape \in Seq(TapeEntries(E)),
         NEW s, s = files \o tape, NEW merged, merged = Merge(files, tape)
  PROVE  Reordered(merged, s, FileEntries(C) \cup TapeEntries(E))
<1> DEFINE T == FileEntries(C) \cup TapeEntries(E)
           Earlier(i, j) == TimelineBefore(s[i], s[j]) \/ (i < j /\ ~TimelineBefore(s[j], s[i]))
           S == DOMAIN s
           at(k) == CHOOSE x \in S : Cardinality({y \in S : Earlier(y, x)}) = k - 1
           order == [k \in 1..Cardinality(S) |-> at(k)]
<1>1. files \in Seq(T) /\ tape \in Seq(T) /\ s \in Seq(T)
  BY DEF T
<1>2. merged = [k \in DOMAIN order |-> s[order[k]]]
  BY DEF Merge, InStableOrder, InOrder
<1>3. S = 1..Len(s) /\ Len(s) \in Nat /\ IsFiniteSet(S) /\ Cardinality(S) = Len(s)
  <2>1. S = 1..Len(s) /\ Len(s) \in Nat
    BY ONLY <1>1 DEF S
  <2>2. 1 \in Int /\ Len(s) \in Int
    BY <2>1
  <2>3. IsFiniteSet(1..Len(s)) /\ Cardinality(1..Len(s)) = IF 1 > Len(s) THEN 0 ELSE Len(s) - 1 + 1
    BY ONLY <2>2, FS_Interval
  <2> QED BY ONLY <2>1, <2>3
<1>4. \A i \in S : s[i] \in T
  BY <1>1
<1>5. \A k : (\E x \in S : Cardinality({y \in S : Earlier(y, x)}) = k - 1)
         => at(k) \in S /\ Cardinality({y \in S : Earlier(y, at(k))}) = k - 1
  <2> TAKE k
  <2> HIDE DEF S, Earlier
  <2> QED OBVIOUS
<1> HIDE DEF at, S, T
<1>6. PICK R : R = {p \in S \X S : Earlier(p[1], p[2])}
  OBVIOUS
<1>7. \A i, j \in S : <<i, j>> \in R <=> Earlier(i, j)
  BY <1>6
<1>8. \A i, j \in S : /\ Key(s[i], i) \in Keys /\ Key(s[i], i)[6] = i
                      /\ Lex(Key(s[i], i), Key(s[j], j)) <=> Earlier(i, j)
  <2> TAKE i, j \in S
  <2>1. i \in Nat /\ j \in Nat /\ s[i] \in T /\ s[j] \in T
    BY ONLY <1>3, <1>4, i \in S, j \in S
  <2> QED BY <2>1, TimelineOrder DEF T
<1> HIDE DEF Earlier
<1>9. \A i \in S : <<i, i>> \notin R
  BY <1>7, <1>8, LexIsAnOrder
<1>10. ASSUME NEW x \in S, NEW y \in S, NEW z \in S, <<x, y>> \in R, <<y, z>> \in R
       PROVE  <<x, z>> \in R
  <2>1. Lex(Key(s[x], x), Key(s[y], y)) /\ Lex(Key(s[y], y), Key(s[z], z))
    BY <1>7, <1>8, <1>10
  <2>2. Key(s[x], x) \in Keys /\ Key(s[y], y) \in Keys /\ Key(s[z], z) \in Keys
    BY <1>8
  <2>3. Lex(Key(s[x], x), Key(s[z], z))
    BY <2>1, <2>2, LexIsAnOrder
  <2> QED BY <1>7, <1>8, <2>3
<1>11. ASSUME NEW x \in S, NEW y \in S, x # y
       PROVE  <<x, y>> \in R \/ <<y, x>> \in R
  <2>1. Key(s[x], x) \in Keys /\ Key(s[y], y) \in Keys /\ Key(s[x], x)[6] # Key(s[y], y)[6]
    BY <1>8, <1>11
  <2>2. Lex(Key(s[x], x), Key(s[y], y)) \/ Lex(Key(s[y], y), Key(s[x], x))
    BY <2>1, LexIsAnOrder
  <2> QED BY <1>7, <1>8, <2>2
<1>12. StrictOrder(R, S)
  BY <1>9, <1>10, <1>11 DEF StrictOrder
<1>13. \A x \in S : Cardinality({y \in S : Earlier(y, x)}) = Rank(R, S, x)
  <2> TAKE x \in S
  <2>1. {y \in S : Earlier(y, x)} = {y \in S : <<y, x>> \in R}
    BY <1>7
  <2> QED BY <2>1 DEF Rank
<1>14. \A k \in 1..Cardinality(S) : \E x \in S : Rank(R, S, x) = k - 1
  BY ONLY <1>3, <1>12, Ranks
<1>15. \A k \in 1..Cardinality(S) : at(k) \in S /\ Rank(R, S, at(k)) = k - 1
  BY ONLY <1>5, <1>13, <1>14
<1>16. Lists(order, S, R)
  BY ONLY <1>15 DEF Lists, order
<1> HIDE DEF order
<1>17. /\ order \in Seq(S) /\ Len(order) = Cardinality(S) /\ DOMAIN order = 1..Cardinality(S)
       /\ \A x \in S : \E k \in DOMAIN order : order[k] = x
       /\ \A j, k \in DOMAIN order : j < k => <<order[j], order[k]>> \in R
  <2>1. PICK f : f = order
    OBVIOUS
  <2>2. PICK U : U = S
    OBVIOUS
  <2>3. IsFiniteSet(U) /\ StrictOrder(R, U) /\ Lists(f, U, R)
    BY ONLY <1>3, <1>12, <1>16, <2>1, <2>2
  <2>4. /\ f \in Seq(U) /\ Len(f) = Cardinality(U) /\ DOMAIN f = 1..Cardinality(U)
        /\ \A x \in U : \E k \in DOMAIN f : f[k] = x
        /\ \A j, k \in DOMAIN f : j < k => <<f[j], f[k]>> \in R
    BY ONLY <2>3, Listed
  <2> QED BY ONLY <2>1, <2>2, <2>4
<1>18. order \in [1..Len(s) -> 1..Len(s)]
  BY ONLY <1>3, <1>17
<1>19. merged \in Seq(T) /\ Len(merged) = Len(s) /\ \A k \in 1..Len(s) : merged[k] = s[order[k]]
  <2>1. merged = [k \in 1..Len(s) |-> s[order[k]]]
    BY ONLY <1>2, <1>18
  <2>2. \A k \in 1..Len(s) : s[order[k]] \in T
    BY ONLY <1>3, <1>4, <1>18
  <2> QED BY ONLY <1>3, <2>1, <2>2
<1>20. \A j, k \in 1..Len(s) : j < k => Earlier(order[j], order[k])
  <2> TAKE j, k \in 1..Len(s)
  <2> HAVE j < k
  <2>1. order[j] \in S /\ order[k] \in S /\ <<order[j], order[k]>> \in R
    BY <1>3, <1>17, <1>18
  <2> QED BY <1>7, <2>1
<1>21. \A i \in 1..Len(s) : \E k \in 1..Len(s) : order[k] = i
  BY ONLY <1>3, <1>17
<1>22. s \in Seq(T) /\ merged \in Seq(T) /\ Len(merged) = Len(s)
  BY <1>1, <1>19
<1>23. \A j, k \in 1..Len(s) : j < k =>
            \/ TimelineBefore(s[order[j]], s[order[k]])
            \/ ~TimelineBefore(s[order[k]], s[order[j]]) /\ order[j] < order[k]
  BY ONLY <1>20 DEF Earlier
<1> QED BY ONLY <1>18, <1>19, <1>21, <1>22, <1>23 DEF T, Reordered

\* The entries of a sequence in the order of the timeline, by the places they have in it.
Sorting(order, s) ==
  /\ order \in [1..Len(s) -> 1..Len(s)]
  /\ \A i \in 1..Len(s) : \E k \in 1..Len(s) : order[k] = i
  /\ \A j, k \in 1..Len(s) : j < k => Lex(Key(s[order[j]], order[j]), Key(s[order[k]], order[k]))

Sorted(m, s, T) ==
  /\ m \in Seq(T) /\ Len(m) = Len(s)
  /\ \E order : Sorting(order, s) /\ \A k \in 1..Len(s) : m[k] = s[order[k]]

LEMMA SortingReorders ==
  ASSUME NEW C, NEW E, NEW T, T = FileEntries(C) \cup TapeEntries(E), NEW s \in Seq(T), NEW m
  PROVE  Reordered(m, s, T) <=> Sorted(m, s, T)
<1> DEFINE n == Len(s)
<1>1. ASSUME NEW order \in [1..n -> 1..n], NEW j \in 1..n, NEW k \in 1..n
      PROVE  Lex(Key(s[order[j]], order[j]), Key(s[order[k]], order[k])) <=>
               \/ TimelineBefore(s[order[j]], s[order[k]])
               \/ ~TimelineBefore(s[order[k]], s[order[j]]) /\ order[j] < order[k]
  <2>1. PICK x, y, a, b : x = order[j] /\ y = order[k] /\ a = s[order[j]] /\ b = s[order[k]]
    OBVIOUS
  <2>2. x \in Nat /\ y \in Nat /\ a \in T /\ b \in T
    <3>1. x \in 1..n /\ y \in 1..n /\ a = s[x] /\ b = s[y]
      BY ONLY <2>1, order \in [1..n -> 1..n], j \in 1..n, k \in 1..n
    <3>2. s \in Seq(T)
      OBVIOUS
    <3> QED BY ONLY <3>1, <3>2 DEF n
  <2>3. Lex(Key(a, x), Key(b, y)) <=> TimelineBefore(a, b) \/ (~TimelineBefore(b, a) /\ x < y)
    BY ONLY <2>2, T = FileEntries(C) \cup TapeEntries(E), TimelineOrder
  <2> QED BY ONLY <2>1, <2>3
<1> HIDE DEF n
<1>2. ASSUME NEW order \in [1..n -> 1..n]
      PROVE  (\A j, k \in 1..n : j < k => Lex(Key(s[order[j]], order[j]), Key(s[order[k]], order[k])))
             <=> (\A j, k \in 1..n : j < k =>
                    \/ TimelineBefore(s[order[j]], s[order[k]])
                    \/ ~TimelineBefore(s[order[k]], s[order[j]]) /\ order[j] < order[k])
  BY <1>1
<1>3. ASSUME Reordered(m, s, T)
      PROVE  /\ m \in Seq(T) /\ Len(m) = n
             /\ \E order : Sorting(order, s) /\ \A k \in 1..n : m[k] = s[order[k]]
  <2>1. m \in Seq(T) /\ Len(m) = n
    BY <1>3 DEF Reordered, n
  <2>2. PICK order \in [1..n -> 1..n] :
          /\ \A k \in 1..n : m[k] = s[order[k]]
          /\ \A i \in 1..n : \E k \in 1..n : order[k] = i
          /\ \A j, k \in 1..n : j < k =>
               \/ TimelineBefore(s[order[j]], s[order[k]])
               \/ ~TimelineBefore(s[order[k]], s[order[j]]) /\ order[j] < order[k]
    BY <1>3 DEF Reordered, n
  <2>3. Sorting(order, s)
    BY <1>2, <2>2 DEF Sorting, n
  <2> QED BY <2>1, <2>2, <2>3
<1>4. ASSUME m \in Seq(T), Len(m) = n, NEW order, Sorting(order, s), \A k \in 1..n : m[k] = s[order[k]]
      PROVE  Reordered(m, s, T)
  <2>1. /\ order \in [1..n -> 1..n]
        /\ \A i \in 1..n : \E k \in 1..n : order[k] = i
        /\ \A j, k \in 1..n : j < k => Lex(Key(s[order[j]], order[j]), Key(s[order[k]], order[k]))
    BY <1>4 DEF Sorting, n
  <2> QED BY <1>2, <1>4, <2>1 DEF Reordered, n
<1> QED BY <1>3, <1>4 DEF n, Sorted

\* There is one way to put entries in order.
LEMMA SortingIsUnique ==
  ASSUME NEW s, Len(s) \in Nat, \A i \in 1..Len(s) : Key(s[i], i) \in Keys,
         NEW f, NEW g, Sorting(f, s), Sorting(g, s)
  PROVE  f = g
<1> DEFINE n == Len(s)
           B(i, j) == Lex(Key(s[i], i), Key(s[j], j))
           D == {k \in 1..n : f[k] # g[k]}
<1>1. /\ f \in [1..n -> 1..n] /\ g \in [1..n -> 1..n]
      /\ \A i \in 1..n : \E k \in 1..n : f[k] = i
      /\ \A i \in 1..n : \E k \in 1..n : g[k] = i
      /\ \A j, k \in 1..n : j < k => B(f[j], f[k])
      /\ \A j, k \in 1..n : j < k => B(g[j], g[k])
  BY DEF Sorting
<1>0. n \in Nat
  OBVIOUS
<1>2. \A i, j \in 1..n : ~B(i, i) /\ ~(B(i, j) /\ B(j, i))
  <2> TAKE i, j \in 1..n
  <2>1. PICK a, b : a = Key(s[i], i) /\ b = Key(s[j], j)
    OBVIOUS
  <2>2. a \in Keys /\ b \in Keys
    BY <2>1
  <2>3. ~Lex(a, a) /\ ~(Lex(a, b) /\ Lex(b, a))
    BY ONLY <2>2, LexIsAnOrder
  <2> QED BY <2>1, <2>3
<1> HIDE DEF B
<1> SUFFICES ASSUME D # {} PROVE FALSE
  <2>1. ASSUME D = {} PROVE f = g
    <3>1. \A k \in 1..n : f[k] = g[k]
      BY <2>1
    <3>2. f \in [1..n -> 1..n] /\ g \in [1..n -> 1..n]
      BY ONLY <1>1
    <3>3. PICK S : S = 1..n
      OBVIOUS
    <3>4. f \in [S -> S] /\ g \in [S -> S] /\ \A k \in S : f[k] = g[k]
      BY ONLY <3>1, <3>2, <3>3
    <3> QED BY ONLY <3>4
  <2> QED BY <2>1
<1>3. PICK k \in D : \A j \in D : k <= j
  <2>1. D \in SUBSET Nat
    OBVIOUS
  <2> HIDE DEF D
  <2> QED BY <2>1, LeastElement
<1>4. n \in Nat /\ k \in 1..n /\ f[k] # g[k] /\ \A j \in 1..n : j < k => f[j] = g[j]
  BY <1>3
<1>5. ASSUME NEW a \in [1..n -> 1..n], NEW b \in [1..n -> 1..n], a[k] # b[k],
             \A j \in 1..n : j < k => a[j] = b[j],
             \A i \in 1..n : \E j \in 1..n : b[j] = i,
             \A i, j \in 1..n : i < j => B(a[i], a[j]),
             \A i, j \in 1..n : i < j => B(b[i], b[j])
      PROVE  B(b[k], a[k])
  <2>1. a[k] \in 1..n
    BY <1>4
  <2>2. PICK j \in 1..n : b[j] = a[k]
    BY <1>5, <2>1
  <2>3. ~(j < k)
    <3> SUFFICES ASSUME j < k PROVE FALSE
      OBVIOUS
    <3>1. a[j] = a[k] /\ B(a[j], a[k])
      BY <1>4, <1>5, <2>2
    <3> QED BY <1>2, <2>1, <3>1
  <2>4. j # k
    BY <1>5, <2>2
  <2>5. k < j
    BY <1>4, <2>3, <2>4
  <2> QED BY <1>4, <1>5, <2>2, <2>5
<1>6. B(g[k], f[k]) /\ B(f[k], g[k])
  <2>1. B(g[k], f[k])
    BY ONLY <1>1, <1>4, <1>5
  <2>2. B(f[k], g[k])
    BY ONLY <1>1, <1>4, <1>5
  <2> QED BY <2>1, <2>2
<1>7. f[k] \in 1..n /\ g[k] \in 1..n
  BY ONLY <1>1, <1>4
<1> QED BY ONLY <1>2, <1>6, <1>7

LEMMA ReorderedIsUnique ==
  ASSUME NEW C, NEW E, NEW T, T = FileEntries(C) \cup TapeEntries(E), NEW s,
         NEW a, Reordered(a, s, T), NEW b, Reordered(b, s, T)
  PROVE  a = b
<1>1. s \in Seq(T) /\ Len(s) \in Nat
  BY DEF Reordered
<1>2. a \in Seq(T) /\ Len(a) = Len(s) /\ b \in Seq(T) /\ Len(b) = Len(s)
  BY DEF Reordered
<1>3. Sorted(a, s, T) /\ Sorted(b, s, T)
  BY <1>1, SortingReorders
<1>4. PICK f : Sorting(f, s) /\ \A k \in 1..Len(s) : a[k] = s[f[k]]
  BY <1>3 DEF Sorted
<1>5. PICK g : Sorting(g, s) /\ \A k \in 1..Len(s) : b[k] = s[g[k]]
  BY <1>3 DEF Sorted
<1>6. \A i \in 1..Len(s) : Key(s[i], i) \in Keys
  <2> TAKE i \in 1..Len(s)
  <2>1. PICK e : e = s[i]
    OBVIOUS
  <2>2. e \in T /\ i \in Nat
    BY <1>1, <2>1
  <2>3. Key(e, i) \in Keys
    BY ONLY <2>2, T = FileEntries(C) \cup TapeEntries(E), TimelineOrder
  <2> QED BY <2>1, <2>3
<1>7. f = g
  BY ONLY <1>1, <1>4, <1>5, <1>6, SortingIsUnique
<1>8. \A k \in 1..Len(s) : a[k] = b[k]
  BY ONLY <1>4, <1>5, <1>7
<1> QED BY ONLY <1>1, <1>2, <1>8

Joins(c, a, b, T) ==
  /\ c \in Seq(T) /\ Len(c) = Len(a) + Len(b)
  /\ \A k \in 1..Len(a) : c[k] = a[k]
  /\ \A k \in 1..Len(b) : c[Len(a) + k] = b[k]

LEMMA JoinIs ==
  ASSUME NEW T, NEW a \in Seq(T), NEW b \in Seq(T), NEW c, c = a \o b
  PROVE  Joins(c, a, b, T)
<1>1. PICK M, N : M = Len(a) /\ N = Len(b)
  OBVIOUS
<1>2. M \in Nat /\ N \in Nat
  BY <1>1
<1>3. c \in Seq(T) /\ Len(c) = M + N
  BY <1>1
<1>4. \A k \in 1..M : c[k] = a[k]
  BY <1>1
<1>5. ASSUME NEW k \in 1..N PROVE c[M + k] = b[k]
  <2>1. PICK i : i = M + k
    OBVIOUS
  <2>2. i \in 1..(M + N) /\ i > M /\ i - M = k
    BY ONLY <1>2, <2>1, k \in 1..N
  <2>3. c[i] = b[i - M]
    BY <1>1, <1>2, <2>2
  <2> QED BY ONLY <2>1, <2>2, <2>3
<1> QED BY ONLY <1>1, <1>3, <1>4, <1>5 DEF Joins

\* What the places of u \o v are in u \o new \o v.
Inserted(s, t, u, new, v, T) ==
  LET L == Len(u)
      M == Len(v)
      N == Len(new)
  IN
  /\ L \in Nat /\ M \in Nat /\ N \in Nat
  /\ s \in Seq(T) /\ Len(s) = L + M /\ DOMAIN s = 1..(L + M)
  /\ t \in Seq(T) /\ Len(t) = L + N + M
  /\ \A i \in 1..L : t[i] = s[i]
  /\ \A i \in 1..N : t[L + i] = new[i]
  /\ \A i \in 1..(L + M) : i > L => t[i + N] = s[i]

LEMMA Inserting ==
  ASSUME NEW T, NEW u \in Seq(T), NEW new \in Seq(T), NEW v \in Seq(T),
         NEW s, s = u \o v, NEW t, t = u \o (new \o v)
  PROVE  Inserted(s, t, u, new, v, T)
<1>1. PICK L, M, N : L = Len(u) /\ M = Len(v) /\ N = Len(new)
  OBVIOUS
<1>2. L \in Nat /\ M \in Nat /\ N \in Nat
  BY <1>1
<1>3. /\ s \in Seq(T) /\ Len(s) = L + M /\ DOMAIN s = 1..(L + M)
      /\ \A i \in 1..L : s[i] = u[i]
      /\ \A i \in 1..(L + M) : i > L => s[i] = v[i - L]
  BY <1>1
<1>4. PICK w : w = new \o v
  OBVIOUS
<1>5. /\ w \in Seq(T) /\ Len(w) = N + M
      /\ \A i \in 1..N : w[i] = new[i]
      /\ \A i \in 1..(N + M) : i > N => w[i] = v[i - N]
  BY <1>1, <1>4
<1>6. /\ t \in Seq(T) /\ Len(t) = L + (N + M)
      /\ \A i \in 1..L : t[i] = u[i]
      /\ \A i \in 1..(L + (N + M)) : i > L => t[i] = w[i - L]
  BY <1>1, <1>4, <1>5
<1>7. \A i \in 1..N : t[L + i] = new[i]
  <2> TAKE i \in 1..N
  <2>1. L + i \in 1..(L + (N + M)) /\ L + i > L /\ (L + i) - L = i
    BY ONLY <1>2, i \in 1..N
  <2> QED BY ONLY <1>5, <1>6, <2>1, i \in 1..N
<1>8. \A i \in 1..(L + M) : i > L => t[i + N] = s[i]
  <2> TAKE i \in 1..(L + M)
  <2> HAVE i > L
  <2>1. /\ i + N \in 1..(L + (N + M)) /\ i + N > L /\ (i + N) - L = (i - L) + N
        /\ (i - L) + N \in 1..(N + M) /\ (i - L) + N > N /\ ((i - L) + N) - N = i - L
    BY ONLY <1>2, i \in 1..(L + M), i > L
  <2>2. t[i + N] = w[(i - L) + N] /\ w[(i - L) + N] = v[i - L]
    BY ONLY <1>5, <1>6, <2>1
  <2> QED BY ONLY <1>3, <2>2, i \in 1..(L + M), i > L
<1>9. L + (N + M) = L + N + M
  BY ONLY <1>2
<1> QED BY ONLY <1>1, <1>2, <1>3, <1>6, <1>7, <1>8, <1>9 DEF Inserted

\* Entries that come after all others are the last ones, wherever they are put.
\* Entries that are put into a timeline s, which becomes t, and are later than all of it.
Later(s, u, new, v, t, T) ==
  /\ u \in Seq(T) /\ new \in Seq(T) /\ v \in Seq(T)
  /\ s = u \o v /\ t = u \o (new \o v)
  /\ InTime(new)
  /\ \A i \in DOMAIN s, j \in DOMAIN new : TimelineBefore(s[i], new[j])
Timeline(T) == \E C, E : T = FileEntries(C) \cup TapeEntries(E)

LEMMA LaterComesLast ==
  ASSUME NEW T, Timeline(T), NEW s, NEW u, NEW new, NEW v, NEW t, Later(s, u, new, v, t, T),
         NEW a, Reordered(a, s, T), NEW b, Reordered(b, t, T)
  PROVE  b = a \o new
<1> SUFFICES ASSUME NEW C, NEW E, T = FileEntries(C) \cup TapeEntries(E),
                    u \in Seq(T), new \in Seq(T), v \in Seq(T), InTime(new),
                    s = u \o v, t = u \o (new \o v),
                    \A i \in DOMAIN s, j \in DOMAIN new : TimelineBefore(s[i], new[j])
             PROVE  b = a \o new
  BY DEF Timeline, Later
<1>1. PICK L, M, N : L = Len(u) /\ M = Len(v) /\ N = Len(new)
  OBVIOUS
<1>2. PICK m, l : m = L + M /\ l = L + N + M
  OBVIOUS
<1>3. /\ L \in Nat /\ M \in Nat /\ N \in Nat /\ m \in Nat /\ l \in Nat /\ l = m + N
      /\ DOMAIN new = 1..N
  <2>1. L \in Nat /\ M \in Nat /\ N \in Nat /\ DOMAIN new = 1..N
    BY <1>1
  <2> QED BY ONLY <1>2, <2>1
<1>4. /\ s \in Seq(T) /\ Len(s) = m /\ DOMAIN s = 1..m /\ t \in Seq(T) /\ Len(t) = l
      /\ \A i \in 1..L : t[i] = s[i]
      /\ \A i \in 1..N : t[L + i] = new[i]
      /\ \A i \in 1..m : i > L => t[i + N] = s[i]
  <2>1. Inserted(s, t, u, new, v, T)
    BY Inserting
  <2> QED BY ONLY <1>1, <1>2, <2>1 DEF Inserted
<1>5. \A x, y \in T : \A i, j \in Nat :
        Lex(Key(x, i), Key(y, j)) <=> TimelineBefore(x, y) \/ (~TimelineBefore(y, x) /\ i < j)
  <2> TAKE x, y \in T
  <2> TAKE i, j \in Nat
  <2> QED BY ONLY T = FileEntries(C) \cup TapeEntries(E), x \in T, y \in T, i \in Nat, j \in Nat,
                  TimelineOrder
<1>6. a \in Seq(T) /\ Len(a) = m
  BY <1>4 DEF Reordered
<1>7. PICK f : /\ f \in [1..m -> 1..m]
               /\ \A i \in 1..m : \E k \in 1..m : f[k] = i
               /\ \A j, k \in 1..m : j < k => Lex(Key(s[f[j]], f[j]), Key(s[f[k]], f[k]))
               /\ \A k \in 1..m : a[k] = s[f[k]]
  <2>1. Sorted(a, s, T)
    BY <1>4, SortingReorders
  <2>2. \E f : Sorting(f, s) /\ \A k \in 1..Len(s) : a[k] = s[f[k]]
    BY <2>1 DEF Sorted
  <2> QED BY ONLY <1>4, <2>2 DEF Sorting
<1>8. PICK shift : shift = [i \in 1..m |-> IF i <= L THEN i ELSE i + N]
  OBVIOUS
<1>9. \A i \in 1..m : /\ shift[i] = IF i <= L THEN i ELSE i + N
                      /\ shift[i] \in 1..l /\ t[shift[i]] = s[i]
  <2> TAKE i \in 1..m
  <2>1. shift[i] = IF i <= L THEN i ELSE i + N
    BY ONLY <1>8, i \in 1..m
  <2>2. CASE i <= L
    <3>1. i \in 1..L /\ i \in 1..l
      BY ONLY <1>3, <2>2, i \in 1..m
    <3> QED BY ONLY <1>4, <2>1, <2>2, <3>1
  <2>3. CASE ~(i <= L)
    <3>1. i > L /\ i + N \in 1..l
      BY ONLY <1>3, <2>3, i \in 1..m
    <3> QED BY ONLY <1>4, <2>1, <2>3, <3>1, i \in 1..m
  <2> QED BY ONLY <2>1, <2>2, <2>3
<1>10. PICK g : g = [k \in 1..l |-> IF k <= m THEN shift[f[k]] ELSE L + (k - m)]
  OBVIOUS
<1>11. \A k \in 1..m : g[k] = shift[f[k]] /\ f[k] \in 1..m /\ k \in 1..l
  <2> TAKE k \in 1..m
  <2>1. k \in 1..l /\ k <= m
    BY ONLY <1>3, k \in 1..m
  <2> QED BY ONLY <1>7, <1>10, <2>1, k \in 1..m
<1>12. \A j \in 1..N : g[m + j] = L + j /\ m + j \in 1..l /\ L + j \in 1..l
  <2> TAKE j \in 1..N
  <2>1. m + j \in 1..l /\ ~(m + j <= m) /\ (m + j) - m = j /\ L + j \in 1..l
    BY ONLY <1>2, <1>3, j \in 1..N
  <2> QED BY ONLY <1>10, <2>1
<1>13. \A k \in 1..l : k \in 1..m \/ \E j \in 1..N : k = m + j
  <2> TAKE k \in 1..l
  <2>1. k \in 1..m \/ (k - m \in 1..N /\ k = m + (k - m))
    BY ONLY <1>3, k \in 1..l
  <2> QED BY ONLY <2>1
<1>14. g \in [1..l -> 1..l]
  <2>1. \A k \in 1..l : g[k] \in 1..l
    BY ONLY <1>9, <1>11, <1>12, <1>13
  <2> QED BY ONLY <1>10, <2>1
<1>15. \A i \in 1..l : \E k \in 1..l : g[k] = i
  <2> TAKE i \in 1..l
  <2>1. CASE i <= L
    <3>1. i \in 1..m
      BY ONLY <1>2, <1>3, <2>1, i \in 1..l
    <3>2. shift[i] = i
      BY ONLY <1>9, <2>1, <3>1
    <3>3. PICK k \in 1..m : f[k] = i
      BY ONLY <1>7, <3>1
    <3> QED BY ONLY <1>11, <3>2, <3>3
  <2>2. CASE i > L + N
    <3>1. PICK q : q = i - N
      OBVIOUS
    <3>2. q \in 1..m /\ ~(q <= L) /\ q + N = i
      BY ONLY <1>2, <1>3, <2>2, <3>1, i \in 1..l
    <3>3. shift[q] = i
      BY ONLY <1>9, <3>2
    <3>4. PICK k \in 1..m : f[k] = q
      BY ONLY <1>7, <3>2
    <3> QED BY ONLY <1>11, <3>3, <3>4
  <2>3. CASE i > L /\ i <= L + N
    <3>1. i - L \in 1..N /\ L + (i - L) = i
      BY ONLY <1>3, <2>3, i \in 1..l
    <3> QED BY ONLY <1>12, <3>1
  <2>4. i <= L \/ i > L + N \/ (i > L /\ i <= L + N)
    BY ONLY <1>3, i \in 1..l
  <2> QED BY ONLY <2>1, <2>2, <2>3, <2>4
<1>16. \A k \in 1..l : t[g[k]] \in T /\ g[k] \in Nat
  <2> TAKE k \in 1..l
  <2>1. PICK q : q = g[k]
    OBVIOUS
  <2>2. q \in 1..l
    BY ONLY <1>14, <2>1, k \in 1..l
  <2>3. q \in Nat /\ t[q] \in T
    BY ONLY <1>3, <1>4, <2>2
  <2> QED BY ONLY <2>1, <2>3
<1>17. ASSUME NEW j \in 1..l, NEW k \in 1..l, j < k
       PROVE  Lex(Key(t[g[j]], g[j]), Key(t[g[k]], g[k]))
  <2>1. Lex(Key(t[g[j]], g[j]), Key(t[g[k]], g[k])) <=>
          \/ TimelineBefore(t[g[j]], t[g[k]])
          \/ ~TimelineBefore(t[g[k]], t[g[j]]) /\ g[j] < g[k]
    BY ONLY <1>5, <1>16, j \in 1..l, k \in 1..l
  <2>2. CASE j \in 1..m /\ k \in 1..m
    <3>1. PICK x, y, p, q : x = s[f[j]] /\ y = s[f[k]] /\ p = f[j] /\ q = f[k]
      OBVIOUS
    <3>2. p \in 1..m /\ q \in 1..m /\ Lex(Key(x, p), Key(y, q))
      BY ONLY <1>7, <1>17, <2>2, <3>1
    <3>3. x \in T /\ y \in T /\ p \in Nat /\ q \in Nat
      BY ONLY <1>3, <1>4, <3>1, <3>2
    <3>4. TimelineBefore(x, y) \/ (~TimelineBefore(y, x) /\ p < q)
      BY ONLY <1>5, <3>2, <3>3
    <3>5. t[g[j]] = x /\ t[g[k]] = y /\ g[j] = shift[p] /\ g[k] = shift[q]
      BY ONLY <1>9, <1>11, <2>2, <3>1, <3>2
    <3>6. /\ shift[p] = IF p <= L THEN p ELSE p + N
          /\ shift[q] = IF q <= L THEN q ELSE q + N
      BY ONLY <1>9, <3>2
    <3>7. p < q => shift[p] < shift[q]
      BY ONLY <1>3, <3>3, <3>6
    <3> QED BY ONLY <2>1, <3>4, <3>5, <3>7
  <2>3. ASSUME j \in 1..m, NEW n \in 1..N, k = m + n
        PROVE  TimelineBefore(t[g[j]], t[g[k]])
    <3>1. t[g[j]] = s[f[j]] /\ f[j] \in DOMAIN s
      BY ONLY <1>4, <1>9, <1>11, <2>3
    <3>2. t[g[k]] = new[n] /\ n \in DOMAIN new
      BY ONLY <1>3, <1>4, <1>12, <2>3
    <3> QED BY <3>1, <3>2
  <2>4. ASSUME NEW p \in 1..N, NEW n \in 1..N, j = m + p, k = m + n
        PROVE  TimelineBefore(t[g[j]], t[g[k]])
    <3>1. t[g[j]] = new[p] /\ t[g[k]] = new[n]
      BY ONLY <1>4, <1>12, <2>4
    <3>2. p < n
      BY ONLY <1>3, <1>17, <2>4
    <3> QED BY <1>3, <3>1, <3>2 DEF InTime
  <2>5. ASSUME NEW p \in 1..N, j = m + p, k \in 1..m PROVE FALSE
    BY ONLY <1>3, <1>17, <2>5
  <2> QED BY ONLY <1>13, <1>17, <2>1, <2>2, <2>3, <2>4, <2>5
<1>18. Sorting(g, t)
  BY ONLY <1>4, <1>14, <1>15, <1>17 DEF Sorting
<1>19. PICK c : c = a \o new
  OBVIOUS
<1>20. /\ c \in Seq(T) /\ Len(c) = l
       /\ \A k \in 1..m : c[k] = a[k]
       /\ \A n \in 1..N : c[m + n] = new[n]
  <2>1. Len(new) = N /\ Len(a) = m /\ a \in Seq(T) /\ new \in Seq(T)
    BY <1>1, <1>6
  <2>2. Joins(c, a, new, T)
    BY ONLY <1>19, <2>1, JoinIs
  <2> QED BY ONLY <1>3, <2>1, <2>2 DEF Joins
<1>21. \A k \in 1..l : c[k] = t[g[k]]
  <2> TAKE k \in 1..l
  <2>1. CASE k \in 1..m
    <3>1. PICK q : q = f[k]
      OBVIOUS
    <3>2. q \in 1..m /\ g[k] = shift[q] /\ a[k] = s[q] /\ c[k] = a[k]
      BY ONLY <1>7, <1>11, <1>20, <2>1, <3>1
    <3> QED BY ONLY <1>9, <3>2
  <2>2. ASSUME NEW n \in 1..N, k = m + n PROVE c[k] = t[g[k]]
    BY ONLY <1>4, <1>12, <1>20, <2>2
  <2> QED BY ONLY <1>13, <2>1, <2>2, k \in 1..l
<1>22. Reordered(c, t, T)
  <2>1. Sorted(c, t, T)
    BY ONLY <1>4, <1>18, <1>20, <1>21 DEF Sorted
  <2>2. t \in Seq(T)
    BY ONLY <1>4
  <2> QED BY ONLY <2>1, <2>2, T = FileEntries(C) \cup TapeEntries(E), SortingReorders
<1> QED BY ONLY <1>19, <1>22, T = FileEntries(C) \cup TapeEntries(E), Reordered(b, t, T), ReorderedIsUnique

-----------------------------------------------------------------------------
(* Reading the changes back *)

\* A change among the events is one of files of P.
FileEvent(event, P) ==
  event.kind = "changed" => /\ event.change.path \in P
                            /\ event.change.kind = "moved" => event.change.previous \in P

LEMMA ToldIs ==
  ASSUME NEW P, NEW files, files = [q \in P |-> files[q]], NEW e, e.kind = "changed", FileEvent(e, P),
         NEW after, after = Told(files, e.change)
  PROVE  /\ after = [q \in P |-> after[q]]
         /\ \A p \in P : after[p] = IF Mentions(e, p) THEN Tells(e.change, p) ELSE files[p]
<1>1. PICK c : c = e.change
  OBVIOUS
<1>2. c.path \in P /\ (c.kind = "moved" => c.previous \in P)
  BY <1>1 DEF FileEvent
<1>3. CASE c.kind = "deleted"
  <2>1. after = [files EXCEPT ![c.path] = Absent]
    BY <1>1, <1>3 DEF Told
  <2> QED BY <1>1, <1>2, <1>3, <2>1 DEF Mentions, Tells
<1>4. CASE c.kind = "moved"
  <2>1. after = [files EXCEPT ![c.previous] = Absent, ![c.path] = c.content]
    BY <1>1, <1>4 DEF Told
  <2> QED BY <1>1, <1>2, <1>4, <2>1 DEF Mentions, Tells
<1>5. CASE c.kind # "deleted" /\ c.kind # "moved"
  <2>1. after = [files EXCEPT ![c.path] = c.content]
    BY <1>1, <1>5 DEF Told
  <2> QED BY <1>1, <1>2, <1>5, <2>1 DEF Mentions, Tells
<1> QED BY <1>3, <1>4, <1>5

LEMMA ReplayedIs ==
  ASSUME NEW T, NEW events \in Seq(T), NEW disk, NEW result, result = Replayed(disk, events)
  PROVE  \E after : /\ result = after[Len(events)]
                    /\ after[0] = disk
                    /\ \A n \in 1..Len(events) :
                         after[n] = IF events[n].kind = "changed" THEN Told(after[n - 1], events[n].change)
                                    ELSE after[n - 1]
<1> DEFINE N == Len(events)
           Step(files, n) == IF events[n].kind = "changed" THEN Told(files, events[n].change) ELSE files
           Is(f, m) == f = [n \in 0..m |-> IF n = 0 THEN disk ELSE Step(f[n - 1], n)]
           S == {m \in Nat : \E f : Is(f, m)}
<1>6. result = (CHOOSE f : Is(f, N))[N]
  BY DEF Replayed
<1>7. \A files, n : Step(files, n) = IF events[n].kind = "changed" THEN Told(files, events[n].change) ELSE files
  OBVIOUS
<1> HIDE DEF Step
<1>1. 0 \in S
  <2> DEFINE f == [n \in 0..0 |-> disk]
  <2>1. Is(f, 0)
    OBVIOUS
  <2> HIDE DEF Is, f
  <2> QED BY <2>1
<1>2. ASSUME NEW m \in Nat, m \in S PROVE m + 1 \in S
  <2>1. PICK f : Is(f, m)
    BY <1>2
  <2> DEFINE g == [n \in 0..(m + 1) |-> IF n = m + 1 THEN Step(f[m], n) ELSE f[n]]
  <2>2. \A n \in 0..m : f[n] = IF n = 0 THEN disk ELSE Step(f[n - 1], n)
    BY <2>1
  <2>3. \A n \in 0..(m + 1) : g[n] = IF n = 0 THEN disk ELSE Step(g[n - 1], n)
    <3> TAKE n \in 0..(m + 1)
    <3>1. CASE n = m + 1
      BY <3>1
    <3>2. CASE n \in 1..m
      <4>1. n # m + 1 /\ n \in 0..m /\ n - 1 # m + 1 /\ n - 1 \in 0..(m + 1) /\ n # 0
        BY <3>2
      <4> QED BY <2>2, <4>1
    <3>3. CASE n = 0
      BY <2>2, <3>3
    <3> QED BY <3>1, <3>2, <3>3
  <2>4. g = [n \in 0..(m + 1) |-> g[n]]
    OBVIOUS
  <2> HIDE DEF g
  <2>5. Is(g, m + 1)
    BY <2>3, <2>4
  <2> HIDE DEF Is
  <2> QED BY <2>5
<1>3. Nat \subseteq S
  <2> HIDE DEF S
  <2> QED BY <1>1, <1>2, Induction
<1>4. N \in Nat
  OBVIOUS
<1>5. PICK after : after = (CHOOSE f : Is(f, N)) /\ Is(after, N)
  <2> HIDE DEF Is, N
  <2>1. \E f : Is(f, N)
    BY <1>3, <1>4
  <2> QED BY <2>1
<1>8. after[0] = disk /\ \A n \in 1..N : after[n] = Step(after[n - 1], n)
  BY <1>4, <1>5
<1>9. \A n \in 1..Len(events) :
        after[n] = IF events[n].kind = "changed" THEN Told(after[n - 1], events[n].change)
                   ELSE after[n - 1]
  BY <1>7, <1>8
<1> HIDE DEF Is, S
<1>10. result = after[Len(events)] /\ after[0] = disk
  BY <1>5, <1>6, <1>8
<1> QED BY ONLY <1>9, <1>10

\* What the files P were, what the events tell, and what the files are after them.
LeavesAll(events, P, disk, result) ==
  /\ result = [p \in P |-> result[p]]
  /\ \A p \in P : Leaves(events, Len(events), p, disk[p], result[p])

\* Reading the changes back leaves what the last event that names a path tells of it.
LEMMA ReplayedTells ==
  ASSUME NEW T, NEW events \in Seq(T), NEW P, NEW V, NEW disk \in [P -> V],
         \A i \in DOMAIN events : FileEvent(events[i], P),
         NEW result, result = Replayed(disk, events)
  PROVE  LeavesAll(events, P, disk, result)
<1> DEFINE N == Len(events)
<1>1. N \in Nat /\ DOMAIN events = 1..N
  OBVIOUS
<1>2. PICK after : /\ result = after[N]
                   /\ after[0] = disk
                   /\ \A n \in 1..N :
                         after[n] = IF events[n].kind = "changed" THEN Told(after[n - 1], events[n].change)
                                    ELSE after[n - 1]
  <2> HIDE DEF N
  <2>1. events \in Seq(T) /\ result = Replayed(disk, events)
    OBVIOUS
  <2> QED BY ONLY <2>1, ReplayedIs DEF N
<1> DEFINE Good(n) == /\ after[n] = [p \in P |-> after[n][p]]
                      /\ \A p \in P : Leaves(events, n, p, disk[p], after[n][p])
           S == {n \in Nat : n <= N => Good(n)}
<1>3. 0 \in S
  BY <1>2 DEF Leaves
<1>4. ASSUME NEW n \in Nat, n \in S PROVE n + 1 \in S
  <2> SUFFICES ASSUME n + 1 <= N PROVE Good(n + 1)
    OBVIOUS
  <2>1. n <= N /\ n + 1 \in 1..N /\ (n + 1) - 1 = n
    BY <1>1
  <2>2. Good(n)
    BY <1>4, <2>1
  <2>3. PICK e, now, then : e = events[n + 1] /\ now = after[n] /\ then = after[n + 1]
    OBVIOUS
  <2>4. then = IF e.kind = "changed" THEN Told(now, e.change) ELSE now
    BY <1>2, <2>1, <2>3
  <2>5. now = [p \in P |-> now[p]] /\ FileEvent(e, P)
    BY <1>1, <2>1, <2>2, <2>3
  <2>6. /\ then = [p \in P |-> then[p]]
        /\ \A p \in P : then[p] = IF Mentions(e, p) THEN Tells(e.change, p) ELSE now[p]
    <3>1. CASE e.kind = "changed"
      BY ONLY <2>4, <2>5, <3>1, ToldIs
    <3>2. CASE e.kind # "changed"
      BY <2>4, <2>5, <3>2 DEF Mentions
    <3> QED BY <3>1, <3>2
  <2>7. ASSUME NEW p \in P PROVE Leaves(events, n + 1, p, disk[p], then[p])
    <3>1. \A i \in 1..(n + 1) : i \in 1..n \/ i = n + 1
      OBVIOUS
    <3>2. CASE Mentions(e, p)
      <4>1. n + 1 \in 1..(n + 1) /\ \A i \in 1..(n + 1) : ~(i > n + 1)
        OBVIOUS
      <4> QED BY <2>3, <2>6, <3>2, <4>1 DEF Leaves
    <3>3. CASE ~Mentions(e, p)
      <4>1. Leaves(events, n, p, disk[p], now[p]) /\ then[p] = now[p]
        BY <2>2, <2>3, <2>6, <3>3
      <4>2. \A i \in 1..n : i \in 1..(n + 1)
        OBVIOUS
      <4> QED BY <2>3, <3>1, <3>3, <4>1, <4>2 DEF Leaves
    <3> QED BY <3>2, <3>3
  <2> QED BY <2>3, <2>6, <2>7
<1>5. Nat \subseteq S
  <2> HIDE DEF S
  <2> QED BY <1>3, <1>4, Induction
<1> QED BY <1>1, <1>2, <1>5 DEF LeavesAll

\* merge_capture_timeline keeps the last change of a path the last, if the changes came in order.
NoChanges(E) == \A e \in E : e.kind # "changed"

LEMMA MergeKeepsTheLast ==
  ASSUME NEW C, NEW E, NEW files \in Seq(FileEntries(C)), NEW tape \in Seq(TapeEntries(E)),
         NoChanges(E), InTime(files), NEW merged, merged = Merge(files, tape),
         NEW told, told = EventsOf(files), NEW events, events = EventsOf(merged),
         NEW p, NEW before, NEW after, NEW result,
         Leaves(told, Len(files), p, before, after), Leaves(events, Len(merged), p, before, result)
  PROVE  result = after
<1>1. PICK s : s = files \o tape
  OBVIOUS
<1> USE DEF NoChanges, InTime, EventsOf
<1>0. files \in Seq(FileEntries(C)) /\ tape \in Seq(TapeEntries(E)) /\ merged = Merge(files, tape)
  OBVIOUS
<1>9. Reordered(merged, s, FileEntries(C) \cup TapeEntries(E))
  BY ONLY <1>0, <1>1, MergeReorders
<1>2. /\ merged \in Seq(FileEntries(C) \cup TapeEntries(E)) /\ Len(merged) = Len(s)
      /\ s \in Seq(FileEntries(C) \cup TapeEntries(E))
  BY ONLY <1>9 DEF Reordered
<1>3. PICK order \in [1..Len(s) -> 1..Len(s)] :
        /\ \A k \in 1..Len(s) : merged[k] = s[order[k]]
        /\ \A i \in 1..Len(s) : \E k \in 1..Len(s) : order[k] = i
        /\ \A j, k \in 1..Len(s) : j < k =>
             \/ TimelineBefore(s[order[j]], s[order[k]])
             \/ ~TimelineBefore(s[order[k]], s[order[j]]) /\ order[j] < order[k]
  BY ONLY <1>9 DEF Reordered
<1> DEFINE L == Len(files)
           N == Len(s)
<1>4. /\ L \in Nat /\ N \in Nat /\ L <= N /\ DOMAIN files = 1..L /\ DOMAIN merged = 1..N
      /\ \A i \in 1..L : s[i] = files[i] /\ i \in 1..N
      /\ \A i \in 1..N : i \notin 1..L => i - L \in DOMAIN tape /\ s[i] = tape[i - L]
  BY <1>1, <1>2
<1>5. \A k \in 1..N : Mentions(events[k], p) =>
         order[k] \in 1..L /\ Mentions(told[order[k]], p) /\ events[k] = told[order[k]]
  <2> TAKE k \in 1..N
  <2> HAVE Mentions(events[k], p)
  <2>1. events[k] = s[order[k]].event /\ order[k] \in 1..N
    BY <1>3, <1>4
  <2>2. CASE order[k] \in 1..L
    BY <1>4, <2>1, <2>2
  <2>3. CASE order[k] \notin 1..L
    <3>1. PICK x \in TapeEntries(E) : x = s[order[k]]
      BY <1>4, <2>1, <2>3
    <3>2. x.event \in E
      BY DEF TapeEntries
    <3> QED BY <2>1, <3>1, <3>2 DEF Mentions
  <2> QED BY <2>2, <2>3
<1>6. CASE after = before /\ \A i \in 1..L : ~Mentions(told[i], p)
  BY <1>2, <1>5, <1>6 DEF Leaves
<1>7. ASSUME NEW m \in 1..L, Mentions(told[m], p), after = Tells(told[m].change, p),
             \A i \in 1..L : i > m => ~Mentions(told[i], p)
      PROVE  result = after
  <2>1. m \in 1..N
    BY <1>4
  <2>2. PICK k \in 1..N : order[k] = m
    BY <1>3, <2>1
  <2>3. events[k] = told[m] /\ Mentions(events[k], p)
    BY <1>3, <1>4, <1>7, <2>2
  <2>4. ASSUME NEW j \in 1..N, j > k, Mentions(events[j], p) PROVE FALSE
    <3>1. order[j] \in 1..L /\ Mentions(told[order[j]], p)
      BY <1>5, <2>4
    <3>2. PICK i : i = order[j]
      OBVIOUS
    <3>3. ~(i > m)
      BY <1>7, <3>1, <3>2
    <3>4. \/ TimelineBefore(s[m], s[i])
          \/ ~TimelineBefore(s[i], s[m]) /\ m < i
      BY <1>3, <2>2, <2>4, <3>2
    <3>5. i \in 1..L /\ m \in 1..L /\ s[i] = files[i] /\ s[m] = files[m]
      BY <1>4, <3>1, <3>2
    <3>6. files[i] \in FileEntries(C) /\ files[m] \in FileEntries(C) /\ i \in Nat /\ m \in Nat
      BY <1>4, <3>5
    <3>7. TimelineBefore(files[m], files[i]) /\ i <= m
      BY <3>3, <3>4, <3>5, <3>6
    <3>8. PICK a, b : a = Key(files[m], m) /\ b = Key(files[i], i)
      OBVIOUS
    <3>9. a \in Keys /\ b \in Keys /\ Lex(a, b)
      BY <3>6, <3>7, <3>8, TimelineOrder
    <3>10. ~Lex(b, a)
      BY ONLY <3>9, LexIsAnOrder
    <3>11. ~TimelineBefore(files[i], files[m])
      <4>1. Lex(Key(files[i], i), Key(files[m], m))
              <=> TimelineBefore(files[i], files[m]) \/ (~TimelineBefore(files[m], files[i]) /\ i < m)
        BY <3>6, TimelineOrder
      <4> QED BY <3>8, <3>10, <4>1
    <3>12. i = m
      <4>1. i < m => TimelineBefore(files[i], files[m])
        BY <1>4, <3>5
      <4> QED BY <3>6, <3>7, <3>11, <4>1
    <3>13. Lex(a, a)
      BY <3>8, <3>9, <3>12
    <3> QED BY ONLY <3>9, <3>13, LexIsAnOrder
  <2>5. PICK l \in 1..N : Mentions(events[l], p) /\ result = Tells(events[l].change, p)
                          /\ \A i \in 1..N : i > l => ~Mentions(events[i], p)
    BY <1>2, <2>3 DEF Leaves
  <2>6. ~(k > l) /\ ~(l > k)
    BY <2>3, <2>4, <2>5
  <2>7. k = l
    BY <1>4, <2>6
  <2> QED BY <1>7, <2>3, <2>5, <2>7
<1> QED BY <1>6, <1>7 DEF Leaves
=============================================================================
