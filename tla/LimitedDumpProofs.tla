------------------------- MODULE LimitedDumpProofs -------------------------
(***************************************************************************)
(* Proofs about LimitedDump, for every build, limit and size: which id a   *)
(* capture is given, which dumps the managers delete to make room, and     *)
(* what the captures of a BMC manager take of its total.                   *)
(***************************************************************************)
EXTENDS LimitedDumpStore, FiniteSetTheorems, WellFoundedInduction, TLAPS

USE BoundAssumption DEF Ids

\* What TypeOK says, but of sizes.
Typed ==
  /\ config \in ConfigType
  /\ up \in BOOLEAN
  /\ entries \in [Ids -> EntryType]
  /\ \A i \in Ids : entries[i].file => entries[i].status \in {"Completed", "Failed"}
  /\ lastEntryId \in 0 .. MaxId
  /\ job \in [Ids -> {"none", "started", "writing", "written", "acting"}]
  /\ dirs \subseteq Ids
  /\ archive \subseteq dirs
  /\ closed \subseteq Ids

\* A capture that has not written its archive has no file for the manager to
\* offer, or to delete: its directory stays.
WritingInv ==
  \A i \in Ids :
    /\ job[i] \in {"started", "writing"} => i \notin closed /\ ~entries[i].file
    /\ job[i] = "writing" => i \in dirs

ClosedInv ==
  /\ ~up => Running = {} /\ closed = {}
  /\ \A i \in closed : i <= lastEntryId

Inv ==
  /\ Typed
  /\ WritingInv
  /\ ClosedInv
  /\ NextIdIsFree

-----------------------------------------------------------------------------
(* Finite sets of ids *)

LEMMA IdsAreFinite ==
  ASSUME NEW S \in SUBSET Ids
  PROVE  IsFiniteSet(S) /\ Cardinality(S) \in Nat
<1>1. IsFiniteSet(Ids)
  BY FS_Interval
<1> QED
  BY <1>1, FS_Subset, FS_CardinalityType

LEMMA SubsetsCount ==
  ASSUME NEW S \in SUBSET Ids, NEW T \in SUBSET S
  PROVE  /\ Cardinality(T) <= Cardinality(S)
         /\ T # S => Cardinality(T) < Cardinality(S)
<1>1. IsFiniteSet(S) /\ Cardinality(S) \in Nat /\ Cardinality(T) \in Nat
  <2>1. T \in SUBSET Ids
    OBVIOUS
  <2> QED
    BY <2>1, IdsAreFinite
<1>2. /\ Cardinality(T) <= Cardinality(S)
      /\ Cardinality(S) = Cardinality(T) => S = T
  BY <1>1, FS_Subset
<1> QED
  BY <1>1, <1>2

\* A finite set of numbers has a greatest element: the one above which there are
\* fewest.
LEMMA GreatestExists ==
  ASSUME NEW S, S \subseteq Int, IsFiniteSet(S), S # {}
  PROVE  \E m \in S : \A y \in S : m >= y
<1> DEFINE Above(x) == {y \in S : y > x}
           T == {Above(x) : x \in S}
           R == StrictSubsetOrdering(S)
<1>1. IsWellFoundedOn(R, FiniteSubsetsOf(S))
  BY FS_StrictSubsetOrderingWellFounded
<1>2. T \subseteq FiniteSubsetsOf(S) /\ T # {}
  <2>1. FiniteSubsetsOf(S) = SUBSET S
    BY FS_FiniteSubsetsOfFinite
  <2>2. \A x \in S : Above(x) \in SUBSET S
    OBVIOUS
  <2>3. T \subseteq SUBSET S /\ T # {}
    BY <2>2
  <2> QED
    BY <2>1, <2>3
<1>3. PICK U \in T : \A V \in T : <<V, U>> \notin R
  BY <1>1, <1>2, WFMin
<1>4. PICK m \in S : U = Above(m)
  OBVIOUS
<1>5. \A y \in S : m >= y
  <2> SUFFICES ASSUME NEW y \in S, y > m PROVE FALSE
    OBVIOUS
  <2>1. Above(y) \subseteq Above(m) /\ Above(y) # Above(m)
    <3>1. y \in Above(m) /\ y \notin Above(y)
      OBVIOUS
    <3>2. Above(y) \subseteq Above(m)
      <4> SUFFICES ASSUME NEW z \in S, z > y PROVE z > m
        OBVIOUS
      <4>1. z \in Int /\ y \in Int /\ m \in Int
        OBVIOUS
      <4> QED
        BY <4>1
    <3> QED
      BY <3>1, <3>2
  <2>2. Above(y) \in T /\ Above(y) \in SUBSET S /\ Above(m) \in SUBSET S
    OBVIOUS
  <2>3. <<Above(y), Above(m)>> \in R
    BY <2>1, <2>2 DEF StrictSubsetOrdering
  <2> QED
    BY <1>3, <1>4, <2>2, <2>3
<1> QED
  BY <1>5

LEMMA MaxIsGreatest ==
  ASSUME NEW S, S \subseteq Int, IsFiniteSet(S), S # {}
  PROVE  Max(S) \in S /\ \A y \in S : Max(S) >= y
  BY GreatestExists DEF Max
-----------------------------------------------------------------------------
(* What the archives add up to.  Archived is a fold, defined by a recursive  *)
(* function.  It counts the blocks that the archives take, one block to a    *)
(* unit of size: of two sets of blocks the counts are easily compared.       *)

\* The blocks that archives of these sizes take: the fold of Archived counts
\* them.
Blocks(sizes, is) ==
  {b \in Ids \X (1 .. MAX_SIZE + EXCESS) : b[1] \in is /\ b[2] <= sizes[b[1]]}

\* The equation of the fold, and what the library makes of it.
IsFold(sizes, is, f) ==
  f = [s \in SUBSET is |->
         IF s = {} THEN 0
         ELSE LET x == CHOOSE x \in s : TRUE IN sizes[x] + f[s \ {x}]]

LEMMA ArchivedIsFold ==
  ASSUME NEW is
  PROVE  /\ Archived(is) = (CHOOSE f : IsFold(used, is, f))[is]
         /\ Archived(is)' = (CHOOSE f : IsFold(used', is, f))[is]
  BY DEF Archived, MapThenSumSet, MapThenFoldSet, IsFold

LEMMA BlocksAreFinite ==
  ASSUME NEW sizes, NEW is
  PROVE  /\ IsFiniteSet(Blocks(sizes, is))
         /\ Cardinality(Blocks(sizes, is)) \in Nat
<1>1. IsFiniteSet(Ids) /\ IsFiniteSet(1 .. MAX_SIZE + EXCESS)
  BY SizeAssumption, FS_Interval
<1>2. IsFiniteSet(Ids \X (1 .. MAX_SIZE + EXCESS))
  BY <1>1, FS_Product
<1>3. Blocks(sizes, is) \in SUBSET (Ids \X (1 .. MAX_SIZE + EXCESS))
  BY DEF Blocks
<1>4. IsFiniteSet(Blocks(sizes, is))
  BY <1>2, <1>3, FS_Subset
<1> QED
  BY <1>4, FS_CardinalityType

LEMMA BlocksOfOne ==
  ASSUME NEW sizes \in [Ids -> 0 .. MAX_SIZE + EXCESS], NEW i \in Ids
  PROVE  Cardinality(Blocks(sizes, {i})) = sizes[i]
<1> DEFINE n == sizes[i]
<1>1. n \in 0 .. MAX_SIZE + EXCESS /\ n \in Nat
  BY SizeAssumption
<1>2. Blocks(sizes, {i}) = {i} \X (1 .. n)
  BY <1>1, SizeAssumption DEF Blocks
<1> HIDE DEF n
<1>3. IsFiniteSet({i}) /\ Cardinality({i}) = 1
  BY FS_Singleton
<1>4. IsFiniteSet(1 .. n) /\ Cardinality(1 .. n) = n
  <2>1. 1 \in Int /\ n \in Int
    BY <1>1
  <2>2. IsFiniteSet(1 .. n) /\ Cardinality(1 .. n) = IF 1 > n THEN 0 ELSE n - 1 + 1
    BY <2>1, FS_Interval
  <2> QED
    BY <1>1, <2>2
<1>5. Cardinality({i} \X (1 .. n)) = Cardinality({i}) * Cardinality(1 .. n)
  BY <1>3, <1>4, FS_Product
<1>6. Cardinality({i} \X (1 .. n)) = n
  BY <1>1, <1>3, <1>4, <1>5
<1> QED
  BY <1>2, <1>6 DEF n

LEMMA BlocksOfBoth ==
  ASSUME NEW sizes, NEW S \in SUBSET Ids, NEW T \in SUBSET Ids, S \cap T = {}
  PROVE  Cardinality(Blocks(sizes, S \cup T))
           = Cardinality(Blocks(sizes, S)) + Cardinality(Blocks(sizes, T))
<1> DEFINE A == Blocks(sizes, S)
           B == Blocks(sizes, T)
<1>1. Blocks(sizes, S \cup T) = A \cup B /\ A \cap B = {}
  BY DEF Blocks
<1>2. Cardinality({}) = 0
  BY FS_EmptySet
<1>3. /\ IsFiniteSet(A) /\ Cardinality(A) \in Nat
      /\ IsFiniteSet(B) /\ Cardinality(B) \in Nat
  BY BlocksAreFinite
<1> HIDE DEF A, B
<1>4. Cardinality(A \cup B) = Cardinality(A) + Cardinality(B) - Cardinality(A \cap B)
  BY <1>3, FS_Union
<1>5. Cardinality(A \cap B) = 0
  BY <1>1, <1>2
<1>6. Cardinality(A \cup B) = Cardinality(A) + Cardinality(B)
  BY <1>3, <1>4, <1>5
<1> QED
  BY <1>1, <1>6 DEF A, B

LEMMA BlocksOfNone ==
  ASSUME NEW sizes
  PROVE  Cardinality(Blocks(sizes, {})) = 0
<1>1. Blocks(sizes, {}) = {}
  BY DEF Blocks
<1> QED
  BY <1>1, FS_EmptySet

\* The count satisfies the equation, and nothing else does.
LEMMA CountUnfolds ==
  ASSUME NEW sizes \in [Ids -> 0 .. MAX_SIZE + EXCESS], NEW s \in SUBSET Ids, NEW i \in s
  PROVE  Cardinality(Blocks(sizes, s)) = sizes[i] + Cardinality(Blocks(sizes, s \ {i}))
<1>1. /\ i \in Ids /\ {i} \in SUBSET Ids /\ s \ {i} \in SUBSET Ids
      /\ s = {i} \cup (s \ {i}) /\ {i} \cap (s \ {i}) = {}
  OBVIOUS
<1>2. Cardinality(Blocks(sizes, {i} \cup (s \ {i})))
        = Cardinality(Blocks(sizes, {i})) + Cardinality(Blocks(sizes, s \ {i}))
  BY <1>1, BlocksOfBoth
<1>3. Cardinality(Blocks(sizes, {i})) = sizes[i]
  BY <1>1, BlocksOfOne
<1> QED
  BY <1>1, <1>2, <1>3

LEMMA CountIsFold ==
  ASSUME NEW sizes \in [Ids -> 0 .. MAX_SIZE + EXCESS], NEW is \in SUBSET Ids
  PROVE  IsFold(sizes, is, [s \in SUBSET is |-> Cardinality(Blocks(sizes, s))])
<1> DEFINE count == [s \in SUBSET is |-> Cardinality(Blocks(sizes, s))]
<1>1. ASSUME NEW s \in SUBSET is
      PROVE  count[s] = IF s = {} THEN 0
                        ELSE LET x == CHOOSE x \in s : TRUE
                             IN  sizes[x] + count[s \ {x}]
  <2>1. CASE s = {}
    BY <2>1, BlocksOfNone
  <2>2. CASE s # {}
    <3> DEFINE x == CHOOSE x \in s : TRUE
    <3>1. x \in s /\ s \in SUBSET Ids
      BY <2>2
    <3> HIDE DEF x
    <3>2. s \ {x} \in SUBSET is
      BY <3>1
    <3>3. count[s] = sizes[x] + count[s \ {x}]
      BY <3>1, <3>2, CountUnfolds
    <3> QED
      BY <2>2, <3>3 DEF x
  <2> QED
    BY <2>1, <2>2
<1> QED
  BY <1>1 DEF IsFold

LEMMA FoldIsCount ==
  ASSUME NEW sizes \in [Ids -> 0 .. MAX_SIZE + EXCESS], NEW is \in SUBSET Ids,
         NEW f, IsFold(sizes, is, f)
  PROVE  f[is] = Cardinality(Blocks(sizes, is))
<1> DEFINE count(s) == Cardinality(Blocks(sizes, s))
           Bad == {s \in SUBSET is : f[s] # count(s)}
           R   == StrictSubsetOrdering(is)
<1>1. IsFiniteSet(is)
  <2>1. IsFiniteSet(Ids)
    BY FS_Interval
  <2> QED
    BY <2>1, FS_Subset
<1>2. IsWellFoundedOn(R, FiniteSubsetsOf(is))
  BY FS_StrictSubsetOrderingWellFounded
<1>3. f[{}] = 0 /\ count({}) = 0
  <2>1. f[{}] = 0
    BY DEF IsFold
  <2> QED
    BY <2>1, BlocksOfNone
<1>4. ASSUME NEW s \in SUBSET is, s # {}
      PROVE  \E x \in s : /\ f[s] = sizes[x] + f[s \ {x}]
                          /\ count(s) = sizes[x] + count(s \ {x})
  <2> DEFINE x == CHOOSE x \in s : TRUE
  <2>1. x \in s
    BY <1>4
  <2>2. f[s] = sizes[x] + f[s \ {x}]
    BY <1>4 DEF IsFold
  <2> HIDE DEF x
  <2>3. s \in SUBSET Ids
    OBVIOUS
  <2>4. count(s) = sizes[x] + count(s \ {x})
    BY <2>1, <2>3, CountUnfolds
  <2> QED
    BY <2>1, <2>2, <2>4
<1> SUFFICES ASSUME Bad # {} PROVE FALSE
  OBVIOUS
<1>5. Bad \subseteq FiniteSubsetsOf(is)
  <2>1. FiniteSubsetsOf(is) = SUBSET is
    BY <1>1, FS_FiniteSubsetsOfFinite
  <2> QED
    BY <2>1
<1>6. PICK s \in Bad : \A t \in Bad : <<t, s>> \notin R
  <2> HIDE DEF Bad, R
  <2>1. Bad # {}
    OBVIOUS
  <2> QED
    BY <1>2, <1>5, <2>1, WFMin
<1> HIDE DEF count
<1>7. s # {} /\ s \in SUBSET is /\ f[s] # count(s)
  BY <1>3
<1>8. PICK x \in s : /\ f[s] = sizes[x] + f[s \ {x}]
                     /\ count(s) = sizes[x] + count(s \ {x})
  BY <1>4, <1>7
<1>9. s \ {x} \in SUBSET is /\ s \ {x} # s
  OBVIOUS
<1>10. <<s \ {x}, s>> \in R
  BY <1>7, <1>9 DEF StrictSubsetOrdering
<1>11. s \ {x} \notin Bad
  BY <1>6, <1>10
<1> QED
  BY <1>7, <1>8, <1>9, <1>11

LEMMA Counts ==
  ASSUME NEW sizes \in [Ids -> 0 .. MAX_SIZE + EXCESS], NEW is \in SUBSET Ids
  PROVE  (CHOOSE f : IsFold(sizes, is, f))[is] = Cardinality(Blocks(sizes, is))
<1>1. \E f : IsFold(sizes, is, f)
  BY CountIsFold
<1>2. IsFold(sizes, is, CHOOSE f : IsFold(sizes, is, f))
  BY <1>1
<1> QED
  BY <1>2, FoldIsCount

\* What Archived adds up is the number of blocks, before a step and after.
LEMMA ArchivedCounts ==
  ASSUME NEW is \in SUBSET Ids
  PROVE  /\ used \in [Ids -> 0 .. MAX_SIZE + EXCESS] =>
              Archived(is) = Cardinality(Blocks(used, is))
         /\ used' \in [Ids -> 0 .. MAX_SIZE + EXCESS] =>
              Archived(is)' = Cardinality(Blocks(used', is))
  BY ArchivedIsFold, Counts

LEMMA ArchivedIsNat ==
  ASSUME NEW is \in SUBSET Ids, used \in [Ids -> 0 .. MAX_SIZE + EXCESS]
  PROVE  Archived(is) \in Nat
  BY ArchivedCounts, BlocksAreFinite

LEMMA ArchivedNothing ==
  ASSUME used \in [Ids -> 0 .. MAX_SIZE + EXCESS]
  PROVE  Archived({}) = 0
  BY ArchivedCounts, BlocksOfNone

LEMMA FewerBlocks ==
  ASSUME NEW sizes, NEW others, NEW S, NEW T,
         Blocks(sizes, S) \subseteq Blocks(others, T)
  PROVE  Cardinality(Blocks(sizes, S)) <= Cardinality(Blocks(others, T))
  BY BlocksAreFinite, FS_Subset

\* A step that empties directories, or removes them, adds nothing to the total.
LEMMA TotalFalls ==
  ASSUME used \in [Ids -> 0 .. MAX_SIZE + EXCESS],
         used' \in [Ids -> 0 .. MAX_SIZE + EXCESS],
         dirs \in SUBSET Ids, dirs' \in SUBSET Ids,
         \A i \in dirs' : used'[i] = 0 \/ (i \in dirs /\ used'[i] = used[i])
  PROVE  Archived(dirs)' <= Archived(dirs)
<1>1. Blocks(used', dirs') \subseteq Blocks(used, dirs)
  <2> SUFFICES ASSUME NEW b \in Ids \X (1 .. MAX_SIZE + EXCESS),
                      b[1] \in dirs', b[2] <= used'[b[1]]
               PROVE  b[1] \in dirs /\ b[2] <= used[b[1]]
    BY DEF Blocks
  <2>1. b[2] \in 1 .. MAX_SIZE + EXCESS /\ used'[b[1]] \in Nat
    OBVIOUS
  <2>2. used'[b[1]] # 0
    BY <2>1
  <2> QED
    BY <2>2
<1>2. Cardinality(Blocks(used', dirs')) <= Cardinality(Blocks(used, dirs))
  BY <1>1, FewerBlocks
<1>3. Archived(dirs) = Cardinality(Blocks(used, dirs))
  BY ArchivedCounts
<1>4. Archived(dirs)' = Cardinality(Blocks(used', dirs'))
  BY ArchivedIsFold, Counts
<1> QED
  BY <1>2, <1>3, <1>4

\* An archive adds its size to the total.
LEMMA TotalRises ==
  ASSUME used \in [Ids -> 0 .. MAX_SIZE + EXCESS],
         used' \in [Ids -> 0 .. MAX_SIZE + EXCESS],
         dirs \in SUBSET Ids, dirs' = dirs,
         NEW i \in dirs, used[i] = 0, \A j \in Ids \ {i} : used'[j] = used[j]
  PROVE  Archived(dirs)' = Archived(dirs) + used'[i]
<1>1. Blocks(used', dirs \ {i}) = Blocks(used, dirs \ {i})
  BY DEF Blocks
<1>2. Cardinality(Blocks(used, dirs))
        = used[i] + Cardinality(Blocks(used, dirs \ {i}))
  BY CountUnfolds
<1>3. Cardinality(Blocks(used', dirs))
        = used'[i] + Cardinality(Blocks(used', dirs \ {i}))
  BY CountUnfolds
<1>4. Cardinality(Blocks(used, dirs \ {i})) \in Nat /\ used'[i] \in Nat
  BY BlocksAreFinite
<1>5. Archived(dirs) = Cardinality(Blocks(used, dirs))
  BY ArchivedCounts
<1>6. Archived(dirs)' = Cardinality(Blocks(used', dirs))
  BY ArchivedIsFold, Counts
<1> QED
  BY <1>1, <1>2, <1>3, <1>4, <1>5, <1>6

-----------------------------------------------------------------------------
(* The oldest entries *)

Older(i) == {j \in InMap : j < i}

LEMMA EntriesAreFinite ==
  /\ InMap \subseteq Ids /\ InMap \subseteq Int
  /\ \A i \in InMap : /\ Older(i) \subseteq InMap /\ Older(i) \subseteq Ids
                     /\ Cardinality(Older(i)) \in Nat
<1>1. InMap \subseteq Ids
  BY DEF InMap, Live, Nulls
<1>2. \A i \in InMap : Older(i) \subseteq InMap
  BY DEF Older
<1>3. \A i \in InMap : Older(i) \subseteq Ids /\ Cardinality(Older(i)) \in Nat
  BY <1>1, <1>2, IdsAreFinite
<1> QED
  BY <1>1, <1>2, <1>3

\* Of two entries the newer one has more that are older.
LEMMA NewerHasMoreOlder ==
  ASSUME NEW i \in InMap, NEW j \in InMap
  PROVE  i < j <=> Cardinality(Older(i)) < Cardinality(Older(j))
<1>1. InMap \subseteq Int /\ i \in Int /\ j \in Int
  BY EntriesAreFinite
<1>2. Older(i) \in SUBSET Ids /\ Older(j) \in SUBSET Ids
  BY EntriesAreFinite
<1>3. Cardinality(Older(i)) \in Nat /\ Cardinality(Older(j)) \in Nat
  BY EntriesAreFinite
<1>4. CASE i < j
  <2>1. \A k \in InMap : k < i => k < j
    <3> TAKE k \in InMap
    <3>1. k \in Int
      BY <1>1
    <3> QED
      BY <1>1, <1>4, <3>1
  <2>2. Older(i) \subseteq Older(j)
    BY <2>1 DEF Older
  <2>3. i \in Older(j) /\ i \notin Older(i)
    BY <1>1, <1>4 DEF Older
  <2> QED
    BY <1>1, <1>2, <1>4, <2>2, <2>3, SubsetsCount
<1>5. CASE j <= i
  <2>1. Older(j) \subseteq Older(i)
    <3> SUFFICES ASSUME NEW k \in InMap, k < j PROVE k < i
      BY DEF Older
    <3>1. k \in Int
      BY <1>1
    <3> QED
      BY <1>1, <1>5, <3>1
  <2>2. Cardinality(Older(j)) <= Cardinality(Older(i))
    BY <1>2, <2>1, SubsetsCount
  <2> QED
    BY <1>1, <1>3, <1>5, <2>2
<1> QED
  BY <1>1, <1>4, <1>5

LEMMA FirstAreOldest ==
  ASSUME NEW n \in Nat, NEW i \in First(n), NEW j \in InMap \ First(n)
  PROVE  i < j
<1>1. /\ i \in InMap
      /\ Cardinality(Older(i)) < n /\ ~(Cardinality(Older(j)) < n)
  BY DEF First, Older
<1>2. Cardinality(Older(i)) \in Nat /\ Cardinality(Older(j)) \in Nat
  BY <1>1, EntriesAreFinite
<1>3. Cardinality(Older(i)) < Cardinality(Older(j))
  BY <1>1, <1>2
<1> QED
  BY <1>1, <1>3, NewerHasMoreOlder

\* The last of the oldest is the greatest: the others are the oldest ones too,
\* one less.
LEMMA FirstWithoutLast ==
  ASSUME NEW n \in Nat, First(n) # {}
  PROVE  /\ Max(First(n)) \in First(n)
         /\ Cardinality(First(n)) - 1 \in Nat
         /\ First(Cardinality(First(n)) - 1) = First(n) \ {Max(First(n))}
<1> DEFINE gone == First(n)
           last == Max(gone)
<1>1. gone \subseteq InMap /\ gone \subseteq Ids /\ gone \subseteq Int
  BY EntriesAreFinite DEF First
<1>2. IsFiniteSet(gone) /\ Cardinality(gone) \in Nat
  BY <1>1, IdsAreFinite
<1> HIDE DEF gone
<1>3. last \in gone /\ \A i \in gone : last >= i
  <2>1. gone # {}
    BY DEF gone
  <2> QED
    BY <1>1, <1>2, <2>1, MaxIsGreatest
<1> HIDE DEF last
<1>4. Older(last) = gone \ {last}
  <2>1. ASSUME NEW i \in InMap, i < last PROVE i \in gone
    <3> SUFFICES ASSUME i \notin gone PROVE FALSE
      OBVIOUS
    <3>1. last < i
      BY <1>3, FirstAreOldest DEF gone
    <3>2. i \in Int /\ last \in Int
      BY <1>1, <1>3, EntriesAreFinite
    <3> QED
      BY <2>1, <3>1, <3>2
  <2>2. \A i \in gone \ {last} : i < last
    <3> TAKE i \in gone \ {last}
    <3>1. i \in Int /\ last \in Int /\ last >= i
      BY <1>1, <1>3
    <3> QED
      BY <3>1
  <2>3. ~(last < last)
    BY <1>1, <1>3
  <2> QED
    BY <1>1, <2>1, <2>2, <2>3 DEF Older
<1>5. Cardinality(Older(last)) = Cardinality(gone) - 1
  BY <1>2, <1>3, <1>4, FS_RemoveElement
<1>6. Cardinality(gone) - 1 \in Nat
  BY <1>1, <1>3, <1>5, EntriesAreFinite
<1>7. First(Cardinality(gone) - 1) = Older(last)
  <2>1. \A i \in InMap : i < last <=> Cardinality(Older(i)) < Cardinality(Older(last))
    BY <1>1, <1>3, NewerHasMoreOlder
  <2> QED
    BY <1>5, <2>1 DEF First, Older
<1> QED
  BY <1>3, <1>4, <1>6, <1>7 DEF gone, last

-----------------------------------------------------------------------------
(* Every step keeps the invariant *)

LEMMA EntriesAreTyped ==
  /\ NoEntry \in EntryType /\ ~NoEntry.file /\ NoEntry.status = "none"
  /\ NullEntry \in EntryType /\ ~NullEntry.file /\ NullEntry.status = "null"
  /\ NewEntry \in EntryType /\ ~NewEntry.file /\ NewEntry.status = "InProgress"
  /\ Offered \in EntryType /\ Offered.file /\ Offered.status = "Completed"
  BY DEF NoEntry, NullEntry, NewEntry, Offered, EntryType, LiveStatus

LEMMA InMapIs == InMap = {i \in Ids : entries[i].status \in LiveStatus \cup {"null"}}
  BY DEF InMap, Live, Nulls

LEMMA InitInv == Init => Inv
<1> SUFFICES ASSUME Init PROVE Inv
  OBVIOUS
<1>1. Typed
  BY ConfigAssumption, EntriesAreTyped DEF Init, Typed
<1>2. InMap = {} /\ Running = {} /\ dirs = {}
  BY EntriesAreTyped, InMapIs DEF Init, LiveStatus, Running
<1>3. WritingInv /\ ClosedInv /\ NextIdIsFree
  BY <1>2 DEF Init, WritingInv, ClosedInv, NextIdIsFree
<1> QED
  BY <1>1, <1>3 DEF Inv

\* The entries that remain when some are removed, and the directories.
LEMMA Remaining ==
  ASSUME Inv, NEW is \in SUBSET Ids
  PROVE  /\ Without(is) \in [Ids -> EntryType]
         /\ \A i \in Ids : Without(is)[i] = IF i \in is THEN NoEntry ELSE entries[i]
         /\ \A i \in Ids : Without(is)[i].file =>
              /\ i \notin is /\ entries[i].file
              /\ Without(is)[i].status \in {"Completed", "Failed"}
<1>1. \A i \in Ids : Without(is)[i] = IF i \in is THEN NoEntry ELSE entries[i]
  BY DEF Without
<1>2. Without(is) \in [Ids -> EntryType]
  BY EntriesAreTyped DEF Without, Inv, Typed
<1>3. ASSUME NEW i \in Ids, Without(is)[i].file
      PROVE  /\ i \notin is /\ entries[i].file
             /\ Without(is)[i].status \in {"Completed", "Failed"}
  BY <1>1, <1>3, EntriesAreTyped DEF Inv, Typed
<1> QED
  BY <1>1, <1>2, <1>3

LEMMA DirectoriesRemain ==
  ASSUME Inv, NEW is \in SUBSET Ids, NEW freed \in SUBSET DirectoriesOf(is),
         RemoveDirectories(freed)
  PROVE  /\ dirs' \subseteq dirs /\ archive' \subseteq dirs'
         /\ \A i \in Ids : job[i] = "writing" => i \in dirs'
  BY DEF RemoveDirectories, DirectoriesOf, Inv, Typed, WritingInv

\* The limits are applied, and a script started.
LEMMA CaptureStep ==
  ASSUME Inv, NEW gone \in SUBSET Ids, NEW freed \in SUBSET DirectoriesOf(gone),
         Capture(gone, freed),
         \/ entries' = Without(gone)
         \/ entries' = [Without(gone) EXCEPT ![lastEntryId + 1] = NewEntry]
  PROVE  Inv'
<1> DEFINE k == lastEntryId + 1
<1>1. /\ up /\ k \in Ids /\ k \in 0 .. MaxId
      /\ lastEntryId \in Int
      /\ lastEntryId' = k
      /\ job' = [job EXCEPT ![k] = "started"]
      /\ RemoveDirectories(freed)
      /\ UNCHANGED <<config, up, closed>>
  BY DEF Capture, Fork, Inv, Typed
<1>2. k \notin InMap /\ k \notin closed
  BY <1>1 DEF Inv, NextIdIsFree, ClosedInv
<1>3. ~Without(gone)[k].file /\ ~entries[k].file
  <2>1. ~entries[k].file
    BY <1>1, <1>2, InMapIs DEF Inv, Typed, LiveStatus
  <2>2. \A i \in Ids : Without(gone)[i].file => entries[i].file
    BY Remaining
  <2> QED
    BY <1>1, <2>1, <2>2
<1>4. /\ entries' \in [Ids -> EntryType]
      /\ \A i \in Ids \ {k} : entries'[i] = Without(gone)[i]
      /\ ~entries'[k].file
  <2>1. CASE entries' = Without(gone)
    BY <1>1, <1>3, <2>1, Remaining
  <2>2. CASE entries' = [Without(gone) EXCEPT ![k] = NewEntry]
    BY <1>1, <2>2, Remaining, EntriesAreTyped
  <2> QED
    BY <2>1, <2>2
<1>5. \A i \in Ids : entries'[i].file =>
        entries[i].file /\ entries'[i].status \in {"Completed", "Failed"}
  BY <1>4, Remaining
<1>6. /\ job' \in [Ids -> {"none", "started", "writing", "written", "acting"}]
      /\ job'[k] = "started"
      /\ \A i \in Ids \ {k} : job'[i] = job[i]
  BY <1>1 DEF Inv, Typed
<1>7. /\ dirs' \subseteq dirs /\ archive' \subseteq dirs'
      /\ \A i \in Ids : job[i] = "writing" => i \in dirs'
  BY <1>1, DirectoriesRemain
<1>8. InMap' \subseteq InMap \cup {k} /\ Running' \subseteq Running \cup {k}
  BY <1>4, <1>6, InMapIs, Remaining, EntriesAreTyped DEF InMap, Live, Nulls, LiveStatus,
     Running
<1> HIDE DEF k
<1>9. Typed'
  BY <1>1, <1>4, <1>5, <1>6, <1>7 DEF Inv, Typed
<1>10. WritingInv'
  BY <1>1, <1>2, <1>4, <1>5, <1>6, <1>7 DEF Inv, WritingInv
<1>11. \A i \in Ids : i <= lastEntryId => i <= k
  BY <1>1 DEF k
<1>12. ClosedInv'
  BY <1>1, <1>11 DEF Inv, Typed, ClosedInv
<1>13. NextIdIsFree'
  <2>1. \A i \in Ids : i \in InMap \/ i \in dirs \/ i \in Running => i <= k
    BY <1>1, <1>11 DEF Inv, NextIdIsFree
  <2>2. k <= k
    BY <1>1
  <2> QED
    BY <1>1, <1>7, <1>8, <2>1, <2>2 DEF NextIdIsFree
<1> QED
  BY <1>9, <1>10, <1>12, <1>13 DEF Inv

\* Entries go, and the directories of those that have one.
LEMMA RemoveStep ==
  ASSUME Inv, NEW is \in SUBSET Ids, NEW freed \in SUBSET DirectoriesOf(is),
         entries' = Without(is), RemoveDirectories(freed),
         UNCHANGED <<config, up, lastEntryId, job, closed>>
  PROVE  Inv'
<1>1. /\ dirs' \subseteq dirs /\ archive' \subseteq dirs'
      /\ \A i \in Ids : job[i] = "writing" => i \in dirs'
  BY DirectoriesRemain
<1>2. /\ entries' \in [Ids -> EntryType]
      /\ \A i \in Ids : entries'[i].file =>
           entries[i].file /\ entries'[i].status \in {"Completed", "Failed"}
  BY Remaining
<1>3. InMap' \subseteq InMap /\ Running' = Running
  BY Remaining, EntriesAreTyped DEF InMap, Live, Nulls, LiveStatus, Running
<1>4. Typed' /\ WritingInv' /\ ClosedInv'
  BY <1>1, <1>2, <1>3 DEF Inv, Typed, WritingInv, ClosedInv
<1>5. NextIdIsFree'
  BY <1>1, <1>3 DEF Inv, NextIdIsFree
<1> QED
  BY <1>4, <1>5 DEF Inv

LEMMA FdrActionStep == Inv /\ FdrAction => Inv'
<1> SUFFICES ASSUME Inv, FdrAction PROVE Inv'
  OBVIOUS
<1> DEFINE k == lastEntryId + 1
<1>1. /\ up /\ k \in Ids /\ k \in 0 .. MaxId
      /\ lastEntryId \in Int
      /\ lastEntryId' = k
      /\ job' = [job EXCEPT ![k] = "acting"]
      /\ UNCHANGED <<config, up, entries, closed, dirs, archive>>
  BY DEF FdrAction, Fork, Inv, Typed, disk
<1>2. /\ job' \in [Ids -> {"none", "started", "writing", "written", "acting"}]
      /\ job'[k] = "acting"
      /\ \A i \in Ids \ {k} : job'[i] = job[i]
  BY <1>1 DEF Inv, Typed
<1>3. InMap' = InMap /\ Running' \subseteq Running \cup {k}
  BY <1>1, <1>2 DEF InMap, Live, Nulls, Running
<1> HIDE DEF k
<1>4. Typed' /\ WritingInv'
  BY <1>1, <1>2 DEF Inv, Typed, WritingInv
<1>5. k <= k /\ \A i \in Ids : i <= lastEntryId => i <= k
  BY <1>1 DEF k
<1>6. ClosedInv' /\ NextIdIsFree'
  BY <1>1, <1>3, <1>5 DEF Inv, Typed, ClosedInv, NextIdIsFree
<1> QED
  BY <1>4, <1>6 DEF Inv
\* The steps of a script, and what the manager learns of it: the map, the
\* directories and the captures get no id but one that is there already.
LEMMA JobMakesDirStep ==
  ASSUME Inv, NEW i \in Ids, JobMakesDir(i)
  PROVE  Inv'
<1>1. /\ job[i] = "started"
      /\ job' = [job EXCEPT ![i] = "writing"]
      /\ dirs' = dirs \cup {i}
      /\ UNCHANGED <<config, up, entries, lastEntryId, closed, archive>>
  BY DEF JobMakesDir, memory
<1>2. /\ job' \in [Ids -> {"none", "started", "writing", "written", "acting"}]
      /\ \A j \in Ids : job'[j] = IF j = i THEN "writing" ELSE job[j]
  BY <1>1 DEF Inv, Typed
<1>3. InMap' = InMap /\ Running' = Running /\ i \in Running
  BY <1>1, <1>2 DEF InMap, Live, Nulls, Running
<1>4. Typed' /\ WritingInv'
  BY <1>1, <1>2 DEF Inv, Typed, WritingInv
<1>5. ClosedInv' /\ NextIdIsFree'
  BY <1>1, <1>3 DEF Inv, ClosedInv, NextIdIsFree
<1> QED
  BY <1>4, <1>5 DEF Inv

LEMMA JobWritesStep ==
  ASSUME Inv, NEW i \in Ids, NEW size, JobWrites(i, size)
  PROVE  Inv'
<1>1. /\ job[i] = "writing"
      /\ job' = [job EXCEPT ![i] = "written"]
      /\ archive' = archive \cup {i}
      /\ closed' \in {closed, closed \cup {i}}
      /\ UNCHANGED <<config, up, entries, lastEntryId, dirs>>
  BY DEF JobWrites, memory
<1>2. /\ job' \in [Ids -> {"none", "started", "writing", "written", "acting"}]
      /\ \A j \in Ids : job'[j] = IF j = i THEN "written" ELSE job[j]
  BY <1>1 DEF Inv, Typed
<1>3. InMap' = InMap /\ Running' = Running /\ i \in Running /\ i \in dirs
  BY <1>1, <1>2 DEF InMap, Live, Nulls, Running, Inv, WritingInv
<1>4. Typed' /\ WritingInv'
  BY <1>1, <1>2, <1>3 DEF Inv, Typed, WritingInv
<1>5. up /\ i <= lastEntryId
  BY <1>3 DEF Inv, Typed, ClosedInv, NextIdIsFree
<1>6. ClosedInv' /\ NextIdIsFree'
  BY <1>1, <1>3, <1>5 DEF Inv, ClosedInv, NextIdIsFree
<1> QED
  BY <1>4, <1>6 DEF Inv

LEMMA JobExitsStep ==
  ASSUME Inv, NEW i \in Ids, NEW ok \in BOOLEAN, JobExits(i, ok)
  PROVE  Inv'
<1>1. /\ i \in Running
      /\ job' = [job EXCEPT ![i] = "none"]
      /\ entries' = IF ok THEN entries
                    ELSE [entries EXCEPT ![i] = Failed(entries[i])]
      /\ UNCHANGED <<config, up, lastEntryId, closed, dirs, archive>>
  BY DEF JobExits, disk
<1>2. /\ job' \in [Ids -> {"none", "started", "writing", "written", "acting"}]
      /\ \A j \in Ids : job'[j] = IF j = i THEN "none" ELSE job[j]
  BY <1>1 DEF Inv, Typed
<1>3. /\ Failed(entries[i]) \in EntryType
      /\ Failed(entries[i]).file =>
           entries[i].file /\ Failed(entries[i]).status = "Failed"
  <2>1. entries[i] \in EntryType
    BY DEF Inv, Typed
  <2>2. CASE entries[i].status \in LiveStatus
    BY <2>1, <2>2 DEF Failed, EntryType, LiveStatus
  <2>3. CASE entries[i].status \notin LiveStatus
    BY <2>3, EntriesAreTyped DEF Failed
  <2> QED
    BY <2>2, <2>3
<1>4. /\ entries' \in [Ids -> EntryType]
      /\ \A j \in Ids \ {i} : entries'[j] = entries[j]
      /\ entries'[i] \in {entries[i], Failed(entries[i])}
  BY <1>1, <1>3 DEF Inv, Typed
<1>5. \A j \in Ids : entries'[j].file =>
        entries[j].file /\ entries'[j].status \in {"Completed", "Failed"}
  BY <1>3, <1>4 DEF Inv, Typed
<1>6. InMap' \subseteq InMap \cup {i} /\ Running' \subseteq Running
  BY <1>2, <1>4 DEF InMap, Live, Nulls, Running
<1>7. Typed' /\ WritingInv'
  BY <1>1, <1>2, <1>4, <1>5 DEF Inv, Typed, WritingInv
<1>8. ClosedInv' /\ NextIdIsFree'
  BY <1>1, <1>6 DEF Inv, ClosedInv, NextIdIsFree, Running
<1> QED
  BY <1>7, <1>8 DEF Inv

LEMMA FileClosedStep ==
  ASSUME Inv, NEW i \in Ids, FileClosed(i)
  PROVE  Inv'
<1>1. /\ up /\ i \in closed /\ closed' = closed \ {i}
      /\ entries' \in {entries, [entries EXCEPT ![i] = Offered]}
      /\ UNCHANGED <<config, up, lastEntryId, job, dirs, archive>>
  BY DEF FileClosed, createEntry, jobs, disk
<1>2. /\ entries' \in [Ids -> EntryType]
      /\ \A j \in Ids \ {i} : entries'[j] = entries[j]
      /\ entries'[i] \in {entries[i], Offered}
  BY <1>1, EntriesAreTyped DEF Inv, Typed
<1>3. i <= lastEntryId /\ job[i] \notin {"started", "writing"}
  BY <1>1 DEF Inv, ClosedInv, WritingInv
<1>4. InMap' \subseteq InMap \cup {i} /\ Running' = Running
  BY <1>1, <1>2 DEF InMap, Live, Nulls, Running
<1>5. Typed'
  BY <1>1, <1>2, EntriesAreTyped DEF Inv, Typed
<1>6. WritingInv'
  BY <1>1, <1>2, <1>3 DEF Inv, WritingInv
<1>7. ClosedInv' /\ NextIdIsFree'
  BY <1>1, <1>3, <1>4 DEF Inv, ClosedInv, NextIdIsFree
<1> QED
  BY <1>5, <1>6, <1>7 DEF Inv

LEMMA DiesStep ==
  ASSUME Inv, Dies, dirs' \subseteq dirs, archive' \subseteq dirs'
  PROVE  Inv'
<1>1. /\ ~up' /\ closed' = {} /\ config' = config
      /\ entries' \in [Ids -> EntryType]
      /\ \A i \in Ids : entries'[i] = NoEntry
      /\ \A i \in Ids : job'[i] = "none"
      /\ job' \in [Ids -> {"none", "started", "writing", "written", "acting"}]
      /\ up' \in BOOLEAN /\ lastEntryId' \in 0 .. MaxId
  <2>1. entries' = [i \in Ids |-> NoEntry] /\ job' = [i \in Ids |-> "none"]
    BY DEF Dies
  <2>2. /\ entries' \in [Ids -> EntryType]
        /\ \A i \in Ids : entries'[i] = NoEntry
    BY <2>1, EntriesAreTyped
  <2>3. /\ job' \in [Ids -> {"none", "started", "writing", "written", "acting"}]
        /\ \A i \in Ids : job'[i] = "none"
    BY <2>1
  <2>4. /\ up' = FALSE /\ closed' = {} /\ config' = config
        /\ lastEntryId' \in 0 .. MaxId
    BY DEF Dies
  <2> QED
    BY <2>2, <2>3, <2>4
<1>2. Typed' /\ WritingInv'
  BY <1>1, EntriesAreTyped DEF Inv, Typed, WritingInv
<1>3. ClosedInv' /\ NextIdIsFree'
  BY <1>1 DEF ClosedInv, NextIdIsFree, Running
<1> QED
  BY <1>2, <1>3 DEF Inv

\* No directory has a greater id than that found on disk.
LEMMA RestartStep == Inv /\ Restart => Inv'
<1> SUFFICES ASSUME Inv, Restart PROVE Inv'
  OBVIOUS
<1>1. /\ ~up /\ up' = TRUE
      /\ entries' = [i \in Ids |-> IF i \in archive THEN Offered ELSE NoEntry]
      /\ lastEntryId' = Max(dirs \cup {0})
      /\ UNCHANGED <<config, job, closed, dirs, archive>>
  BY DEF Restart, restore, jobs, disk
<1>2. lastEntryId' \in 0 .. MaxId /\ \A i \in dirs : i <= lastEntryId'
  <2> DEFINE S == dirs \cup {0}
  <2>1. S \subseteq 0 .. MaxId /\ S \subseteq Int /\ S # {}
    BY DEF Inv, Typed
  <2>2. IsFiniteSet(S)
    <3>1. IsFiniteSet(0 .. MaxId)
      BY FS_Interval
    <3> QED
      BY <2>1, <3>1, FS_Subset
  <2> HIDE DEF S
  <2>3. Max(S) \in S /\ \A y \in S : Max(S) >= y
    BY <2>1, <2>2, MaxIsGreatest
  <2>4. \A i \in dirs : i \in S /\ i \in Int
    BY <2>1 DEF S
  <2>5. Max(S) = lastEntryId' /\ Max(S) \in Int
    BY <1>1, <2>1, <2>3 DEF S
  <2>6. \A i \in dirs : i <= lastEntryId'
    <3> TAKE i \in dirs
    <3>1. Max(S) >= i /\ i \in Int
      BY <2>3, <2>4
    <3> QED
      BY <2>5, <3>1
  <2> QED
    BY <2>1, <2>3, <2>5, <2>6
<1>3. /\ entries' \in [Ids -> EntryType]
      /\ \A i \in Ids : entries'[i] = IF i \in archive THEN Offered ELSE NoEntry
  BY <1>1, EntriesAreTyped
<1>4. Running = {} /\ Running' = {} /\ closed' = {}
  BY <1>1 DEF Inv, ClosedInv, Running
<1>5. InMap' \subseteq archive /\ archive \subseteq dirs
  BY <1>3, EntriesAreTyped DEF InMap, Live, Nulls, LiveStatus, Inv, Typed
<1>6. Typed'
  BY <1>1, <1>2, <1>3, EntriesAreTyped DEF Inv, Typed
<1>7. WritingInv'
  BY <1>1, <1>4 DEF WritingInv, Running
<1>8. ClosedInv' /\ NextIdIsFree'
  BY <1>1, <1>2, <1>4, <1>5 DEF ClosedInv, NextIdIsFree
<1> QED
  BY <1>6, <1>7, <1>8 DEF Inv

LEMMA LiveAreIds == \A gone \in SUBSET Live : gone \in SUBSET Ids
  BY DEF Live

LEMMA NextInv == Inv /\ [Next]_vars => Inv'
<1> SUFFICES ASSUME Inv, [Next]_vars PROVE Inv'
  OBVIOUS
<1>1. ASSUME NEW gone \in SUBSET Live, NEW freed \in SUBSET DirectoriesOf(gone),
             CreateDump(gone, freed) \/ CreateDumpBadOriginator(gone, freed)
      PROVE  Inv'
  BY <1>1, LiveAreIds, CaptureStep DEF CreateDump, CreateDumpBadOriginator
<1>2. ASSUME NEW gone \in SUBSET Live, NEW freed \in SUBSET DirectoriesOf(gone),
             RefuseDump(gone, freed)
      PROVE  Inv'
  BY <1>2, LiveAreIds, RemoveStep DEF RefuseDump, jobs
<1>3. ASSUME NEW gone \in SUBSET Live, NEW freed \in SUBSET DirectoriesOf(gone),
             CreateCrashes(gone, freed)
      PROVE  Inv'
  BY <1>3, LiveAreIds, DirectoriesRemain, DiesStep DEF CreateCrashes
<1>4. CASE FdrAction
  BY <1>4, FdrActionStep
<1>5. ASSUME NEW i \in Ids, DeleteEntry(i)
      PROVE  Inv'
  <2>1. PICK freed \in SUBSET DirectoriesOf({i}) : RemoveDirectories(freed)
    BY <1>5 DEF DeleteEntry
  <2> QED
    BY <1>5, <2>1, RemoveStep DEF DeleteEntry, jobs
<1>6. CASE \E i \in Ids : JobMakesDir(i) \/ FileClosed(i)
  BY <1>6, JobMakesDirStep, FileClosedStep
<1>7. CASE \E i \in Ids, size \in 1 .. MAX_SIZE + EXCESS : JobWrites(i, size)
  BY <1>7, JobWritesStep
<1>8. CASE \E i \in Ids, ok \in BOOLEAN : JobExits(i, ok)
  BY <1>8, JobExitsStep
<1>9. CASE Crash
  <2>1. UNCHANGED <<dirs, archive>> /\ archive \subseteq dirs
    BY <1>9 DEF Crash, disk, Inv, Typed
  <2> QED
    BY <1>9, <2>1, DiesStep DEF Crash
<1>10. CASE Restart
  BY <1>10, RestartStep
<1>11. CASE UNCHANGED vars
  BY <1>11 DEF vars, memory, jobs, disk, Inv, Typed, WritingInv, ClosedInv,
               NextIdIsFree, InMap, Live, Nulls, Running
<1> QED
  BY <1>1, <1>2, <1>3, <1>4, <1>5, <1>6, <1>7, <1>8, <1>9, <1>10, <1>11 DEF Next

\* The strengthened invariant holds of every behaviour.
THEOREM InvHolds == Spec => []Inv
<1>1. Init => Inv
  BY InitInv
<1>2. Inv /\ [Next]_vars => Inv'
  BY NextInv
<1> QED
  BY <1>1, <1>2, PTL DEF Spec

-----------------------------------------------------------------------------
(* The types of the sizes, and the quota *)

\* What Typed leaves of TypeOK, and what it rests on: an archive is announced
\* once, only archives take space, and an originator is saved beside one.
SizeInv ==
  /\ config \in Configs
  /\ allowed \in [Ids -> 0 .. MAX_SIZE]
  /\ used \in [Ids -> 0 .. MAX_SIZE + EXCESS]
  /\ \A i \in Ids : used[i] # 0 => i \in archive
  /\ saved \subseteq archive
  /\ \A i \in closed : i \in archive /\ ~entries[i].file
  /\ overlapped \in BOOLEAN

\* The one capture there is has been given no more than is left, and has not
\* taken any of it until its archive is written: what the archives before it have
\* in excess is counted against it.
QuotaInv ==
  IsBmc /\ ~config.rotates /\ ~overlapped =>
    /\ \A i, j \in Running : i = j
    /\ Archived(dirs) <= TOTAL_SIZE + EXCESS
    /\ \A i \in Ids : job[i] \in {"started", "writing"} =>
         i \notin archive /\ Archived(dirs) + allowed[i] <= TOTAL_SIZE

LEMMA InitSize == Init => SizeInv /\ QuotaInv
<1> SUFFICES ASSUME Init PROVE SizeInv /\ QuotaInv
  OBVIOUS
<1>1. used \in [Ids -> 0 .. MAX_SIZE + EXCESS] /\ allowed \in [Ids -> 0 .. MAX_SIZE]
  BY SizeAssumption DEF Init
<1>2. SizeInv
  BY <1>1 DEF Init, SizeInv
<1>3. Archived(dirs) = 0
  BY <1>1, ArchivedNothing DEF Init
<1>4. QuotaInv
  BY <1>3, SizeAssumption DEF Init, QuotaInv, Running
<1> QED
  BY <1>2, <1>4

\* The size a capture is given, and that which the BMC manager gives when it
\* has nothing to delete: there is something left, and no more is given.
LEMMA AllowedIsTyped ==
  ASSUME Inv, SizeInv, NEW gone \in SUBSET Ids, NEW freed
  PROVE  /\ AllowedSize(gone) \in 0 .. MAX_SIZE
         /\ IsBmc /\ gone = {} /\ GoesOn(gone, freed) =>
              Archived(dirs) + AllowedSize(gone) <= TOTAL_SIZE
<1>1. \A is \in SUBSET Ids :
        /\ Archived(is) \in Nat /\ Cardinality(saved \cap is) \in Nat
        /\ SizeOf(is) \in Nat /\ Archived(is) <= SizeOf(is)
  <2> TAKE is \in SUBSET Ids
  <2>1. Archived(is) \in Nat
    BY ArchivedIsNat DEF SizeInv
  <2>2. saved \cap is \in SUBSET Ids
    OBVIOUS
  <2>3. Cardinality(saved \cap is) \in Nat
    BY <2>2, IdsAreFinite
  <2> QED
    BY <2>1, <2>3 DEF SizeOf
<1>2. gone = {} => SizeOf(gone) = 0
  <2> SUFFICES ASSUME gone = {} PROVE SizeOf({}) = 0
    OBVIOUS
  <2>1. Archived({}) = 0
    BY ArchivedNothing DEF SizeInv
  <2>2. Cardinality(saved \cap {}) = 0
    BY FS_EmptySet
  <2> QED
    BY <2>1, <2>2 DEF SizeOf
<1>3. dirs \in SUBSET Ids
  BY DEF Inv, Typed
<1>4. /\ SizeOf(gone) \in Nat /\ SizeOf(dirs) \in Nat
      /\ Archived(dirs) \in Nat /\ Archived(dirs) <= SizeOf(dirs)
  BY <1>1, <1>3
<1>5. Left(SizeOf(dirs)) \in Nat
  BY <1>4, SizeAssumption DEF Left
<1>6. CASE IsBmc
  <2> DEFINE e == Left(SizeOf(dirs)) + SizeOf(gone)
  <2>1. AllowedSize(gone) = Capped(e) /\ Estimate(gone) = e
    BY <1>6 DEF AllowedSize, Estimate
  <2>2. e \in Nat /\ Capped(e) \in 0 .. MAX_SIZE /\ Capped(e) <= e
    BY <1>4, <1>5, SizeAssumption DEF Capped
  <2>3. ASSUME gone = {}, GoesOn(gone, freed)
        PROVE  Archived(dirs) + Capped(e) <= TOTAL_SIZE
    <3>1. e = Left(SizeOf(dirs))
      BY <1>2, <1>5, <2>3
    <3>2. Estimate(gone) >= MIN_SPACE_REQD
      BY <1>6, <2>3 DEF GoesOn, EnoughSpace, IsBmc, IsFault
    <3>3. e >= 1
      <4> HIDE DEF e
      <4> QED
        BY <2>1, <2>2, <3>2, SizeAssumption
    <3>4. e = TOTAL_SIZE - SizeOf(dirs)
      BY <3>1, <3>3 DEF Left
    <3> HIDE DEF e
    <3> QED
      BY <1>4, <2>2, <3>4, SizeAssumption
  <2> HIDE DEF e
  <2> QED
    BY <2>1, <2>2, <2>3
<1>7. CASE ~IsBmc
  BY <1>7, SizeAssumption DEF AllowedSize
<1> QED
  BY <1>6, <1>7

\* A BMC manager that does not rotate deletes nothing to make room.
LEMMA DeletesNothing ==
  ASSUME Inv, SizeInv, IsBmc, ~config.rotates, NEW gone \in SUBSET Ids, NEW freed,
         Deletes(gone, freed)
  PROVE  gone = {}
<1>1. config.limit = 0
  BY ConfigAssumption DEF SizeInv, IsBmc
<1>2. ~DeletesMore(First(0), freed)
  BY <1>1 DEF DeletesMore, TooMany
<1>3. IsFiniteSet(gone) /\ Cardinality(gone) \in Nat
  BY IdsAreFinite
<1>4. Cardinality(gone) = 0
  <2> SUFFICES ASSUME Cardinality(gone) # 0 PROVE FALSE
    OBVIOUS
  <2>1. 0 \in 0 .. Cardinality(gone) - 1
    BY <1>3
  <2> QED
    BY <1>2, <2>1 DEF Deletes
<1> QED
  BY <1>3, <1>4, FS_EmptySet

\* Removing directories keeps the types of the sizes, and adds nothing.
LEMMA RemovalFrees ==
  ASSUME Inv, SizeInv, NEW is \in SUBSET Ids, NEW freed \in SUBSET DirectoriesOf(is),
         RemoveDirectories(freed)
  PROVE  /\ used' \in [Ids -> 0 .. MAX_SIZE + EXCESS]
         /\ \A i \in Ids : used'[i] # 0 => i \in archive'
         /\ archive' \subseteq archive /\ saved' \subseteq archive'
         /\ \A i \in archive : ~entries[i].file => i \in archive'
         /\ Archived(dirs)' <= Archived(dirs)
         /\ Archived(dirs) \in Nat /\ Archived(dirs)' \in Nat
<1>1. /\ dirs' = dirs \ freed /\ archive' = archive \ freed
      /\ used' = [i \in Ids |-> IF i \in freed THEN 0 ELSE used[i]]
      /\ saved' = saved \ freed
  BY DEF RemoveDirectories
<1>2. \A i \in freed : entries[i].file
  BY DEF DirectoriesOf
<1>3. used \in [Ids -> 0 .. MAX_SIZE + EXCESS] /\ dirs \in SUBSET Ids
  BY DEF Inv, Typed, SizeInv
<1>4. used' \in [Ids -> 0 .. MAX_SIZE + EXCESS] /\ dirs' \in SUBSET Ids
  <2>1. 0 \in 0 .. MAX_SIZE + EXCESS
    BY SizeAssumption
  <2>2. used' \in [Ids -> 0 .. MAX_SIZE + EXCESS]
    BY <1>1, <1>3, <2>1
  <2> QED
    BY <1>1, <1>3, <2>2
<1>5. \A i \in Ids : used'[i] = IF i \in freed THEN 0 ELSE used[i]
  BY <1>1
<1>6. Archived(dirs)' <= Archived(dirs)
  BY <1>1, <1>3, <1>4, <1>5, TotalFalls
<1>7. Archived(dirs) \in Nat /\ Archived(dirs)' \in Nat
  <2>1. Archived(dirs)' = Cardinality(Blocks(used', dirs'))
    BY <1>4, ArchivedIsFold, Counts
  <2> QED
    BY <1>3, <2>1, ArchivedIsNat, BlocksAreFinite
<1> QED
  BY <1>1, <1>2, <1>4, <1>5, <1>6, <1>7 DEF SizeInv

LEMMA CaptureSize ==
  ASSUME Inv, SizeInv, NEW gone \in SUBSET Ids,
         NEW freed \in SUBSET DirectoriesOf(gone), Capture(gone, freed),
         \/ entries' = Without(gone)
         \/ entries' = [Without(gone) EXCEPT ![lastEntryId + 1] = NewEntry]
  PROVE  SizeInv' /\ (QuotaInv => QuotaInv')
<1> DEFINE k == lastEntryId + 1
           a == AllowedSize(gone)
<1>1. /\ up /\ k \in Ids
      /\ Deletes(gone, freed) /\ GoesOn(gone, freed)
      /\ job' = [job EXCEPT ![k] = "started"]
      /\ allowed' = [allowed EXCEPT ![k] = a]
      /\ overlapped' = (overlapped \/ (IsBmc /\ ~config.rotates /\ Running # {}))
      /\ RemoveDirectories(freed)
      /\ UNCHANGED <<config, closed>>
  BY DEF Capture, Fork, Inv, Typed
<1>2. k \notin dirs /\ k \notin closed /\ k \notin archive
  BY <1>1 DEF Inv, Typed, NextIdIsFree, ClosedInv
<1>3. a \in 0 .. MAX_SIZE
  BY AllowedIsTyped
<1> HIDE DEF a
<1>4. /\ used' \in [Ids -> 0 .. MAX_SIZE + EXCESS]
      /\ \A i \in Ids : used'[i] # 0 => i \in archive'
      /\ archive' \subseteq archive /\ saved' \subseteq archive'
      /\ \A i \in archive : ~entries[i].file => i \in archive'
      /\ Archived(dirs)' <= Archived(dirs)
      /\ Archived(dirs) \in Nat /\ Archived(dirs)' \in Nat
  BY <1>1, RemovalFrees
<1>5. /\ allowed' \in [Ids -> 0 .. MAX_SIZE]
      /\ allowed'[k] = a
      /\ \A i \in Ids \ {k} : job'[i] = job[i] /\ allowed'[i] = allowed[i]
  BY <1>1, <1>3 DEF Inv, Typed, SizeInv
<1>6. \A i \in Ids \ {k} : entries'[i].file => entries[i].file
  <2>1. \A i \in Ids \ {k} : entries'[i] = Without(gone)[i]
    BY <1>1, Remaining
  <2> QED
    BY <2>1, Remaining
<1>7. \A i \in closed' : i \in archive' /\ ~entries'[i].file
  BY <1>1, <1>2, <1>4, <1>6 DEF SizeInv, Inv, Typed
<1>8. SizeInv'
  <2>1. overlapped' \in BOOLEAN
    BY <1>1 DEF SizeInv
  <2> QED
    BY <1>1, <1>4, <1>5, <1>7, <2>1 DEF SizeInv
<1>9. ASSUME QuotaInv, IsBmc', ~config'.rotates, ~overlapped'
      PROVE  /\ \A i, j \in Running' : i = j
             /\ Archived(dirs)' <= TOTAL_SIZE + EXCESS
             /\ \A i \in Ids : job'[i] \in {"started", "writing"} =>
                  i \notin archive' /\ Archived(dirs)' + allowed'[i] <= TOTAL_SIZE
  <2>1. IsBmc /\ ~config.rotates /\ ~overlapped /\ Running = {}
    BY <1>1, <1>9 DEF IsBmc
  <2>2. Archived(dirs) <= TOTAL_SIZE + EXCESS
    BY <1>9, <2>1 DEF QuotaInv
  <2>3. gone = {}
    BY <1>1, <2>1, DeletesNothing
  <2>4. Archived(dirs) + a <= TOTAL_SIZE
    BY <1>1, <2>1, <2>3, AllowedIsTyped DEF a
  <2>5. \A i \in Ids \ {k} : job'[i] = "none"
    BY <1>5, <2>1 DEF Running
  <2>6. \A i, j \in Running' : i = j
    BY <2>5 DEF Running
  <2>7. /\ Archived(dirs)' <= TOTAL_SIZE + EXCESS
        /\ Archived(dirs)' + allowed'[k] <= TOTAL_SIZE
    BY <1>3, <1>4, <1>5, <2>2, <2>4, SizeAssumption
  <2> QED
    BY <1>2, <1>4, <2>5, <2>6, <2>7
<1> QED
  BY <1>8, <1>9 DEF QuotaInv

LEMMA RemoveSize ==
  ASSUME Inv, SizeInv, NEW is \in SUBSET Ids,
         NEW freed \in SUBSET DirectoriesOf(is),
         entries' = Without(is), RemoveDirectories(freed),
         UNCHANGED <<config, job, allowed, closed, overlapped>>
  PROVE  SizeInv' /\ (QuotaInv => QuotaInv')
<1>1. /\ used' \in [Ids -> 0 .. MAX_SIZE + EXCESS]
      /\ \A i \in Ids : used'[i] # 0 => i \in archive'
      /\ archive' \subseteq archive /\ saved' \subseteq archive'
      /\ \A i \in archive : ~entries[i].file => i \in archive'
      /\ Archived(dirs)' <= Archived(dirs)
      /\ Archived(dirs) \in Nat /\ Archived(dirs)' \in Nat
  BY RemovalFrees
<1>2. \A i \in Ids : entries'[i].file => entries[i].file
  BY Remaining
<1>3. SizeInv'
  BY <1>1, <1>2 DEF SizeInv, Inv, Typed
<1>4. \A i \in Ids : allowed[i] \in Nat
  BY SizeAssumption DEF SizeInv
<1>5. ASSUME NEW n \in Nat, Archived(dirs) + n <= TOTAL_SIZE
      PROVE  Archived(dirs)' + n <= TOTAL_SIZE
  BY <1>1, <1>5, SizeAssumption
<1>6. Archived(dirs) <= TOTAL_SIZE + EXCESS => Archived(dirs)' <= TOTAL_SIZE + EXCESS
  BY <1>1, SizeAssumption
<1>7. QuotaInv => QuotaInv'
  BY <1>1, <1>4, <1>5, <1>6 DEF QuotaInv, IsBmc, Running
<1> QED
  BY <1>3, <1>7

LEMMA JobWritesSize ==
  ASSUME Inv, SizeInv, NEW i \in Ids, NEW size \in 1 .. MAX_SIZE + EXCESS,
         JobWrites(i, size)
  PROVE  SizeInv' /\ (QuotaInv => QuotaInv')
<1>1. /\ job[i] = "writing"
      /\ size <= allowed[i] + (IF IsBmc THEN EXCESS ELSE 0)
      /\ job' = [job EXCEPT ![i] = "written"]
      /\ allowed' = [allowed EXCEPT ![i] = 0]
      /\ archive' = archive \cup {i}
      /\ used' = [used EXCEPT ![i] = size]
      /\ closed' \in {closed, closed \cup {i}}
      /\ UNCHANGED <<config, entries, dirs, saved, overlapped>>
  BY DEF JobWrites, memory
<1>2. /\ used \in [Ids -> 0 .. MAX_SIZE + EXCESS]
      /\ used' \in [Ids -> 0 .. MAX_SIZE + EXCESS]
      /\ used'[i] = size /\ \A j \in Ids \ {i} : used'[j] = used[j]
      /\ dirs \in SUBSET Ids
      /\ i \in dirs /\ ~entries[i].file
      /\ allowed' \in [Ids -> 0 .. MAX_SIZE]
  <2>1. /\ used \in [Ids -> 0 .. MAX_SIZE + EXCESS]
        /\ allowed \in [Ids -> 0 .. MAX_SIZE]
    BY DEF SizeInv
  <2>2. size \in 0 .. MAX_SIZE + EXCESS /\ 0 \in 0 .. MAX_SIZE
    BY SizeAssumption
  <2>3. /\ used' \in [Ids -> 0 .. MAX_SIZE + EXCESS]
        /\ used'[i] = size /\ \A j \in Ids \ {i} : used'[j] = used[j]
    BY <1>1, <2>1, <2>2
  <2>4. allowed' \in [Ids -> 0 .. MAX_SIZE]
    BY <1>1, <2>1, <2>2
  <2>5. dirs \in SUBSET Ids /\ i \in dirs /\ ~entries[i].file
    BY <1>1 DEF Inv, Typed, WritingInv
  <2> QED
    BY <2>1, <2>3, <2>4, <2>5
<1>3. SizeInv'
  BY <1>1, <1>2 DEF SizeInv
<1>4. ASSUME QuotaInv, IsBmc', ~config'.rotates, ~overlapped'
      PROVE  /\ \A j, k \in Running' : j = k
             /\ Archived(dirs)' <= TOTAL_SIZE + EXCESS
             /\ \A j \in Ids : job'[j] \notin {"started", "writing"}
  <2>1. IsBmc /\ ~config.rotates /\ ~overlapped
    BY <1>1, <1>4 DEF IsBmc
  <2>2. /\ \A j, k \in Running : j = k
        /\ i \notin archive /\ Archived(dirs) + allowed[i] <= TOTAL_SIZE
    BY <1>1, <1>4, <2>1 DEF QuotaInv
  <2>3. used[i] = 0
    BY <2>2 DEF SizeInv
  <2>4. Archived(dirs)' = Archived(dirs) + size
    <3>1. dirs' = dirs
      BY <1>1
    <3>2. Archived(dirs)' = Archived(dirs) + used'[i]
      BY <1>2, <2>3, <3>1, TotalRises
    <3> QED
      BY <1>2, <3>2
  <2>5. Archived(dirs) \in Nat /\ allowed[i] \in Nat
    <3>1. Archived(dirs) \in Nat
      BY <1>2, ArchivedIsNat
    <3>2. allowed[i] \in Nat
      BY SizeAssumption DEF SizeInv
    <3> QED
      BY <3>1, <3>2
  <2>6. Archived(dirs)' <= TOTAL_SIZE + EXCESS
    <3>1. size <= allowed[i] + EXCESS /\ size \in Int
      BY <1>1, <2>1
    <3> QED
      BY <2>2, <2>4, <2>5, <3>1, SizeAssumption
  <2>7. \A j \in Ids : job'[j] = IF j = i THEN "written" ELSE job[j]
    BY <1>1 DEF Inv, Typed
  <2>8. i \in Running /\ Running' = Running
    BY <1>1, <2>7 DEF Running
  <2>9. \A j \in Ids \ {i} : job[j] = "none"
    BY <2>2, <2>8 DEF Running
  <2> QED
    BY <2>2, <2>6, <2>7, <2>8, <2>9
<1> QED
  BY <1>3, <1>4 DEF QuotaInv

LEMMA JobMakesDirSize ==
  ASSUME Inv, SizeInv, NEW i \in Ids, JobMakesDir(i)
  PROVE  SizeInv' /\ (QuotaInv => QuotaInv')
<1>1. /\ job[i] = "started"
      /\ job' = [job EXCEPT ![i] = "writing"]
      /\ dirs' = dirs \cup {i}
      /\ UNCHANGED <<config, entries, allowed, closed, archive, used, saved, overlapped>>
  BY DEF JobMakesDir, memory
<1>2. SizeInv'
  BY <1>1 DEF SizeInv
<1>3. ASSUME QuotaInv, IsBmc', ~config'.rotates, ~overlapped'
      PROVE  /\ \A j, k \in Running' : j = k
             /\ Archived(dirs)' <= TOTAL_SIZE + EXCESS
             /\ \A j \in Ids : job'[j] \in {"started", "writing"} =>
                  j \notin archive' /\ Archived(dirs)' + allowed'[j] <= TOTAL_SIZE
  <2>1. IsBmc /\ ~config.rotates /\ ~overlapped
    BY <1>1, <1>3 DEF IsBmc
  <2>2. /\ \A j, k \in Running : j = k
        /\ Archived(dirs) <= TOTAL_SIZE + EXCESS
        /\ \A j \in Ids : job[j] \in {"started", "writing"} =>
             j \notin archive /\ Archived(dirs) + allowed[j] <= TOTAL_SIZE
    BY <1>3, <2>1 DEF QuotaInv
  <2>3. used[i] = 0
    BY <1>1, <2>2 DEF SizeInv
  <2>4. /\ used \in [Ids -> 0 .. MAX_SIZE + EXCESS] /\ dirs \in SUBSET Ids
        /\ used' = used /\ dirs' \in SUBSET Ids
    BY <1>1 DEF Inv, Typed, SizeInv
  <2>5. Archived(dirs)' <= Archived(dirs)
    BY <1>1, <2>3, <2>4, TotalFalls
  <2>6. Archived(dirs) \in Nat /\ Archived(dirs)' \in Nat
    <3>1. Archived(dirs)' = Cardinality(Blocks(used', dirs'))
      BY <2>4, ArchivedIsFold, Counts
    <3> QED
      BY <2>4, <3>1, ArchivedIsNat, BlocksAreFinite
  <2>7. \A j \in Ids : job'[j] = IF j = i THEN "writing" ELSE job[j]
    BY <1>1 DEF Inv, Typed
  <2>8. Running' = Running
    BY <1>1, <2>7 DEF Running
  <2>9. \A j \in Ids : allowed[j] \in Nat /\ allowed'[j] = allowed[j]
    BY <1>1, SizeAssumption DEF SizeInv
  <2>10. \A j \in Ids : Archived(dirs) + allowed[j] <= TOTAL_SIZE =>
                          Archived(dirs)' + allowed'[j] <= TOTAL_SIZE
    BY <2>5, <2>6, <2>9, SizeAssumption
  <2>11. Archived(dirs)' <= TOTAL_SIZE + EXCESS
    BY <2>2, <2>5, <2>6, SizeAssumption
  <2>12. \A j \in Ids : job'[j] \in {"started", "writing"} =>
                          job[j] \in {"started", "writing"}
    BY <1>1, <2>7
  <2> QED
    BY <1>1, <2>2, <2>8, <2>10, <2>11, <2>12
<1> QED
  BY <1>2, <1>3 DEF QuotaInv

\* The rest of the steps leave the directories as they are, or take the captures
\* away.
LEMMA QuietSize ==
  ASSUME Inv, SizeInv, UNCHANGED <<config, archive, dirs, used, overlapped>>,
         saved' \subseteq archive,
         allowed' \in [Ids -> 0 .. MAX_SIZE],
         \A i \in Ids : \/ job'[i] \in {"none", "acting"}
                        \/ job'[i] = job[i] /\ allowed'[i] = allowed[i],
         Running' \subseteq Running,
         \A i \in closed' : i \in closed /\ (entries'[i].file => entries[i].file)
  PROVE  SizeInv' /\ (QuotaInv => QuotaInv')
<1>1. SizeInv'
  BY DEF SizeInv
<1>2. Archived(dirs)' = Archived(dirs)
  <2>1. used \in [Ids -> 0 .. MAX_SIZE + EXCESS] /\ dirs \in SUBSET Ids
    BY DEF Inv, Typed, SizeInv
  <2>2. Archived(dirs) = Cardinality(Blocks(used, dirs))
    BY <2>1, ArchivedCounts
  <2>3. Archived(dirs)' = Cardinality(Blocks(used', dirs'))
    BY <2>1, ArchivedIsFold, Counts
  <2> QED
    BY <2>2, <2>3
<1>3. QuotaInv => QuotaInv'
  BY <1>2 DEF QuotaInv, IsBmc
<1> QED
  BY <1>1, <1>3

LEMMA JobExitsSize ==
  ASSUME Inv, SizeInv, NEW i \in Ids, NEW ok \in BOOLEAN, JobExits(i, ok)
  PROVE  SizeInv' /\ (QuotaInv => QuotaInv')
<1>1. /\ job' = [job EXCEPT ![i] = "none"]
      /\ allowed' = [allowed EXCEPT ![i] = 0]
      /\ entries' = IF ok THEN entries
                    ELSE [entries EXCEPT ![i] = Failed(entries[i])]
      /\ UNCHANGED <<config, closed, archive, dirs, used, saved, overlapped>>
  BY DEF JobExits, disk
<1>2. /\ \A j \in Ids : job'[j] = IF j = i THEN "none" ELSE job[j]
      /\ \A j \in Ids : allowed'[j] = IF j = i THEN 0 ELSE allowed[j]
      /\ allowed' \in [Ids -> 0 .. MAX_SIZE]
  BY <1>1, SizeAssumption DEF Inv, Typed, SizeInv
<1>3. Running' \subseteq Running
  BY <1>2 DEF Running
<1>4. Failed(entries[i]).file => entries[i].file
  <2>1. entries[i] \in EntryType
    BY DEF Inv, Typed
  <2>2. CASE entries[i].status \in LiveStatus
    BY <2>1, <2>2 DEF Failed, EntryType
  <2>3. CASE entries[i].status \notin LiveStatus
    BY <2>3, EntriesAreTyped DEF Failed
  <2> QED
    BY <2>2, <2>3
<1>5. \A j \in Ids : entries'[j].file => entries[j].file
  BY <1>1, <1>4 DEF Inv, Typed
<1>6. closed' \subseteq Ids /\ saved' \subseteq archive
  BY <1>1 DEF Inv, Typed, SizeInv
<1> QED
  BY <1>1, <1>2, <1>3, <1>5, <1>6, QuietSize

LEMMA FileClosedSize ==
  ASSUME Inv, SizeInv, NEW i \in Ids, FileClosed(i)
  PROVE  SizeInv' /\ (QuotaInv => QuotaInv')
<1>1. /\ closed' = closed \ {i}
      /\ entries' \in {entries, [entries EXCEPT ![i] = Offered]}
      /\ UNCHANGED <<config, job, allowed, archive, dirs, used, overlapped>>
      /\ saved' \subseteq saved \cup {i} /\ i \in archive
  BY DEF FileClosed, createEntry, jobs, SizeInv
<1>2. \A j \in closed' : j \in closed /\ (entries'[j].file => entries[j].file)
  BY <1>1 DEF Inv, Typed
<1>3. /\ Running' = Running /\ allowed' \in [Ids -> 0 .. MAX_SIZE]
      /\ saved' \subseteq archive
  BY <1>1 DEF Running, SizeInv
<1> QED
  BY <1>1, <1>2, <1>3, QuietSize

LEMMA DiesSize ==
  ASSUME Inv, SizeInv, Dies,
         \/ \E is \in SUBSET Ids : \E freed \in SUBSET DirectoriesOf(is) :
              RemoveDirectories(freed)
         \/ UNCHANGED disk
  PROVE  SizeInv' /\ (QuotaInv => QuotaInv')
<1>1. /\ closed' = {} /\ UNCHANGED <<config, overlapped>>
      /\ allowed' \in [Ids -> 0 .. MAX_SIZE] /\ \A i \in Ids : job'[i] = "none"
  BY SizeAssumption DEF Dies
<1>2. Running' = {}
  BY <1>1 DEF Running
<1>3. CASE \E is \in SUBSET Ids : \E freed \in SUBSET DirectoriesOf(is) :
             RemoveDirectories(freed)
  <2>1. PICK is \in SUBSET Ids : \E freed \in SUBSET DirectoriesOf(is) :
          RemoveDirectories(freed)
    BY <1>3
  <2>2. /\ used' \in [Ids -> 0 .. MAX_SIZE + EXCESS]
        /\ \A i \in Ids : used'[i] # 0 => i \in archive'
        /\ saved' \subseteq archive'
        /\ Archived(dirs)' <= Archived(dirs)
        /\ Archived(dirs) \in Nat /\ Archived(dirs)' \in Nat
    BY <2>1, RemovalFrees
  <2>3. Archived(dirs) <= TOTAL_SIZE + EXCESS => Archived(dirs)' <= TOTAL_SIZE + EXCESS
    BY <2>2, SizeAssumption
  <2>4. SizeInv'
    BY <1>1, <2>2 DEF SizeInv
  <2>5. QuotaInv => QuotaInv'
    BY <1>1, <1>2, <2>3 DEF QuotaInv, IsBmc
  <2> QED
    BY <2>4, <2>5
<1>4. CASE UNCHANGED disk
  <2>1. UNCHANGED <<dirs, archive, used, saved>>
    BY <1>4 DEF disk
  <2> QED
    BY <1>1, <1>2, <2>1, QuietSize DEF SizeInv
<1> QED
  BY <1>3, <1>4

LEMMA NextSize ==
  Inv /\ SizeInv /\ QuotaInv /\ [Next]_vars => SizeInv' /\ QuotaInv'
<1> SUFFICES ASSUME Inv, SizeInv, QuotaInv, [Next]_vars PROVE SizeInv' /\ QuotaInv'
  OBVIOUS
<1>1. ASSUME NEW gone \in SUBSET Live, NEW freed \in SUBSET DirectoriesOf(gone),
             CreateDump(gone, freed) \/ CreateDumpBadOriginator(gone, freed)
      PROVE  SizeInv' /\ QuotaInv'
  BY <1>1, LiveAreIds, CaptureSize DEF CreateDump, CreateDumpBadOriginator
<1>2. ASSUME NEW gone \in SUBSET Live, NEW freed \in SUBSET DirectoriesOf(gone),
             RefuseDump(gone, freed)
      PROVE  SizeInv' /\ QuotaInv'
  BY <1>2, LiveAreIds, RemoveSize DEF RefuseDump, jobs
<1>3. ASSUME NEW gone \in SUBSET Live, NEW freed \in SUBSET DirectoriesOf(gone),
             CreateCrashes(gone, freed)
      PROVE  SizeInv' /\ QuotaInv'
  BY <1>3, LiveAreIds, DiesSize DEF CreateCrashes
<1>4. CASE FdrAction
  <2> DEFINE k == lastEntryId + 1
  <2>1. /\ k \in Ids /\ ~IsBmc
        /\ job' = [job EXCEPT ![k] = "acting"]
        /\ allowed' = [allowed EXCEPT ![k] = 0]
        /\ overlapped' = (overlapped \/ (IsBmc /\ ~config.rotates /\ Running # {}))
        /\ UNCHANGED <<config, entries, closed, archive, used, saved, dirs>>
    BY <1>4 DEF FdrAction, Fork, Inv, Typed, disk, IsBmc, IsFdr
  <2> HIDE DEF k
  <2>2. allowed' \in [Ids -> 0 .. MAX_SIZE] /\ overlapped' \in BOOLEAN
    BY <2>1, SizeAssumption DEF SizeInv
  <2>3. SizeInv'
    BY <2>1, <2>2 DEF SizeInv
  <2>4. QuotaInv'
    BY <2>1 DEF QuotaInv, IsBmc
  <2> QED
    BY <2>3, <2>4
<1>5. ASSUME NEW i \in Ids, DeleteEntry(i)
      PROVE  SizeInv' /\ QuotaInv'
  <2>1. PICK freed \in SUBSET DirectoriesOf({i}) : RemoveDirectories(freed)
    BY <1>5 DEF DeleteEntry
  <2> QED
    BY <1>5, <2>1, RemoveSize DEF DeleteEntry, jobs
<1>6. CASE \E i \in Ids : JobMakesDir(i) \/ FileClosed(i)
  BY <1>6, JobMakesDirSize, FileClosedSize
<1>7. CASE \E i \in Ids, size \in 1 .. MAX_SIZE + EXCESS : JobWrites(i, size)
  BY <1>7, JobWritesSize
<1>8. CASE \E i \in Ids, ok \in BOOLEAN : JobExits(i, ok)
  BY <1>8, JobExitsSize
<1>9. CASE Crash
  BY <1>9, DiesSize DEF Crash
<1>10. CASE Restart
  <2>1. closed = {} /\ Running = {} /\ Running' = {}
    BY <1>10 DEF Restart, jobs, Inv, ClosedInv, Running
  <2>2. UNCHANGED <<config, job, allowed, closed, archive, dirs, used, saved,
                    overlapped>>
    BY <1>10 DEF Restart, jobs, disk
  <2> QED
    BY <2>1, <2>2, QuietSize DEF SizeInv
<1>11. CASE UNCHANGED vars
  <2>1. UNCHANGED <<config, job, allowed, closed, archive, dirs, used, saved,
                    overlapped, entries>>
    BY <1>11 DEF vars, memory, jobs, disk
  <2>2. Running' = Running
    BY <2>1 DEF Running
  <2> QED
    BY <2>1, <2>2, QuietSize DEF SizeInv
<1> QED
  BY <1>1, <1>2, <1>3, <1>4, <1>5, <1>6, <1>7, <1>8, <1>9, <1>10, <1>11 DEF Next

THEOREM SizesHold == Spec => [](SizeInv /\ QuotaInv)
<1>1. Init => SizeInv /\ QuotaInv
  BY InitSize
<1>2. Inv /\ SizeInv /\ QuotaInv /\ [Next]_vars => SizeInv' /\ QuotaInv'
  BY NextSize
<1> QED
  BY <1>1, <1>2, InvHolds, PTL DEF Spec

-----------------------------------------------------------------------------
(* The theorems *)

\* Every variable keeps its type, the sizes and the captures' shares among them;
\* no archive is announced that is not on disk.
THEOREM TypeCorrect == Spec => []TypeOK
<1>1. Inv /\ SizeInv => TypeOK
  BY DEF Inv, Typed, SizeInv, TypeOK
<1> QED
  BY <1>1, InvHolds, SizesHold, PTL

\* Whatever the sizes and the total are, captures that run one at a time take no
\* more than the total but for the excess of one archive, and for what is saved
\* beside them.
THEOREM KeepsQuota == Spec => []QuotaKept
<1>1. Inv /\ SizeInv /\ QuotaInv => QuotaKept
  <2> SUFFICES ASSUME Inv, SizeInv, Archived(dirs) <= TOTAL_SIZE + EXCESS
               PROVE  SizeOf(dirs) <= TOTAL_SIZE + EXCESS + Cardinality(saved)
    BY DEF QuotaInv, QuotaKept
  <2>1. saved \cap dirs = saved /\ dirs \in SUBSET Ids /\ saved \in SUBSET Ids
    BY DEF Inv, Typed, SizeInv
  <2>2. Archived(dirs) \in Nat /\ Cardinality(saved) \in Nat
    BY <2>1, ArchivedIsNat, IdsAreFinite DEF SizeInv
  <2>3. SizeOf(dirs) = Archived(dirs) + Cardinality(saved)
    BY <2>1 DEF SizeOf
  <2> QED
    BY <2>2, <2>3, SizeAssumption
<1> QED
  BY <1>1, InvHolds, SizesHold, PTL

\* The id of the next capture is that of no entry, directory or script there is,
\* whatever was deleted, and whatever a restart found.
THEOREM IdsAreFresh == Spec => []NextIdIsFree
<1>1. Inv => NextIdIsFree
  BY DEF Inv
<1> QED
  BY <1>1, InvHolds, PTL

\* What makes room removes exactly the oldest entries, as many as the limits ask
\* for.
LEMMA RoomMade ==
  ASSUME Inv, MakesRoom
  PROVE  \E n \in Nat :
           /\ Removed = First(n) /\ First(n) # {}
           /\ Deletes(First(n), Freed)
<1>1. Deletes(Removed, Freed) /\ Removed # {}
  BY DEF MakesRoom, Adds, CreateDump, CreateDumpBadOriginator, RefuseDump, Capture,
         Refuses
<1>2. Removed = First(Cardinality(Removed))
  BY <1>1 DEF Deletes
<1>3. Removed \in SUBSET Ids
  BY EntriesAreFinite DEF Removed
<1>4. Cardinality(Removed) \in Nat
  BY <1>3, IdsAreFinite
<1> QED
  BY <1>1, <1>2, <1>4

\* The managers delete the oldest first: no entry they keep is older than one
\* they removed to make room.
THEOREM DeletesOldestFirst == Spec => OldestFirst
<1>1. Inv /\ [Next]_vars =>
        [\A i \in Removed, j \in InMap \ Removed : j < i => ~MakesRoom]_vars
  <2> SUFFICES ASSUME Inv, MakesRoom, NEW i \in Removed, NEW j \in InMap \ Removed,
                      j < i
               PROVE  FALSE
    OBVIOUS
  <2>1. i < j
    BY RoomMade, FirstAreOldest
  <2>2. i \in Int /\ j \in Int
    BY EntriesAreFinite DEF Removed
  <2> QED
    BY <2>1, <2>2
<1> QED
  BY <1>1, InvHolds, PTL DEF Spec, OldestFirst

\* The limit on the number of dumps holds whenever one is added, however many
\* null pointers and late archives are in the map.
THEOREM LimitsTheCount == Spec => CountLimited
<1>1. Inv /\ [Next]_vars =>
        [config.limit > 0 /\ Adds => Cardinality(InMap') <= config.limit]_vars
  <2> SUFFICES ASSUME Inv, Adds, config.limit > 0
               PROVE  Cardinality(InMap') <= config.limit
    OBVIOUS
  <2> DEFINE gone == Removed
  <2>1. /\ Capture(gone, Freed)
        /\ \/ entries' = Without(gone)
           \/ entries' = [Without(gone) EXCEPT ![lastEntryId + 1] = NewEntry]
    BY DEF Adds, CreateDump, CreateDumpBadOriginator
  <2>a. gone \in SUBSET Ids
    BY EntriesAreFinite DEF Removed
  <2> HIDE DEF gone
  <2> DEFINE kept == InMap \ gone
             k == lastEntryId + 1
  <2>2. gone \in SUBSET Ids /\ kept \in SUBSET Ids /\ k \in Ids /\ k \notin kept
    <3>1. gone \in SUBSET Ids /\ kept \in SUBSET Ids
      BY <2>a, EntriesAreFinite
    <3>2. up /\ lastEntryId \in Nat /\ k \in Ids
      BY <2>1 DEF Capture, Inv, Typed
    <3>3. k \notin InMap
      BY <3>2 DEF Inv, NextIdIsFree
    <3> QED
      BY <3>1, <3>2, <3>3
  <2>3. InMap' \subseteq kept \cup {k}
    <3>1. \A i \in Ids \ {k} : entries'[i] = IF i \in gone THEN NoEntry ELSE entries[i]
      BY <2>1, <2>2, Remaining
    <3> QED
      BY <3>1, EntriesAreTyped DEF InMap, Live, Nulls, LiveStatus
  <2>4. IsFiniteSet(kept) /\ Cardinality(kept) \in Nat /\ config.limit \in Nat
    BY <2>2, IdsAreFinite DEF Inv, Typed, ConfigType
  <2>5. Cardinality(kept) < config.limit
    BY <2>1, <2>4 DEF Capture, GoesOn, TooMany
  <2> HIDE DEF kept, k
  <2>6. Cardinality(kept \cup {k}) = Cardinality(kept) + 1
    BY <2>2, <2>4, FS_AddElement
  <2>7. kept \cup {k} \in SUBSET Ids /\ InMap' \in SUBSET (kept \cup {k})
    BY <2>2, <2>3
  <2>8. Cardinality(InMap') <= Cardinality(kept \cup {k}) /\ Cardinality(InMap') \in Nat
    BY <2>7, SubsetsCount, IdsAreFinite
  <2> QED
    BY <2>4, <2>5, <2>6, <2>8
<1> QED
  BY <1>1, InvHolds, PTL DEF Spec, CountLimited

\* The last entry removed was one too many, or in the way of the space needed:
\* the limits are met by deleting the fewest.
THEOREM DeletesNoMore == Spec => RemovesOnlyWhatItMust
<1> DEFINE Must == LET kept == Removed \ {Max(Removed)}
                   IN  \/ /\ config.limit > 0
                          /\ Cardinality(InMap \ kept) >= config.limit
                       \/ /\ config.rotates
                          /\ (IF IsBmc THEN Estimate(kept)
                                         ELSE Measured(kept, Freed))
                               < MIN_SPACE_REQD
<1>1. Inv /\ [Next]_vars => [Running = {} /\ MakesRoom => Must]_vars
  <2> SUFFICES ASSUME Inv, Running = {}, MakesRoom PROVE Must
    OBVIOUS
  <2>1. PICK n \in Nat : /\ Removed = First(n) /\ First(n) # {}
                         /\ Deletes(First(n), Freed)
    BY RoomMade
  <2> DEFINE last == Cardinality(First(n)) - 1
  <2>2. last \in Nat /\ First(last) = First(n) \ {Max(First(n))}
    BY <2>1, FirstWithoutLast
  <2>3. last \in 0 .. Cardinality(First(n)) - 1
    BY <2>2
  <2>4. DeletesMore(First(last), Freed)
    BY <2>1, <2>3 DEF Deletes
  <2>5. First(last) = Removed \ {Max(Removed)}
    BY <2>1, <2>2
  <2> HIDE DEF last
  <2>6. ~WalkFails /\ ~(IsBmc /\ IsFault)
    BY DEF WalkFails, IsBmc, IsFault
  <2> QED
    BY <2>4, <2>5, <2>6 DEF DeletesMore, TooMany, TooFull
<1> QED
  BY <1>1, InvHolds, PTL DEF Spec, RemovesOnlyWhatItMust

-----------------------------------------------------------------------------
(* The dump store: the managers that delete to make room implement it.  The  *)
(* simulation is step by step; it rests on Inv and SizeInv: only an entry of *)
(* the map names a file, and an archive that is announced is on disk and not *)
(* on offer.                                                                 *)

LEMMA Mapping ==
  /\ Kept \in [Ids -> {"dump", "none"}]
  /\ Kept' \in [Ids -> {"dump", "none"}]
  /\ \A i \in Ids :
       /\ Kept[i] = "dump" <=> i \in archive
       /\ Kept'[i] = "dump" <=> i \in archive'
       /\ OfferedOnBus[i] = "dump" <=> entries[i].file
       /\ OfferedOnBus'[i] = "dump" <=> entries'[i].file
       /\ OfferedOnBus[i] \in {"dump", "none"}
  BY DEF Kept, OfferedOnBus

LEMMA StutterStep ==
  ASSUME UNCHANGED <<up, archive>>,
         \A i \in Ids : entries'[i].file <=> entries[i].file
  PROVE  UNCHANGED Store!vars
<1>1. Kept' = Kept
  BY DEF Kept
<1>2. OfferedOnBus' = OfferedOnBus
  BY DEF OfferedOnBus
<1> QED
  BY <1>1, <1>2 DEF Store!vars

\* Directories are removed with the archives in them, of dumps on offer only.
LEMMA RemovedFromStore ==
  ASSUME NEW is \in SUBSET Ids, NEW freed \in SUBSET DirectoriesOf(is),
         RemoveDirectories(freed)
  PROVE  /\ freed \in SUBSET Store!Offered(is)
         /\ Kept' = Store!Without(Kept, freed)
<1>1. freed \in SUBSET Store!Offered(is)
  BY Mapping DEF DirectoriesOf, Store!Offered, Store!None
<1>2. archive' = archive \ freed
  BY DEF RemoveDirectories
<1>3. Kept' = Store!Without(Kept, freed)
  BY <1>2 DEF Kept, Store!Without, Store!None
<1> QED
  BY <1>1, <1>3

LEMMA DeleteStep ==
  ASSUME NEW is \in SUBSET Ids, NEW freed \in SUBSET DirectoriesOf(is),
         up, up' = up, RemoveDirectories(freed),
         \A i \in Ids : entries'[i].file <=> entries[i].file /\ i \notin is
  PROVE  Store!Delete(is)
<1>1. OfferedOnBus' = Store!Without(OfferedOnBus, is)
  BY DEF OfferedOnBus, Store!Without, Store!None
<1> QED
  BY <1>1, RemovedFromStore DEF Store!Delete

LEMMA WithoutFiles ==
  ASSUME NEW is \in SUBSET Ids, NEW i \in Ids
  PROVE  Without(is)[i].file <=> entries[i].file /\ i \notin is
<1>1. Without(is)[i] = IF i \in is THEN NoEntry ELSE entries[i]
  BY DEF Without
<1> QED
  BY <1>1, EntriesAreTyped

LEMMA CreateStep ==
  ASSUME Inv, NEW gone \in SUBSET Ids, NEW freed \in SUBSET DirectoriesOf(gone),
         Capture(gone, freed),
         \/ entries' = Without(gone)
         \/ entries' = [Without(gone) EXCEPT ![lastEntryId + 1] = NewEntry]
  PROVE  Store!Delete(gone)
<1> DEFINE k == lastEntryId + 1
<1>1. up /\ up' = up /\ RemoveDirectories(freed) /\ k \in Ids
  BY DEF Capture, Inv, Typed
<1>2. ~entries[k].file
  <2>1. k \notin InMap
    BY <1>1 DEF Inv, Typed, NextIdIsFree
  <2> QED
    BY <1>1, <2>1, InMapIs DEF Inv, Typed, LiveStatus
<1>3. \A i \in Ids : i # k => entries'[i] = Without(gone)[i]
  BY Remaining
<1>4. entries'[k] \in {Without(gone)[k], NewEntry}
  BY <1>1, Remaining
<1> HIDE DEF k
<1>5. \A i \in Ids : entries'[i].file <=> entries[i].file /\ i \notin gone
  <2>1. ~Without(gone)[k].file
    BY <1>1, <1>2, WithoutFiles
  <2> QED
    BY <1>1, <1>2, <1>3, <1>4, <2>1, WithoutFiles, EntriesAreTyped
<1> QED
  BY <1>1, <1>5, DeleteStep

LEMMA WriteStep ==
  ASSUME NEW i \in Ids, NEW size, JobWrites(i, size)
  PROVE  UNCHANGED Store!vars \/ Store!Store(i)
<1>1. archive' = archive \cup {i} /\ UNCHANGED <<up, entries>>
  BY DEF JobWrites, memory
<1>2. CASE i \in archive
  BY <1>1, <1>2, StutterStep
<1>3. CASE i \notin archive
  <2>1. Kept' = [Kept EXCEPT ![i] = "dump"] /\ Kept[i] = "none"
    BY <1>1, <1>3 DEF Kept
  <2>2. OfferedOnBus' = OfferedOnBus
    BY <1>1 DEF OfferedOnBus
  <2> QED
    BY <1>1, <2>1, <2>2 DEF Store!Store, Store!None
<1> QED
  BY <1>2, <1>3

LEMMA ExitStep ==
  ASSUME Inv, NEW i \in Ids, NEW ok \in BOOLEAN, JobExits(i, ok)
  PROVE  UNCHANGED Store!vars
<1>1. /\ UNCHANGED <<up, archive>>
      /\ entries' = IF ok THEN entries
                    ELSE [entries EXCEPT ![i] = Failed(entries[i])]
  BY DEF JobExits, disk
<1>2. Failed(entries[i]).file <=> entries[i].file
  <2>1. entries[i] \in EntryType
    BY DEF Inv, Typed
  <2>2. CASE entries[i].status \in LiveStatus
    BY <2>1, <2>2 DEF Failed, EntryType
  <2>3. CASE entries[i].status \notin LiveStatus
    BY <2>3, EntriesAreTyped DEF Failed, Inv, Typed, LiveStatus
  <2> QED
    BY <2>2, <2>3
<1>3. \A j \in Ids : entries'[j] = entries[j] \/ (j = i /\ entries'[j] = Failed(entries[i]))
  BY <1>1 DEF Inv, Typed
<1> QED
  BY <1>1, <1>2, <1>3, StutterStep

LEMMA CloseStep ==
  ASSUME Inv, SizeInv, NEW i \in Ids, FileClosed(i)
  PROVE  UNCHANGED Store!vars \/ Store!Publish(i)
<1>1. /\ up /\ i \in archive /\ ~entries[i].file
      /\ entries' \in {entries, [entries EXCEPT ![i] = Offered]}
      /\ UNCHANGED <<up, archive>>
  BY DEF FileClosed, createEntry, SizeInv, jobs
<1>2. CASE entries' = entries
  BY <1>1, <1>2, StutterStep
<1>3. CASE entries' = [entries EXCEPT ![i] = Offered]
  <2>1. \A j \in Ids : entries'[j].file <=> entries[j].file \/ j = i
    BY <1>3, EntriesAreTyped DEF Inv, Typed
  <2>2. OfferedOnBus' = [OfferedOnBus EXCEPT ![i] = "dump"]
    BY <2>1 DEF OfferedOnBus
  <2>3. Kept' = [Kept EXCEPT ![i] = "dump"]
    BY <1>1 DEF Kept
  <2>4. Kept[i] = "dump" /\ OfferedOnBus[i] = "none"
    BY <1>1 DEF Kept, OfferedOnBus
  <2> QED
    BY <1>1, <2>2, <2>3, <2>4 DEF Store!Publish, Store!None
<1> QED
  BY <1>1, <1>2, <1>3

\* The daemon ends, perhaps in the middle of making room.
LEMMA StopStep ==
  ASSUME up, Dies, NEW gone \in SUBSET Store!Offered(Ids),
         Kept' = Store!Without(Kept, gone)
  PROVE  Store!Stop
<1>1. up' = FALSE
  BY DEF Dies
<1>2. OfferedOnBus' = [i \in Ids |-> "none"]
  BY EntriesAreTyped DEF Dies, OfferedOnBus
<1>3. /\ Kept' \in [Ids -> {"dump"} \cup {"none"}]
      /\ \A i \in Ids : \/ Kept'[i] = Kept[i]
                        \/ OfferedOnBus[i] # "none" /\ Kept'[i] = "none"
  BY Mapping DEF Store!Without, Store!Offered, Store!None
<1> QED
  BY <1>1, <1>2, <1>3 DEF Store!Stop, Store!None

LEMMA StartStep ==
  ASSUME Restart  PROVE Store!Start
<1>1. ~up /\ up' = TRUE /\ archive' = archive
  BY DEF Restart, disk
<1>2. \A i \in Ids : entries'[i].file <=> i \in archive
  BY EntriesAreTyped DEF Restart, restore
<1>3. OfferedOnBus' = Kept /\ Kept' = Kept
  BY <1>1, <1>2 DEF OfferedOnBus, Kept
<1> QED
  BY <1>1, <1>3 DEF Store!Start

\* Every step of the managers is a step of the store, or none.
LEMMA StoreStep == Inv /\ SizeInv /\ [Next]_vars => [Store!Next]_(Store!vars)
<1> SUFFICES ASSUME Inv, SizeInv, [Next]_vars
             PROVE  Store!Next \/ UNCHANGED Store!vars
  BY DEF Store!vars
<1>1. ASSUME NEW gone \in SUBSET Live, NEW freed \in SUBSET DirectoriesOf(gone),
             CreateDump(gone, freed) \/ CreateDumpBadOriginator(gone, freed)
      PROVE  \E is \in SUBSET Ids : Store!Delete(is)
  BY <1>1, LiveAreIds, CreateStep DEF CreateDump, CreateDumpBadOriginator
<1>2. ASSUME NEW gone \in SUBSET Live, NEW freed \in SUBSET DirectoriesOf(gone),
             RefuseDump(gone, freed)
      PROVE  \E is \in SUBSET Ids : Store!Delete(is)
  BY <1>2, LiveAreIds, WithoutFiles, DeleteStep DEF RefuseDump
<1>3. ASSUME NEW gone \in SUBSET Live, NEW freed \in SUBSET DirectoriesOf(gone),
             CreateCrashes(gone, freed)
      PROVE  Store!Stop
  <2>1. gone \in SUBSET Ids /\ RemoveDirectories(freed)
    BY <1>3, LiveAreIds DEF CreateCrashes
  <2>2. freed \in SUBSET Store!Offered(Ids) /\ Kept' = Store!Without(Kept, freed)
    BY <2>1, RemovedFromStore DEF Store!Offered
  <2> QED
    BY <1>3, <2>2, StopStep DEF CreateCrashes
<1>4. ASSUME FdrAction
      PROVE  UNCHANGED Store!vars
  BY <1>4, StutterStep DEF FdrAction, disk
<1>5. ASSUME NEW i \in Ids, DeleteEntry(i)
      PROVE  Store!Delete({i})
  <2>1. PICK freed \in SUBSET DirectoriesOf({i}) : RemoveDirectories(freed)
    BY <1>5 DEF DeleteEntry
  <2> QED
    BY <1>5, <2>1, WithoutFiles, DeleteStep DEF DeleteEntry
<1>6. ASSUME NEW i \in Ids, JobMakesDir(i)
      PROVE  UNCHANGED Store!vars
  BY <1>6, StutterStep DEF JobMakesDir, memory
<1>7. ASSUME NEW i \in Ids, FileClosed(i)
      PROVE  UNCHANGED Store!vars \/ Store!Publish(i)
  BY <1>7, CloseStep
<1>8. ASSUME NEW i \in Ids, NEW size \in 1 .. MAX_SIZE + EXCESS, JobWrites(i, size)
      PROVE  UNCHANGED Store!vars \/ Store!Store(i)
  BY <1>8, WriteStep
<1>9. ASSUME NEW i \in Ids, NEW ok \in BOOLEAN, JobExits(i, ok)
      PROVE  UNCHANGED Store!vars
  BY <1>9, ExitStep
<1>10. ASSUME Crash
       PROVE  Store!Stop
  <2>1. Kept' = Store!Without(Kept, {})
    BY <1>10 DEF Crash, disk, Kept, Store!Without
  <2>2. {} \in SUBSET Store!Offered(Ids)
    OBVIOUS
  <2> QED
    BY <1>10, <2>1, <2>2, StopStep DEF Crash
<1>11. ASSUME Restart
       PROVE  Store!Start
  BY <1>11, StartStep
<1>12. CASE UNCHANGED vars
  BY <1>12, StutterStep DEF vars, memory, disk
<1> QED
  BY <1>1, <1>2, <1>3, <1>4, <1>5, <1>6, <1>7, <1>8, <1>9, <1>10, <1>11, <1>12
     DEF Next, Store!Next

\* The BMC manager with its quota and rotation, and the fault log and FDR
\* managers with their limits, are dump stores that outlive the daemon.
THEOREM LimitedDumpIsADumpStore == Spec => ImplementsDumpStore
<1>1. Init => Store!Init
  BY EntriesAreTyped DEF Init, Store!Init, Store!None, Kept, OfferedOnBus
<1> QED
  BY <1>1, StoreStep, InvHolds, SizesHold, PTL
     DEF Spec, ImplementsDumpStore, Store!Spec

-----------------------------------------------------------------------------
(* What follows from the store, whatever implements it *)

StoreTypeOK ==
  /\ Kept \in [Ids -> {"dump", "none"}]
  /\ OfferedOnBus \in [Ids -> {"dump", "none"}]

StoreInv == StoreTypeOK /\ Store!OfferedAreKept

USE DEF Store!None

\* From the store's own actions alone: a dump is offered as it is kept, and what
\* happens to what is kept is a matter of whether it is on offer.
LEMMA StoreActions ==
  ASSUME StoreInv, Store!Next
  PROVE  /\ StoreInv'
         /\ \A id \in Ids :
              Kept[id] # "none" /\ OfferedOnBus[id] = "none"
                => Kept'[id] # "none"
<1> USE DEF StoreInv, StoreTypeOK, Store!OfferedAreKept
<1>1. ASSUME NEW id \in Ids, Store!Store(id) \/ Store!Publish(id)
      PROVE  /\ StoreInv'
             /\ \A i \in Ids : Kept[i] # "none" => Kept'[i] # "none"
  <2>1. CASE Store!Store(id)
    <3>1. PICK o \in {"dump"} : Kept' = [Kept EXCEPT ![id] = o]
      BY <2>1 DEF Store!Store
    <3>2. Kept[id] = "none" /\ OfferedOnBus' = OfferedOnBus
      BY <2>1 DEF Store!Store
    <3> QED
      BY <3>1, <3>2
  <2>2. CASE Store!Publish(id)
    <3>1. PICK o \in {"dump"} :
            /\ OfferedOnBus' = [OfferedOnBus EXCEPT ![id] = o]
            /\ \E saves \in BOOLEAN :
                 Kept' = [Kept EXCEPT ![id] = IF saves THEN o ELSE "dump"]
      BY <2>2 DEF Store!Publish
    <3>2. Kept[id] # "none" /\ OfferedOnBus[id] = "none"
      BY <2>2 DEF Store!Publish
    <3> QED
      BY <3>1, <3>2
  <2> QED
    BY <1>1, <2>1, <2>2
<1>2. ASSUME NEW ids \in SUBSET Ids, Store!Delete(ids)
      PROVE  /\ StoreInv'
             /\ \A i \in Ids : \/ Kept'[i] = Kept[i]
                               \/ OfferedOnBus[i] # "none" /\ Kept'[i] = "none"
  <2>1. PICK gone \in SUBSET Store!Offered(ids) : Kept' = Store!Without(Kept, gone)
    BY <1>2 DEF Store!Delete
  <2>2. OfferedOnBus' = Store!Without(OfferedOnBus, ids)
    BY <1>2 DEF Store!Delete
  <2> QED
    BY <2>1, <2>2 DEF Store!Without, Store!Offered
<1>3. ASSUME Store!Stop
      PROVE  /\ StoreInv'
             /\ \A i \in Ids :
                  \/ Kept'[i] = Kept[i]
                  \/ IF OfferedOnBus[i] # "none" THEN Kept'[i] = "none"
                                                 ELSE Kept[i] = "none"
  BY <1>3 DEF Store!Stop
<1>4. ASSUME Store!Start  PROVE StoreInv' /\ Kept' = Kept
  BY <1>4 DEF Store!Start
<1> QED
  BY <1>1, <1>2, <1>3, <1>4 DEF Store!Next

\* What a client relies on, however little space there is: what is on offer is on
\* disk; and what the quota, the rotation and the limits remove was on offer.
THEOREM DumpsAreKept ==
  Spec => /\ []Store!OfferedAreKept
          /\ Store!NoneGoesUnseen
<1>1. Store!Init => StoreInv
  BY DEF Store!Init, StoreInv, StoreTypeOK, Store!OfferedAreKept
<1>2. StoreInv /\ [Store!Next]_(Store!vars) => StoreInv'
  <2> SUFFICES ASSUME StoreInv, [Store!Next]_(Store!vars)  PROVE StoreInv'
    OBVIOUS
  <2>1. CASE Store!Next
    BY <2>1, StoreActions
  <2>2. CASE UNCHANGED Store!vars
    BY <2>2 DEF Store!vars, StoreInv, StoreTypeOK, Store!OfferedAreKept
  <2> QED
    BY <2>1, <2>2
<1>3. StoreInv => Store!OfferedAreKept
  BY DEF StoreInv
<1>4. StoreInv /\ [Store!Next]_(Store!vars)
        => [\A id \in Ids : Kept[id] # "none" /\ OfferedOnBus[id] = "none"
                              => Kept'[id] # "none"]_(Store!vars)
  BY StoreActions
<1> QED
  BY <1>1, <1>2, <1>3, <1>4, LimitedDumpIsADumpStore, PTL
     DEF ImplementsDumpStore, Store!Spec, Store!NoneGoesUnseen
=============================================================================
