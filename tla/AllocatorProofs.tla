--------------------------- MODULE AllocatorProofs ---------------------------
(***************************************************************************)
(* Proofs about the target allocator's assignment table, for every         *)
(* strategy and every set of collectors and targets.                       *)
(*                                                                         *)
(* Bookkeeping alone is not inductive: handleCollectors blanks the owner   *)
(* of an item whose placement failed without giving its counters back, and *)
(* that is harmless only because such an item never has an owner: under    *)
(* per-node its owner would still be in the freshly built node index.      *)
(* IInv adds what that argument needs.                                     *)
(***************************************************************************)
EXTENDS Allocator, FiniteSetTheorems, WellFoundedInduction, TLAPS

\* What the pending work of a call looks like while the lock is held.
CallShape ==
    /\ lock = "free" => removals = {} /\ additions = Nothing /\ realloc = {}
    /\ lock = "handleTargets" => realloc = {}
    /\ lock = "handleCollectors" => removals = {} /\ additions = Nothing
    /\ removals \subseteq Tracked
    /\ realloc \subseteq Tracked
    /\ \A t \in Target : additions[t] # NoItem => targetItems[t] = NoItem

\* The per-node index knows every node that has a live collector; the other
\* strategies have none.
IndexComplete ==
    IF Strategy = "per-node"
    THEN \A c \in Live : collectorByNode[collectors[c]] # NoCollector
    ELSE \A n \in Node : collectorByNode[n] = NoCollector

\* Without a fallback, an item without a node is never assigned.
NodelessUnowned ==
    Strategy = "per-node" /\ Fallback = "none" =>
        \A t \in Tracked : targetItems[t].node = NoNode => collectorName[t] = NoCollector

\* EveryTargetPlaced and HistoryIndependent for the items a re-allocation has
\* already handled.
PlacedSoFar ==
    Live # {} => \A t \in Tracked \ realloc :
        collectorName[t] \in Live \/ Unplaceable(t)

HashedSoFar ==
    Live # {} =>
        \A t \in Tracked \ realloc : StrategyFor(targetItems[t]) = "consistent-hashing" =>
            collectorName[t] = LocateKey[Live][targetItems[t].url]

\* Readers' view is current when the lock is free, and a call under way
\* changes only one of the two sets.
PublishedInSync ==
    /\ lock = "free" => published = View
    /\ lock = "handleTargets" => published.live = Live
    /\ lock = "handleCollectors" => published.tracked = Tracked

IInv ==
    /\ TypeOK
    /\ Bookkeeping
    /\ StrategyInSync
    /\ CallShape
    /\ IndexComplete
    /\ NodelessUnowned
    /\ NodeLocal
    /\ PlacedSoFar
    /\ HashedSoFar
    /\ PublishedInSync

-----------------------------------------------------------------------------
(* Counting and minima.                                                     *)

\* A non-empty set of naturals has a least element.
LEMMA LeastNatural ==
    ASSUME NEW S \in SUBSET Nat, S # {}
    PROVE  \E n \in S : \A k \in S : n <= k
<1>1. IsWellFoundedOn(OpToRel(<, Nat), Nat)
  BY NatLessThanWellFounded
<1>2. PICK n \in S : \A k \in S : ~ (<<k, n>> \in OpToRel(<, Nat))
  BY <1>1, WFMin
<1>3. \A k \in S : ~ (k < n)
  BY <1>2 DEF OpToRel
<1> QED
  BY <1>3

\* Re-pointing one element of f changes the size of a fibre by what Shift says.
LEMMA FibreCount ==
    ASSUME NEW S \in SUBSET Target, NEW f, f \in [Target -> Collector \cup {NoCollector}],
           NEW t \in Target, NEW c \in Collector \cup {NoCollector}, NEW d \in Collector
    PROVE  /\ Cardinality({x \in S : f[x] = d}) \in Nat
           /\ Cardinality({x \in S : [f EXCEPT ![t] = c][x] = d}) \in Nat
           /\ Cardinality({x \in S : [f EXCEPT ![t] = c][x] = d})
                = Cardinality({x \in S : f[x] = d})
                    + (IF t \in S
                       THEN (IF d = c THEN 1 ELSE 0) - (IF d = f[t] THEN 1 ELSE 0)
                       ELSE 0)
<1> DEFINE A == {x \in S : f[x] = d}
           B == {x \in S : [f EXCEPT ![t] = c][x] = d}
<1>1. IsFiniteSet(A) /\ IsFiniteSet(B)
  BY FiniteAssumption, FS_Subset
<1>2. Cardinality(A) \in Nat /\ Cardinality(B) \in Nat
  BY <1>1, FS_CardinalityType
<1>3. CASE t \in S /\ d = c /\ d # f[t]
  <2>1. B = A \cup {t} /\ t \notin A
    BY <1>3
  <2> QED
    BY <2>1, <1>1, <1>2, <1>3, FS_AddElement
<1>4. CASE t \in S /\ d # c /\ d = f[t]
  <2>1. B = A \ {t} /\ t \in A
    BY <1>4
  <2> QED
    BY <2>1, <1>1, <1>2, <1>4, FS_RemoveElement
<1>5. CASE t \in S /\ (d = c <=> d = f[t])
  <2>1. B = A
    BY <1>5
  <2> QED
    BY <2>1, <1>2, <1>5
<1>6. CASE t \notin S
  <2>1. B = A
    BY <1>6
  <2> QED
    BY <2>1, <1>2, <1>6
<1> QED
  BY <1>3, <1>4, <1>5, <1>6

-----------------------------------------------------------------------------
(* The strategies.                                                          *)

\* The three-level comparison of least-weighted has a minimum: the strategy
\* always finds a collector when there is one.
LEMMA LeastWeightedTotal ==
    ASSUME TypeOK, NEW t \in Target, Live # {}
    PROVE  \E c \in Live : LeastWeighted(t, c)
<1>1. CASE collectorName[t] \in Live
  BY <1>1 DEF LeastWeighted
<1>2. CASE collectorName[t] \notin Live
  <2> DEFINE j == JobName[t]
             N == {numTargets[c] : c \in Live}
  <2>j. j \in Job
    BY JobAssumption
  <2>l. \A c \in Live : /\ c \in Collector
                        /\ numTargets[c] \in Nat
                        /\ targetsPerJob[c][j] \in Nat
                        /\ NameRank[c] \in Nat
    BY <2>j, RankAssumption DEF TypeOK, Live
  <2> HIDE DEF j
  <2>1. PICK n \in N : \A k \in N : n <= k
    <3>1. N \in SUBSET Nat /\ N # {}
      BY <2>l
    <3> HIDE DEF N
    <3> QED
      BY <3>1, LeastNatural
  <2> DEFINE L1 == {c \in Live : numTargets[c] = n}
             J == {targetsPerJob[c][j] : c \in L1}
  <2>2. L1 # {} /\ \A c \in L1, d \in Live : numTargets[c] <= numTargets[d]
    BY <2>1
  <2>3. PICK p \in J : \A k \in J : p <= k
    <3>1. J \in SUBSET Nat /\ J # {}
      BY <2>l, <2>2
    <3> HIDE DEF J
    <3> QED
      BY <3>1, LeastNatural
  <2> DEFINE L2 == {c \in L1 : targetsPerJob[c][j] = p}
             R == {NameRank[c] : c \in L2}
  <2>4. L2 # {} /\ \A c \in L2, d \in L1 : targetsPerJob[c][j] <= targetsPerJob[d][j]
    BY <2>3
  <2>5. PICK r \in R : \A k \in R : r <= k
    <3>1. R \in SUBSET Nat /\ R # {}
      BY <2>l, <2>4
    <3> HIDE DEF R
    <3> QED
      BY <3>1, LeastNatural
  <2>6. PICK c \in L2 : \A d \in L2 : NameRank[c] <= NameRank[d]
    BY <2>5
  <2>7. ASSUME NEW d \in Live PROVE LighterFor(j, c, d)
    <3>1. CASE d \notin L1
      BY <3>1, <2>2, <2>6, <2>l DEF LighterFor
    <3>2. CASE d \in L1 /\ d \notin L2
      BY <3>2, <2>4, <2>6, <2>l DEF LighterFor
    <3>3. CASE d \in L2
      BY <3>3, <2>6, <2>l DEF LighterFor
    <3> QED
      BY <3>1, <3>2, <3>3
  <2> QED
    BY <1>2, <2>6, <2>7 DEF LeastWeighted, j
<1> QED
  BY <1>1, <1>2

\* What a strategy returns, and what an error from it means.
LEMMA StrategyContract ==
    ASSUME IInv, NEW t \in Target, NEW m \in Meta, Live # {},
           targetItems[t] = NoItem \/ m = targetItems[t]
    PROVE  /\ \A c \in Collector : GetCollectorForTarget(t, m, c) =>
                 /\ c \in Live
                 /\ Strategy = "per-node" /\ m.node # NoNode => collectors[c] = m.node
                 /\ Strategy = "per-node" /\ m.node = NoNode => Fallback # "none"
                 /\ StrategyFor(m) = "consistent-hashing" => c = LocateKey[Live][m.url]
           /\ (~ \E c \in Collector : GetCollectorForTarget(t, m, c)) =>
                 /\ collectorName[t] = NoCollector
                 /\ Strategy = "per-node"
                 /\ IF m.node = NoNode
                    THEN Fallback = "none"
                    ELSE \A c \in Live : collectors[c] # m.node
<1> USE DEF IInv
<1>l. Live \in SUBSET Collector
  BY DEF Live
<1>u. m.url \in URL /\ m.node \in Node \cup {NoNode}
  BY MetaAssumption DEF URL
<1>1. \A c : LeastWeighted(t, c) => c \in Live
  BY DEF LeastWeighted
<1>2. \A c : ConsistentHashing(m, c) <=> c = LocateKey[Live][m.url]
  BY <1>l, <1>u, RingAssumption DEF ConsistentHashing, StrategyInSync
<1>3. \E c \in Collector : LeastWeighted(t, c)
  BY <1>l, LeastWeightedTotal
<1>4. \E c \in Collector : ConsistentHashing(m, c)
  BY <1>l, <1>u, <1>2, RingAssumption
<1>5. CASE Strategy = "least-weighted"
  BY <1>5, <1>1, <1>3 DEF StrategyFor, GetCollectorForTarget
<1>6. CASE Strategy = "consistent-hashing"
  BY <1>6, <1>2, <1>4 DEF StrategyFor, GetCollectorForTarget, ConsistentHashing
<1>7. CASE Strategy = "per-node" /\ m.node = NoNode
  <2>1. CASE Fallback = "none"
    <3>1. collectorName[t] = NoCollector
      <4>1. CASE targetItems[t] = NoItem
        BY <4>1 DEF Bookkeeping, Tracked, TypeOK
      <4>2. CASE targetItems[t] # NoItem
        BY <4>2, <2>1, <1>7 DEF NodelessUnowned, Tracked
      <4> QED
        BY <4>1, <4>2
    <3> QED
      BY <3>1, <2>1, <1>7 DEF StrategyFor, GetCollectorForTarget
  <2>2. CASE Fallback = "least-weighted"
    BY <2>2, <1>7, <1>1, <1>3 DEF StrategyFor, GetCollectorForTarget
  <2>3. CASE Fallback = "consistent-hashing"
    BY <2>3, <1>7, <1>2, <1>4 DEF StrategyFor, GetCollectorForTarget, ConsistentHashing
  <2> QED
    BY <2>1, <2>2, <2>3, StrategyAssumption
<1>8. CASE Strategy = "per-node" /\ m.node # NoNode
  <2>1. \A c \in Collector : GetCollectorForTarget(t, m, c) <=> c = collectorByNode[m.node]
    BY <1>8 DEF StrategyFor, GetCollectorForTarget
  <2>2. \A c \in Collector : GetCollectorForTarget(t, m, c) =>
            c \in Live /\ collectors[c] = m.node
    BY <2>1, <1>8, <1>u, NamesAssumption DEF StrategyInSync
  <2>3. ASSUME ~ \E c \in Collector : GetCollectorForTarget(t, m, c)
        PROVE  collectorName[t] = NoCollector /\ \A c \in Live : collectors[c] # m.node
    <3>1. collectorByNode[m.node] = NoCollector
      BY <2>1, <2>3, <1>u, <1>8 DEF TypeOK
    <3>2. \A c \in Live : collectors[c] # m.node
      BY <3>1, <1>8 DEF IndexComplete
    <3>3. CASE targetItems[t] = NoItem
      BY <3>2, <3>3 DEF Bookkeeping, Tracked, TypeOK
    <3>4. CASE targetItems[t] # NoItem
      <4>1. t \in Tracked /\ m = targetItems[t]
        BY <3>4 DEF Tracked
      <4> QED
        BY <4>1, <3>2, <1>8 DEF NodeLocal, Bookkeeping
    <3> QED
      BY <3>2, <3>3, <3>4
  <2> QED
    BY <2>2, <2>3, <1>8 DEF StrategyFor
<1> QED
  BY <1>5, <1>6, <1>7, <1>8, StrategyAssumption DEF StrategyNames

-----------------------------------------------------------------------------
(* Moving one item.                                                         *)

\* The index and the counters agree with Item.CollectorName.
Records ==
    /\ \A c \in Collector, j \in Job : served[c][j] = OwnedOfJob(c, j)
    /\ \A c \in Collector : numTargets[c] = Cardinality(Owned(c))
    /\ \A c \in Collector, j \in Job :
          targetsPerJob[c][j] = Cardinality(OwnedOfJob(c, j))

RecordTypes ==
    /\ numTargets \in [Collector -> Nat]
    /\ targetsPerJob \in [Collector -> [Job -> Nat]]
    /\ collectorName \in [Target -> Collector \cup {NoCollector}]
    /\ served \in [Collector -> [Job -> SUBSET Target]]

\* unassign-then-assign keeps index, counters and owner in agreement.
LEMMA MoveKeepsRecords ==
    ASSUME TypeOK, Bookkeeping, NEW t \in Target,
           NEW c \in Collector \cup {NoCollector}, Move(t, c)
    PROVE  RecordTypes' /\ Records'
<1>1. collectorName \in [Target -> Collector \cup {NoCollector}]
  BY DEF TypeOK
<1>2. \A d \in Collector : d = collectorName[t] => d \in Live
  BY NamesAssumption DEF Bookkeeping
<1>3. \A d \in Collector :
         Shift(t, c, d) = (IF d = c THEN 1 ELSE 0) - (IF d = collectorName[t] THEN 1 ELSE 0)
  BY <1>2 DEF Shift
<1>4. collectorName' = [collectorName EXCEPT ![t] = c]
  BY DEF Move
<1>5. collectorName' \in [Target -> Collector \cup {NoCollector}]
  BY <1>1, <1>4
<1>f. ASSUME NEW S \in SUBSET Target, NEW d \in Collector
      PROVE  /\ Cardinality({x \in S : collectorName[x] = d}) \in Nat
             /\ Cardinality({x \in S : [collectorName EXCEPT ![t] = c][x] = d}) \in Nat
             /\ Cardinality({x \in S : [collectorName EXCEPT ![t] = c][x] = d})
                  = Cardinality({x \in S : collectorName[x] = d})
                      + (IF t \in S
                         THEN (IF d = c THEN 1 ELSE 0)
                                - (IF d = collectorName[t] THEN 1 ELSE 0)
                         ELSE 0)
  BY <1>1, FibreCount
<1>7. ASSUME NEW d \in Collector
      PROVE  numTargets'[d] = Cardinality(Owned(d)') /\ numTargets'[d] \in Nat
  <2>1. Owned(d) = {x \in Target : collectorName[x] = d}
    BY DEF Owned
  <2>2. Owned(d)' = {x \in Target : [collectorName EXCEPT ![t] = c][x] = d}
    BY <1>4 DEF Owned
  <2>3. /\ Cardinality(Owned(d)') \in Nat
        /\ Cardinality(Owned(d)') = Cardinality(Owned(d)) + Shift(t, c, d)
    BY <2>1, <2>2, <1>1, <1>3, FibreCount
  <2>4. numTargets'[d] = numTargets[d] + Shift(t, c, d)
    BY DEF Move
  <2>5. numTargets[d] = Cardinality(Owned(d))
    BY DEF Bookkeeping
  <2> QED
    BY <2>3, <2>4, <2>5
<1>8. ASSUME NEW d \in Collector, NEW j \in Job
      PROVE  /\ targetsPerJob'[d][j] = Cardinality(OwnedOfJob(d, j)')
             /\ targetsPerJob'[d][j] \in Nat
  <2> DEFINE S == {x \in Target : JobName[x] = j}
  <2>1. OwnedOfJob(d, j) = {x \in S : collectorName[x] = d}
    BY DEF OwnedOfJob
  <2>2. OwnedOfJob(d, j)' = {x \in S : [collectorName EXCEPT ![t] = c][x] = d}
    BY <1>4 DEF OwnedOfJob
  <2>s. t \in S <=> j = JobName[t]
    OBVIOUS
  <2>t. S \in SUBSET Target
    OBVIOUS
  <2> HIDE DEF S
  <2>3. /\ Cardinality(OwnedOfJob(d, j)) \in Nat
        /\ Cardinality(OwnedOfJob(d, j)') \in Nat
        /\ Cardinality(OwnedOfJob(d, j)') = Cardinality(OwnedOfJob(d, j))
              + (IF t \in S
                 THEN (IF d = c THEN 1 ELSE 0) - (IF d = collectorName[t] THEN 1 ELSE 0)
                 ELSE 0)
    <3>1. /\ Cardinality({x \in S : collectorName[x] = d}) \in Nat
          /\ Cardinality({x \in S : [collectorName EXCEPT ![t] = c][x] = d}) \in Nat
          /\ Cardinality({x \in S : [collectorName EXCEPT ![t] = c][x] = d})
                = Cardinality({x \in S : collectorName[x] = d})
                    + (IF t \in S
                       THEN (IF d = c THEN 1 ELSE 0)
                              - (IF d = collectorName[t] THEN 1 ELSE 0)
                       ELSE 0)
      BY <2>t, <1>f
    <3> QED
      BY <3>1, <2>1, <2>2
  <2>4. targetsPerJob'[d][j] =
           targetsPerJob[d][j] + (IF j = JobName[t] THEN Shift(t, c, d) ELSE 0)
    BY DEF Move
  <2>5. targetsPerJob[d][j] = Cardinality(OwnedOfJob(d, j))
    BY DEF Bookkeeping
  <2> QED
    BY <2>3, <2>4, <2>5, <2>s, <1>3
<1>9. ASSUME NEW d \in Collector, NEW j \in Job
      PROVE  served'[d][j] = OwnedOfJob(d, j)'
  <2>1. served'[d][j] =
           IF j # JobName[t] THEN served[d][j]
           ELSE IF d = c THEN served[d][j] \cup {t}
           ELSE IF d = collectorName[t] /\ d \in Live THEN served[d][j] \ {t}
           ELSE served[d][j]
    BY DEF Move
  <2>2. served[d][j] = OwnedOfJob(d, j)
    BY DEF Bookkeeping
  <2> QED
    BY <2>1, <2>2, <1>1, <1>2, <1>4 DEF OwnedOfJob
<1>10. numTargets' \in [Collector -> Nat]
  BY <1>7 DEF Move
<1>11. targetsPerJob' \in [Collector -> [Job -> Nat]]
  BY <1>8 DEF Move
<1>12. served' \in [Collector -> [Job -> SUBSET Target]]
  <2>1. \A d \in Collector, j \in Job : served'[d][j] \in SUBSET Target
    BY <1>9 DEF OwnedOfJob
  <2> QED
    BY <2>1 DEF Move
<1> QED
  BY <1>5, <1>7, <1>8, <1>9, <1>10, <1>11, <1>12 DEF Records, RecordTypes

-----------------------------------------------------------------------------
(* One step of each kind.                                                   *)

\* Placing or re-placing an item, successfully or not, keeps the tables
\* consistent and leaves the item where its strategy wants it.
LEMMA AddKeepsTables ==
    ASSUME IInv, NEW t \in Target, NEW m \in Meta, AddTargetToTargetItems(t, m),
           targetItems[t] = NoItem \/ m = targetItems[t]
    PROVE  /\ RecordTypes'
           /\ targetItems' \in [Target -> Meta \cup {NoItem}]
           /\ Bookkeeping' /\ StrategyInSync' /\ IndexComplete'
           /\ NodelessUnowned' /\ NodeLocal'
           /\ Live' = Live /\ Tracked' = Tracked \cup {t} /\ targetItems'[t] = m
           /\ \A x \in Target : x # t =>
                 collectorName'[x] = collectorName[x] /\ targetItems'[x] = targetItems[x]
           /\ Live # {} =>
                 /\ collectorName'[t] \in Live \/ Unplaceable(t)'
                 /\ StrategyFor(m) = "consistent-hashing" =>
                       collectorName'[t] = LocateKey[Live][m.url]
<1> USE DEF IInv
<1>1. /\ targetItems' = [targetItems EXCEPT ![t] = m]
      /\ UNCHANGED <<collectors, members, collectorByNode, published>>
  BY DEF AddTargetToTargetItems, strategy
<1>2. targetItems' \in [Target -> Meta \cup {NoItem}] /\ targetItems'[t] = m
  BY <1>1 DEF TypeOK
<1>3. Live' = Live
  BY <1>1 DEF Live
<1>4. Tracked' = Tracked \cup {t}
  BY <1>1, <1>2, MetaAssumption DEF Tracked, TypeOK
<1>5. StrategyInSync' /\ IndexComplete'
  BY <1>1, <1>3 DEF StrategyInSync, IndexComplete
<1>6. \A x \in Target : x # t => targetItems'[x] = targetItems[x]
  BY <1>1 DEF TypeOK
<1>7. RecordTypes /\ Records
  BY DEF TypeOK, RecordTypes, Bookkeeping, Records
<1>8. \A x \in Target : collectorName[x] # NoCollector =>
          collectorName[x] \in Live /\ x \in Tracked
  BY DEF Bookkeeping
<1>9. t \in Tracked => m = targetItems[t]
  BY DEF Tracked
<1>10. CASE Live = {}
  <2>1. UNCHANGED <<numTargets, targetsPerJob, served, collectorName>>
    BY <1>10 DEF AddTargetToTargetItems
  <2>2. RecordTypes' /\ Records'
    BY <2>1, <1>7 DEF RecordTypes, Records, Owned, OwnedOfJob
  <2>3. \A x \in Target : collectorName'[x] = NoCollector
    BY <2>1, <1>8, <1>10
  <2>4. Bookkeeping'
    BY <2>2, <2>3 DEF Records, Bookkeeping
  <2>5. NodelessUnowned' /\ NodeLocal'
    BY <2>3 DEF NodelessUnowned, NodeLocal, Tracked
  <2> QED
    BY <1>2, <1>3, <1>4, <1>5, <1>6, <1>10, <2>1, <2>2, <2>4, <2>5
<1>11. ASSUME Live # {}, NEW c \in Collector, GetCollectorForTarget(t, m, c), Move(t, c)
       PROVE  /\ RecordTypes' /\ Bookkeeping' /\ NodelessUnowned' /\ NodeLocal'
              /\ \A x \in Target : x # t => collectorName'[x] = collectorName[x]
              /\ collectorName'[t] \in Live
              /\ StrategyFor(m) = "consistent-hashing" =>
                    collectorName'[t] = LocateKey[Live][m.url]
  <2>1. /\ c \in Live
        /\ Strategy = "per-node" /\ m.node # NoNode => collectors[c] = m.node
        /\ Strategy = "per-node" /\ m.node = NoNode => Fallback # "none"
        /\ StrategyFor(m) = "consistent-hashing" => c = LocateKey[Live][m.url]
    BY <1>11, StrategyContract
  <2>2. RecordTypes' /\ Records'
    BY <1>11, MoveKeepsRecords
  <2>3. collectorName' = [collectorName EXCEPT ![t] = c]
    BY <1>11 DEF Move
  <2>4. /\ collectorName'[t] = c
        /\ \A x \in Target : x # t => collectorName'[x] = collectorName[x]
    BY <2>3 DEF TypeOK
  <2>5. Bookkeeping'
    BY <2>1, <2>2, <2>4, <1>3, <1>4, <1>8 DEF Records, Bookkeeping
  <2>6. NodelessUnowned'
    BY <2>1, <2>4, <1>2, <1>4, <1>6 DEF NodelessUnowned, Tracked
  <2>7. NodeLocal'
    BY <2>1, <2>4, <1>1, <1>2, <1>4, <1>6 DEF NodeLocal, Tracked
  <2> QED
    BY <2>1, <2>2, <2>4, <2>5, <2>6, <2>7
<1>12. ASSUME Live # {}, ~ \E c \in Collector : GetCollectorForTarget(t, m, c),
              collectorName' = [collectorName EXCEPT ![t] = NoCollector],
              UNCHANGED <<numTargets, targetsPerJob, served>>
       PROVE  /\ RecordTypes' /\ Bookkeeping' /\ NodelessUnowned' /\ NodeLocal'
              /\ collectorName' = collectorName
              /\ Unplaceable(t)'
              /\ StrategyFor(m) # "consistent-hashing"
  <2>1. /\ collectorName[t] = NoCollector
        /\ Strategy = "per-node"
        /\ IF m.node = NoNode THEN Fallback = "none"
           ELSE \A c \in Live : collectors[c] # m.node
    BY <1>12, StrategyContract
  <2>2. collectorName' = collectorName
    BY <2>1, <1>12 DEF TypeOK
  <2>3. RecordTypes' /\ Records'
    BY <2>2, <1>7, <1>12 DEF RecordTypes, Records, Owned, OwnedOfJob
  <2>4. Bookkeeping'
    BY <2>2, <2>3, <1>3, <1>4, <1>8 DEF Records, Bookkeeping
  <2>5. NodelessUnowned'
    BY <2>1, <2>2, <1>4, <1>6 DEF NodelessUnowned, Tracked
  <2>6. NodeLocal'
    BY <2>1, <2>2, <1>1, <1>4, <1>6 DEF NodeLocal, Tracked
  <2>7. Unplaceable(t)'
    BY <2>1, <1>1, <1>2, <1>3 DEF Unplaceable
  <2>8. StrategyFor(m) # "consistent-hashing"
    BY <2>1 DEF StrategyFor
  <2> QED
    BY <2>2, <2>3, <2>4, <2>5, <2>6, <2>7, <2>8
<1>13. CASE Live # {}
  <2>1. \/ \E c \in Collector : GetCollectorForTarget(t, m, c) /\ Move(t, c)
        \/ /\ ~ \E c \in Collector : GetCollectorForTarget(t, m, c)
           /\ collectorName' = [collectorName EXCEPT ![t] = NoCollector]
           /\ UNCHANGED <<numTargets, targetsPerJob, served>>
    BY <1>13 DEF AddTargetToTargetItems
  <2>2. CASE \E c \in Collector : GetCollectorForTarget(t, m, c) /\ Move(t, c)
    BY <2>2, <1>2, <1>3, <1>4, <1>5, <1>6, <1>11, <1>13
  <2>3. CASE /\ ~ \E c \in Collector : GetCollectorForTarget(t, m, c)
             /\ collectorName' = [collectorName EXCEPT ![t] = NoCollector]
             /\ UNCHANGED <<numTargets, targetsPerJob, served>>
    BY <2>3, <1>2, <1>3, <1>4, <1>5, <1>6, <1>12, <1>13
  <2> QED
    BY <2>1, <2>2, <2>3
<1> QED
  BY <1>10, <1>13

\* Taking the lock in SetTargets only fills in the work to do.
LEMMA SetTargetsKeepsIInv ==
    ASSUME IInv, NEW new \in [Target -> Meta \cup {NoItem}], SetTargets(new)
    PROVE  IInv'
<1> USE DEF IInv
<1>1. /\ UNCHANGED <<collectors, numTargets, targetsPerJob, targetItems, collectorName,
                     served, members, collectorByNode, realloc, published>>
      /\ lock = "free" /\ lock' = "handleTargets"
      /\ removals' = {t \in Tracked : new[t] = NoItem}
      /\ additions' = [t \in Target |-> IF t \in Tracked THEN NoItem ELSE new[t]]
  BY DEF SetTargets, tables, strategy
<1>2. Live' = Live /\ Tracked' = Tracked /\ \A t \in Target : Unplaceable(t)' <=> Unplaceable(t)
  BY <1>1 DEF Live, Tracked, Unplaceable
<1>3. TypeOK'
  BY <1>1 DEF TypeOK, Tracked
<1>4. Bookkeeping'
  BY <1>1, <1>2 DEF Bookkeeping, Owned, OwnedOfJob
<1>5. StrategyInSync' /\ IndexComplete' /\ NodelessUnowned' /\ NodeLocal'
  BY <1>1, <1>2 DEF StrategyInSync, IndexComplete, NodelessUnowned, NodeLocal
<1>6. CallShape'
  BY <1>1, <1>2 DEF CallShape, Tracked
<1>7. PlacedSoFar' /\ HashedSoFar'
  BY <1>1, <1>2 DEF PlacedSoFar, HashedSoFar, StrategyFor, Tracked
<1>8. PublishedInSync'
  BY <1>1, <1>2 DEF PublishedInSync, View
<1> QED
  BY <1>3, <1>4, <1>5, <1>6, <1>7, <1>8

\* handleTargets: removing an item.
LEMMA RemoveTargetKeepsIInv ==
    ASSUME IInv, NEW t \in Target, RemoveTarget(t)
    PROVE  IInv'
<1> USE DEF IInv
<1>1. /\ UNCHANGED <<collectors, members, collectorByNode, lock, additions, realloc, published>>
      /\ lock = "handleTargets" /\ t \in removals /\ removals' = removals \ {t}
      /\ targetItems' = [targetItems EXCEPT ![t] = NoItem]
      /\ Move(t, NoCollector)
  BY DEF RemoveTarget, strategy
<1>2. Live' = Live
  BY <1>1 DEF Live
<1>3. Tracked' = Tracked \ {t} /\ \A x \in Target : x # t => targetItems'[x] = targetItems[x]
  BY <1>1 DEF Tracked, TypeOK
<1>4. RecordTypes' /\ Records'
  BY <1>1, MoveKeepsRecords
<1>5. /\ collectorName'[t] = NoCollector
      /\ \A x \in Target : x # t => collectorName'[x] = collectorName[x]
  BY <1>1 DEF Move, TypeOK
<1>6. TypeOK'
  BY <1>1, <1>4 DEF TypeOK, RecordTypes
<1>7. Bookkeeping'
  <2>1. \A x \in Target : collectorName[x] # NoCollector =>
           collectorName[x] \in Live /\ x \in Tracked
    BY DEF Bookkeeping
  <2> QED
    BY <2>1, <1>2, <1>3, <1>4, <1>5 DEF Records, Bookkeeping
<1>8. StrategyInSync' /\ IndexComplete'
  BY <1>1, <1>2 DEF StrategyInSync, IndexComplete
<1>9. NodelessUnowned' /\ NodeLocal'
  BY <1>1, <1>3, <1>5 DEF NodelessUnowned, NodeLocal, Tracked
<1>10. CallShape'
  BY <1>1, <1>3 DEF CallShape, Tracked, TypeOK
<1>11. \A x \in Tracked' : x # t /\ x \in Tracked /\ (Unplaceable(x)' <=> Unplaceable(x))
  BY <1>1, <1>2, <1>3 DEF Unplaceable, Tracked
<1>12. PlacedSoFar' /\ HashedSoFar'
  BY <1>1, <1>2, <1>3, <1>5, <1>11 DEF PlacedSoFar, HashedSoFar, StrategyFor, Tracked
<1>13. PublishedInSync'
  BY <1>1, <1>2 DEF PublishedInSync
<1> QED
  BY <1>6, <1>7, <1>8, <1>9, <1>10, <1>12, <1>13

\* handleTargets: adding an item.
LEMMA AddTargetKeepsIInv ==
    ASSUME IInv, NEW t \in Target, AddTarget(t)
    PROVE  IInv'
<1> USE DEF IInv
<1> DEFINE m == additions[t]
<1>1. /\ UNCHANGED <<collectors, members, collectorByNode, lock, removals, realloc, published>>
      /\ lock = "handleTargets" /\ m # NoItem
      /\ additions' = [additions EXCEPT ![t] = NoItem]
      /\ AddTargetToTargetItems(t, m)
  BY DEF AddTarget, AddTargetToTargetItems, strategy
<1>2. m \in Meta /\ targetItems[t] = NoItem
  BY <1>1 DEF TypeOK, CallShape
<1> HIDE DEF m
<1>3. /\ RecordTypes'
      /\ targetItems' \in [Target -> Meta \cup {NoItem}]
      /\ Bookkeeping' /\ StrategyInSync' /\ IndexComplete'
      /\ NodelessUnowned' /\ NodeLocal'
      /\ Live' = Live /\ Tracked' = Tracked \cup {t} /\ targetItems'[t] = m
      /\ \A x \in Target : x # t =>
            collectorName'[x] = collectorName[x] /\ targetItems'[x] = targetItems[x]
      /\ Live # {} =>
            /\ collectorName'[t] \in Live \/ Unplaceable(t)'
            /\ StrategyFor(m) = "consistent-hashing" =>
                  collectorName'[t] = LocateKey[Live][m.url]
  BY <1>1, <1>2, AddKeepsTables
<1>4. TypeOK'
  BY <1>1, <1>3 DEF TypeOK, RecordTypes
<1>5. CallShape'
  BY <1>1, <1>3 DEF CallShape, TypeOK
<1>6. \A x \in Tracked : x # t => (Unplaceable(x)' <=> Unplaceable(x))
  BY <1>1, <1>3 DEF Unplaceable, Tracked
<1>7. PlacedSoFar'
  BY <1>1, <1>3, <1>6 DEF PlacedSoFar, Tracked
<1>8. HashedSoFar'
  BY <1>1, <1>3 DEF HashedSoFar, StrategyFor, Tracked
<1>9. PublishedInSync'
  BY <1>1, <1>3 DEF PublishedInSync
<1> QED
  BY <1>3, <1>4, <1>5, <1>7, <1>8, <1>9

\* handleCollectors: re-allocating an item.
LEMMA ReallocateKeepsIInv ==
    ASSUME IInv, NEW t \in Target, Reallocate(t)
    PROVE  IInv'
<1> USE DEF IInv
<1> DEFINE m == targetItems[t]
<1>1. /\ UNCHANGED <<collectors, members, collectorByNode, lock, removals, additions, published>>
      /\ lock = "handleCollectors" /\ t \in realloc
      /\ realloc' = realloc \ {t}
      /\ AddTargetToTargetItems(t, m)
  BY DEF Reallocate, AddTargetToTargetItems, strategy
<1>2. m \in Meta /\ t \in Tracked /\ m = targetItems[t]
  BY <1>1 DEF TypeOK, CallShape, Tracked
<1> HIDE DEF m
<1>3. /\ RecordTypes'
      /\ targetItems' \in [Target -> Meta \cup {NoItem}]
      /\ Bookkeeping' /\ StrategyInSync' /\ IndexComplete'
      /\ NodelessUnowned' /\ NodeLocal'
      /\ Live' = Live /\ Tracked' = Tracked \cup {t} /\ targetItems'[t] = m
      /\ \A x \in Target : x # t =>
            collectorName'[x] = collectorName[x] /\ targetItems'[x] = targetItems[x]
      /\ Live # {} =>
            /\ collectorName'[t] \in Live \/ Unplaceable(t)'
            /\ StrategyFor(m) = "consistent-hashing" =>
                  collectorName'[t] = LocateKey[Live][m.url]
  BY <1>1, <1>2, AddKeepsTables
<1>t. Tracked' = Tracked
  BY <1>2, <1>3
<1>4. TypeOK'
  BY <1>1, <1>3 DEF TypeOK, RecordTypes
<1>5. CallShape'
  BY <1>1, <1>2, <1>3, <1>t DEF CallShape
<1>6. \A x \in Tracked : x # t => (Unplaceable(x)' <=> Unplaceable(x))
  BY <1>1, <1>3 DEF Unplaceable, Tracked
<1>7. PlacedSoFar'
  BY <1>1, <1>3, <1>t, <1>6 DEF PlacedSoFar, Tracked
<1>8. HashedSoFar'
  BY <1>1, <1>3, <1>t DEF HashedSoFar, StrategyFor, Tracked
<1>9. PublishedInSync'
  BY <1>1, <1>3, <1>t DEF PublishedInSync
<1> QED
  BY <1>3, <1>4, <1>5, <1>7, <1>8, <1>9

\* Releasing the lock.
LEMMA UnlockKeepsIInv ==
    ASSUME IInv, Unlock
    PROVE  IInv'
<1> USE DEF IInv
<1>1. /\ UNCHANGED <<collectors, numTargets, targetsPerJob, targetItems, collectorName,
                     served, members, collectorByNode, removals, additions, realloc>>
      /\ removals = {} /\ additions = Nothing /\ realloc = {}
      /\ lock' = "free" /\ published' = View
  BY DEF Unlock, tables, strategy
<1>2. Live' = Live /\ Tracked' = Tracked /\ View' = View
      /\ \A t \in Target : Unplaceable(t)' <=> Unplaceable(t)
  BY <1>1 DEF Live, Tracked, Unplaceable, View
<1>3. TypeOK'
  BY <1>1 DEF TypeOK, View, Live, Tracked
<1>4. Bookkeeping'
  BY <1>1, <1>2 DEF Bookkeeping, Owned, OwnedOfJob
<1>5. StrategyInSync' /\ IndexComplete' /\ NodelessUnowned' /\ NodeLocal'
  BY <1>1, <1>2 DEF StrategyInSync, IndexComplete, NodelessUnowned, NodeLocal
<1>6. CallShape'
  BY <1>1, <1>2 DEF CallShape, Nothing
<1>7. PlacedSoFar' /\ HashedSoFar'
  BY <1>1, <1>2 DEF PlacedSoFar, HashedSoFar, StrategyFor, Tracked
<1>8. PublishedInSync'
  BY <1>1, <1>2 DEF PublishedInSync
<1> QED
  BY <1>3, <1>4, <1>5, <1>6, <1>7, <1>8

\* SetCollectors: removed collectors take their records with them, new ones
\* start from zero, and the strategy is rebuilt from the result.
LEMMA SetCollectorsKeepsIInv ==
    ASSUME IInv, NEW new \in [Collector -> Node \cup {Absent}], SetCollectors(new)
    PROVE  IInv'
<1> USE DEF IInv
<1> DEFINE gone  == {c \in Live : new[c] = Absent}
           added == {c \in Collector \ Live : new[c] # Absent}
<1>1. /\ UNCHANGED <<targetItems, removals, additions, published>>
      /\ lock = "free" /\ lock' = "handleCollectors" /\ realloc' = Tracked
      /\ collectors' = [c \in Collector |->
                           IF c \in gone \cup added THEN new[c] ELSE collectors[c]]
      /\ collectorName' = [t \in Target |->
                              IF \E c \in gone, j \in Job : t \in served[c][j]
                              THEN NoCollector ELSE collectorName[t]]
      /\ served' = [c \in Collector |->
                       IF c \in gone THEN [j \in Job |-> {}] ELSE served[c]]
      /\ numTargets' = [c \in Collector |->
                           IF c \in gone \cup added THEN 0 ELSE numTargets[c]]
      /\ targetsPerJob' = [c \in Collector |->
                              IF c \in gone \cup added
                              THEN [j \in Job |-> 0] ELSE targetsPerJob[c]]
      /\ StrategySetCollectors(collectors')
  BY DEF SetCollectors
<1>2. Tracked' = Tracked
  BY <1>1 DEF Tracked
<1>3. collectors' \in [Collector -> Node \cup {Absent}]
  BY <1>1 DEF TypeOK
<1>4. /\ Live' = (Live \ gone) \cup added
      /\ \A c \in Live \ gone : collectors'[c] = collectors[c]
  BY <1>1 DEF Live
<1>5. \A t \in Target : collectorName'[t] =
         IF collectorName[t] \in gone THEN NoCollector ELSE collectorName[t]
  <2>1. \A c \in gone, j \in Job, t \in Target : t \in served[c][j] =>
           collectorName[t] = c
    BY DEF Bookkeeping, OwnedOfJob, Live
  <2>2. \A t \in Target : collectorName[t] \in gone =>
           t \in served[collectorName[t]][JobName[t]] /\ JobName[t] \in Job
    BY JobAssumption DEF Bookkeeping, OwnedOfJob, Live
  <2> QED
    BY <1>1, <2>1, <2>2
<1>6. \A t \in Target : collectorName[t] # NoCollector =>
         collectorName[t] \in Live /\ t \in Tracked
  BY DEF Bookkeeping
<1>7. gone \subseteq Live /\ added \subseteq Collector /\ added \cap Live = {} /\ Live \subseteq Collector
  BY DEF Live
<1>c. collectorName' \in [Target -> Collector \cup {NoCollector}]
  BY <1>1 DEF TypeOK
<1>n. members' = Live' /\ \/ Strategy = "per-node" /\ collectorByNode' \in PerNodeIndexes(collectors')
                          \/ Strategy # "per-node" /\ collectorByNode' = collectorByNode
  BY <1>1 DEF StrategySetCollectors, Live
<1> HIDE DEF gone, added
<1>8. ASSUME NEW c \in Collector
      PROVE  /\ c \in gone \cup added => Owned(c)' = {}
             /\ c \notin gone \cup added => Owned(c)' = Owned(c)
             /\ \A j \in Job :
                   /\ c \in gone \cup added => OwnedOfJob(c, j)' = {}
                   /\ c \notin gone \cup added => OwnedOfJob(c, j)' = OwnedOfJob(c, j)
  BY <1>5, <1>6, <1>7, NamesAssumption DEF Owned, OwnedOfJob
<1>9. Cardinality({}) = 0
  BY FS_EmptySet
<1>10. Bookkeeping'
  <2>1. \A t \in Target : collectorName'[t] # NoCollector =>
           collectorName'[t] \in Live' /\ t \in Tracked'
    BY <1>2, <1>4, <1>5, <1>6
  <2>2. \A c \in Collector, j \in Job : served'[c][j] = OwnedOfJob(c, j)'
    <3>1. \A c \in Collector, j \in Job : served[c][j] = OwnedOfJob(c, j)
      BY DEF Bookkeeping
    <3>2. \A c \in added, j \in Job : OwnedOfJob(c, j) = {}
      BY <1>6, <1>7, NamesAssumption DEF OwnedOfJob
    <3>3. \A c \in Collector, j \in Job :
             served'[c][j] = IF c \in gone THEN {} ELSE served[c][j]
      BY <1>1
    <3>4. \A c \in Collector, j \in Job :
             OwnedOfJob(c, j)' = IF c \in gone THEN {} ELSE OwnedOfJob(c, j)
      BY <3>2, <1>8
    <3> QED
      BY <3>1, <3>3, <3>4
  <2>3. \A c \in Collector : numTargets'[c] = Cardinality(Owned(c)')
    BY <1>1, <1>8, <1>9 DEF Bookkeeping
  <2>4. \A c \in Collector, j \in Job : targetsPerJob'[c][j] = Cardinality(OwnedOfJob(c, j)')
    BY <1>1, <1>8, <1>9 DEF Bookkeeping
  <2> QED
    BY <2>1, <2>2, <2>3, <2>4 DEF Bookkeeping
<1>11. StrategyInSync'
  <2>1. CASE Strategy = "per-node"
    BY <2>1, <1>n, <1>3, NamesAssumption DEF PerNodeIndexes, StrategyInSync, Live
  <2>2. CASE Strategy # "per-node"
    BY <2>2, <1>n DEF StrategyInSync, IndexComplete
  <2> QED
    BY <2>1, <2>2
<1>12. TypeOK'
  <2>1. numTargets' \in [Collector -> Nat] /\ targetsPerJob' \in [Collector -> [Job -> Nat]]
        /\ served' \in [Collector -> [Job -> SUBSET Target]]
    BY <1>1 DEF TypeOK
  <2>2. collectorByNode' \in [Node -> Collector \cup {NoCollector}] /\ members' \in SUBSET Collector
    BY <1>n DEF PerNodeIndexes, TypeOK, Live
  <2> QED
    BY <2>1, <2>2, <1>1, <1>3, <1>c DEF TypeOK, Tracked
<1>13. CallShape'
  BY <1>1, <1>2 DEF CallShape
<1>14. IndexComplete'
  <2>1. \A c \in Live' : collectors'[c] \in Node /\ c \in Collector
    BY <1>3 DEF Live
  <2> QED
    BY <2>1, <1>n, <1>3, NamesAssumption DEF IndexComplete, PerNodeIndexes
<1>15. NodelessUnowned'
  BY <1>1, <1>2, <1>5 DEF NodelessUnowned, Tracked
<1>16. NodeLocal'
  <2>1. SUFFICES ASSUME Strategy = "per-node", NEW t \in Tracked,
                        collectorName'[t] # NoCollector, targetItems[t].node # NoNode
                 PROVE  collectors'[collectorName'[t]] = targetItems[t].node
    BY <1>1, <1>2 DEF NodeLocal
  <2>2. t \in Target /\ collectorName'[t] = collectorName[t] /\ collectorName[t] \in Live \ gone
    BY <2>1, <1>5, <1>6 DEF Tracked
  <2> QED
    BY <2>1, <2>2, <1>4 DEF NodeLocal
<1>17. PlacedSoFar' /\ HashedSoFar'
  BY <1>1, <1>2 DEF PlacedSoFar, HashedSoFar, StrategyFor
<1>18. PublishedInSync'
  BY <1>1, <1>2 DEF PublishedInSync, View
<1> QED
  BY <1>10, <1>11, <1>12, <1>13, <1>14, <1>15, <1>16, <1>17, <1>18

-----------------------------------------------------------------------------
(* The theorems.                                                            *)

\* The empty tables newAllocator builds satisfy IInv.
LEMMA InitIInv == Init => IInv
<1> SUFFICES ASSUME Init PROVE IInv
  OBVIOUS
<1> USE DEF Init
<1>1. Live = {} /\ Tracked = {}
  BY DEF Live, Tracked, Nothing
<1>2. TypeOK
  BY <1>1 DEF TypeOK, View, Nothing
<1>3. Bookkeeping
  <2>1. \A c \in Collector : Owned(c) = {} /\ \A j \in Job : OwnedOfJob(c, j) = {}
    BY NamesAssumption DEF Owned, OwnedOfJob
  <2> QED
    BY <2>1, FS_EmptySet DEF Bookkeeping
<1>4. StrategyInSync /\ IndexComplete
  BY <1>1 DEF StrategyInSync, IndexComplete
<1>5. CallShape
  BY DEF CallShape, Nothing
<1>6. NodelessUnowned /\ NodeLocal /\ PlacedSoFar /\ HashedSoFar
  BY <1>1 DEF NodelessUnowned, NodeLocal, PlacedSoFar, HashedSoFar
<1>7. PublishedInSync
  BY DEF PublishedInSync
<1> QED
  BY <1>2, <1>3, <1>4, <1>5, <1>6, <1>7 DEF IInv

\* Every step preserves IInv.
LEMMA NextIInv == IInv /\ [Next]_vars => IInv'
<1> SUFFICES ASSUME IInv, [Next]_vars PROVE IInv'
  OBVIOUS
<1>1. CASE UNCHANGED vars
  <2>1. UNCHANGED <<collectors, numTargets, targetsPerJob, targetItems, collectorName,
                    served, members, collectorByNode, lock, removals, additions,
                    realloc, published>>
    BY <1>1 DEF vars, tables, strategy, call
  <2>2. Live' = Live /\ Tracked' = Tracked /\ View' = View
        /\ \A t \in Target : Unplaceable(t)' <=> Unplaceable(t)
    BY <2>1 DEF Live, Tracked, Unplaceable, View
  <2>3. TypeOK' /\ Bookkeeping'
    BY <2>1, <2>2 DEF IInv, TypeOK, Bookkeeping, Owned, OwnedOfJob
  <2>4. StrategyInSync' /\ IndexComplete' /\ NodelessUnowned' /\ NodeLocal'
    BY <2>1, <2>2 DEF IInv, StrategyInSync, IndexComplete, NodelessUnowned, NodeLocal
  <2>5. CallShape' /\ PlacedSoFar' /\ HashedSoFar' /\ PublishedInSync'
    BY <2>1, <2>2 DEF IInv, CallShape, PlacedSoFar, HashedSoFar, PublishedInSync,
                      Nothing, Tracked
  <2> QED
    BY <2>3, <2>4, <2>5 DEF IInv
<1>2. CASE Next
  BY <1>2, SetTargetsKeepsIInv, RemoveTargetKeepsIInv, AddTargetKeepsIInv,
     SetCollectorsKeepsIInv, ReallocateKeepsIInv, UnlockKeepsIInv DEF Next
<1> QED
  BY <1>1, <1>2

\* IInv holds in every reachable state.
THEOREM Inductive == Spec => []IInv
<1>1. Init => IInv
  BY InitIInv
<1>2. IInv /\ [Next]_vars => IInv'
  BY NextIInv
<1> QED
  BY <1>1, <1>2, PTL DEF Spec

\* Every table of the allocator keeps its type; no counter goes negative.
THEOREM TypeCorrect == Spec => []TypeOK
<1>1. IInv => TypeOK
  BY DEF IInv
<1> QED
  BY <1>1, Inductive, PTL

\* Item.CollectorName, the per-collector index and both counters agree at every
\* step of every call, for every strategy.
THEOREM RecordsAgree == Spec => []Bookkeeping
<1>1. IInv => Bookkeeping
  BY DEF IInv
<1> QED
  BY <1>1, Inductive, PTL

\* The ring and the node index match the live collectors whenever a strategy is
\* consulted.
THEOREM StrategyContractKept == Spec => []StrategyInSync
<1>1. IInv => StrategyInSync
  BY DEF IInv
<1> QED
  BY <1>1, Inductive, PTL

\* Between calls no target is left without a collector that could serve it.
THEOREM NoTargetLeftOut == Spec => []EveryTargetPlaced
<1>1. IInv => EveryTargetPlaced
  BY DEF IInv, CallShape, PlacedSoFar, EveryTargetPlaced
<1> QED
  BY <1>1, Inductive, PTL

\* per-node never serves a target from another node.
THEOREM PerNodeIsLocal == Spec => []NodeLocal
<1>1. IInv => NodeLocal
  BY DEF IInv
<1> QED
  BY <1>1, Inductive, PTL

\* Under consistent hashing the placement has no memory.
THEOREM HashingHasNoMemory == Spec => []HistoryIndependent
<1>1. IInv => HistoryIndependent
  BY DEF IInv, CallShape, HashedSoFar, HistoryIndependent
<1> QED
  BY <1>1, Inductive, PTL

\* When the lock is free the view readers get is a legal abstract placement.
LEMMA ViewIsPlaced ==
    ASSUME IInv, realloc = {}
    PROVE  View \in Abstract!Views /\ Abstract!Placed(View)
<1> USE DEF IInv
<1>1. View \in Abstract!Views
  BY DEF Abstract!Views, View, Live, Tracked, TypeOK
<1>2. \A c \in Collector, j \in Job : served[c][j] = OwnedOfJob(c, j)
  BY DEF Bookkeeping
<1>3. \A c \in Collector, j \in Job : \A t \in served[c][j] :
         t \in Target /\ collectorName[t] = c /\ JobName[t] = j /\ c \in Live /\ t \in Tracked
  BY <1>2, NamesAssumption DEF OwnedOfJob, Bookkeeping
<1>4. Abstract!Partition(View)
  <2>1. View.live = Live /\ View.tracked = Tracked /\ View.served = served
    BY DEF View
  <2> QED
    BY <2>1, <1>3 DEF Abstract!Partition
<1>5. ASSUME Strategy # "per-node" PROVE Abstract!Complete(View)
  <2>1. ASSUME Live # {}, NEW t \in Tracked
        PROVE  \E c \in Live : t \in served[c][JobName[t]]
    <3>1. t \in Target /\ collectorName[t] \in Live
      BY <2>1, <1>5 DEF PlacedSoFar, Unplaceable, Tracked
    <3>2. collectorName[t] \in Collector /\ JobName[t] \in Job
      BY <3>1, JobAssumption DEF Live
    <3> QED
      BY <3>1, <3>2, <1>2 DEF OwnedOfJob
  <2> QED
    BY <2>1 DEF Abstract!Complete, View
<1> QED
  BY <1>1, <1>4, <1>5 DEF Abstract!Placed

\* The allocator implements the abstract placement: seen by readers, each call
\* is one atomic change of the target set or of the collector set.
THEOREM Refinement == Spec => ImplementsPlacement
<1>1. Init => Abstract!Init
  BY DEF Init, Abstract!Init, View, Live, Tracked, Nothing
<1>2. IInv /\ [Next]_vars => [Abstract!Next]_published
  <2> SUFFICES ASSUME IInv, [Next]_vars PROVE [Abstract!Next]_published
    OBVIOUS
  <2>1. CASE Unlock
    <3>1. published' = View /\ realloc = {} /\ lock \in {"handleTargets", "handleCollectors"}
      BY <2>1 DEF Unlock, IInv, TypeOK
    <3>2. View \in Abstract!Views /\ Abstract!Placed(View)
      BY <3>1, ViewIsPlaced
    <3>3. View.live = Live /\ View.tracked = Tracked
      BY DEF View
    <3>4. published.live = Live \/ published.tracked = Tracked
      BY <3>1 DEF IInv, PublishedInSync
    <3> QED
      BY <3>1, <3>2, <3>3, <3>4 DEF Abstract!Next, Abstract!SetTargets, Abstract!SetCollectors
  <2>2. CASE ~ Unlock
    <3>1. UNCHANGED published
      BY <2>2 DEF Next, SetTargets, RemoveTarget, AddTarget, SetCollectors, Reallocate,
                  AddTargetToTargetItems, vars
    <3> QED
      BY <3>1
  <2> QED
    BY <2>1, <2>2
<1> QED
  BY <1>1, <1>2, Inductive, PTL DEF Spec, ImplementsPlacement, Abstract!Spec

-----------------------------------------------------------------------------
(* What a call may do to the placement readers have: least-weighted.         *)

\* In the middle of a call: a target that is still tracked has the collector
\* readers know it from, if that is still live.
KeepsPlaces ==
    \A c \in published.live \cap Live : \A t \in Held(published, c) \cap Tracked :
        collectorName[t] = c

\* Nobody gains a target before the removals are done, so counters only grow from
\* the first gain on, and every gain goes to a collector with the fewest targets.
NoGainer == \A c \in Collector : Owned(c) \subseteq Held(published, c)
GainersLevel ==
    /\ lock = "free" \/ removals # {} => NoGainer
    /\ \A c, d \in Live :
          Owned(c) \subseteq Held(published, c) \/ numTargets[c] <= numTargets[d] + 1

\* A target a call adds is new to the readers.
AddsNew ==
    /\ \A c \in Collector : Held(published, c) \subseteq published.tracked
    /\ \A t \in Target : additions[t] # NoItem => t \notin published.tracked

Steady == AddsNew /\ (Strategy = "least-weighted" => KeepsPlaces /\ GainersLevel)

\* With the tables in agreement, what a collector holds is what it owns.
LEMMA HeldIsOwned ==
    ASSUME IInv, NEW c \in Collector
    PROVE  Held(View, c) = Owned(c)
<1>1. Held(View, c) = UNION {served[c][j] : j \in Job}
  BY DEF Held, View
<1>2. \A j \in Job : served[c][j] = OwnedOfJob(c, j)
  BY DEF IInv, Bookkeeping
<1>3. \A t \in Target : JobName[t] \in Job
  BY JobAssumption
<1> QED
  BY <1>1, <1>2, <1>3 DEF Owned, OwnedOfJob

\* least-weighted leaves an item where it is, or gives one without an owner to a
\* collector with the fewest targets.
LEMMA PlacesOnLightest ==
    ASSUME IInv, Strategy = "least-weighted", NEW t \in Target, NEW m \in Meta,
           targetItems[t] = NoItem \/ m = targetItems[t], AddTargetToTargetItems(t, m)
    PROVE  \/ collectorName' = collectorName /\ numTargets' = numTargets
           \/ \E c \in Live :
                 /\ collectorName[t] = NoCollector
                 /\ collectorName' = [collectorName EXCEPT ![t] = c]
                 /\ \A d \in Collector :
                       numTargets'[d] = IF d = c THEN numTargets[d] + 1 ELSE numTargets[d]
                 /\ \A d \in Live : numTargets[c] <= numTargets[d]
<1> USE DEF IInv
<1>1. CASE Live = {}
  BY <1>1 DEF AddTargetToTargetItems
<1>2. CASE Live # {}
  <2>1. \E c \in Collector : GetCollectorForTarget(t, m, c)
    BY <1>2, StrategyContract
  <2>2. PICK c \in Collector : GetCollectorForTarget(t, m, c) /\ Move(t, c)
    BY <1>2, <2>1 DEF AddTargetToTargetItems
  <2>3. LeastWeighted(t, c)
    BY <2>2 DEF GetCollectorForTarget, StrategyFor
  <2>4. /\ collectorName' = [collectorName EXCEPT ![t] = c]
        /\ numTargets' = [d \in Collector |-> numTargets[d] + Shift(t, c, d)]
    BY <2>2 DEF Move
  <2>5. \A d \in Collector : numTargets[d] \in Nat
    BY DEF TypeOK
  <2>6. CASE collectorName[t] \in Live
    <3>1. c = collectorName[t]
      BY <2>3, <2>6 DEF LeastWeighted
    <3>2. collectorName' = collectorName
      BY <2>4, <3>1 DEF TypeOK
    <3>3. \A d \in Collector : Shift(t, c, d) = 0
      BY <2>6, <3>1 DEF Shift
    <3>4. numTargets' = numTargets
      BY <2>4, <2>5, <3>3 DEF TypeOK
    <3> QED
      BY <3>2, <3>4
  <2>7. CASE collectorName[t] \notin Live
    <3>1. c \in Live /\ \A d \in Live : LighterFor(JobName[t], c, d)
      BY <2>3, <2>7 DEF LeastWeighted
    <3>2. collectorName[t] = NoCollector
      BY <2>7 DEF Bookkeeping
    <3>3. \A d \in Collector : Shift(t, c, d) = IF d = c THEN 1 ELSE 0
      BY <3>2, NamesAssumption DEF Shift
    <3>4. \A d \in Live : numTargets[c] <= numTargets[d]
      BY <2>5, <3>1 DEF LighterFor, Live
    <3>5. \A d \in Collector :
             numTargets'[d] = IF d = c THEN numTargets[d] + 1 ELSE numTargets[d]
      BY <2>4, <2>5, <3>3
    <3> QED
      BY <2>4, <3>1, <3>2, <3>4, <3>5
  <2> QED
    BY <2>6, <2>7
<1> QED
  BY <1>1, <1>2

\* Placing an item that readers do not know, or that is being re-allocated.
LEMMA PlacingIsSteady ==
    ASSUME IInv, IInv', Steady, Strategy = "least-weighted", NEW t \in Target, NEW m \in Meta,
           targetItems[t] = NoItem \/ m = targetItems[t], AddTargetToTargetItems(t, m),
           removals' = {}, lock' # "free", t \in Tracked \/ t \notin published.tracked,
           Live' = Live, Tracked' = Tracked \cup {t}
    PROVE  KeepsPlaces' /\ GainersLevel'
<1>0. /\ published' = published
      /\ KeepsPlaces /\ GainersLevel /\ AddsNew
  BY DEF AddTargetToTargetItems, Steady
<1>h. \A c \in Collector : Held(published, c)' = Held(published, c)
  BY <1>0 DEF Held
<1>l. Live \in SUBSET Collector
  BY DEF Live
<1>n. \A d \in Collector : numTargets[d] \in Nat
  BY DEF IInv, TypeOK
<1>1. CASE collectorName' = collectorName /\ numTargets' = numTargets
  <2>1. KeepsPlaces'
    BY <1>0, <1>1, <1>h, <1>l DEF KeepsPlaces, AddsNew
  <2>2. \A c \in Collector : Owned(c)' = Owned(c)
    BY <1>1 DEF Owned
  <2>3. GainersLevel'
    BY <1>0, <1>1, <1>h, <1>l, <2>2 DEF GainersLevel
  <2> QED
    BY <2>1, <2>3
<1>2. CASE \E c \in Live :
               /\ collectorName[t] = NoCollector
               /\ collectorName' = [collectorName EXCEPT ![t] = c]
               /\ \A d \in Collector :
                     numTargets'[d] = IF d = c THEN numTargets[d] + 1 ELSE numTargets[d]
               /\ \A d \in Live : numTargets[c] <= numTargets[d]
  <2>1. PICK c \in Live :
               /\ collectorName[t] = NoCollector
               /\ collectorName' = [collectorName EXCEPT ![t] = c]
               /\ \A d \in Collector :
                     numTargets'[d] = IF d = c THEN numTargets[d] + 1 ELSE numTargets[d]
               /\ \A d \in Live : numTargets[c] <= numTargets[d]
    BY <1>2
  <2>2. /\ collectorName'[t] = c
        /\ \A x \in Target : x # t => collectorName'[x] = collectorName[x]
    BY <2>1 DEF IInv, TypeOK
  <2>3. KeepsPlaces'
    <3> SUFFICES ASSUME NEW d \in published.live \cap Live, NEW x \in Held(published, d) \cap Tracked'
                 PROVE  collectorName'[x] = d
      BY <1>0, <1>h, <1>l DEF KeepsPlaces
    <3>1. x \in published.tracked
      BY <1>0, <1>l DEF AddsNew
    <3>2. x \in Tracked /\ x \in Target
      BY <3>1 DEF Tracked
    <3>3. collectorName[x] = d
      BY <1>0, <3>2 DEF KeepsPlaces
    <3>4. x # t
      BY <1>l, <2>1, <3>3, NamesAssumption
    <3> QED
      BY <2>2, <3>2, <3>3, <3>4
  <2>4. \A d \in Collector : Owned(d)' = IF d = c THEN Owned(d) \cup {t} ELSE Owned(d)
    <3> SUFFICES ASSUME NEW d \in Collector, NEW x \in Target
                 PROVE  collectorName'[x] = d <=> collectorName[x] = d \/ (d = c /\ x = t)
      BY DEF Owned
    <3> QED
      BY <2>1, <2>2, NamesAssumption
  <2>5. ASSUME NEW d \in Live, NEW e \in Live, ~ (Owned(d)' \subseteq Held(published, d))
        PROVE  numTargets'[d] <= numTargets'[e] + 1
    <3>1. CASE d = c
      BY <1>l, <1>n, <2>1, <3>1
    <3>2. CASE d # c
      <4>1. numTargets[d] <= numTargets[e] + 1
        BY <1>0, <1>l, <2>4, <2>5, <3>2 DEF GainersLevel
      <4> QED
        BY <1>l, <1>n, <2>1, <3>2, <4>1
    <3> QED
      BY <3>1, <3>2
  <2>6. GainersLevel'
    BY <1>h, <1>l, <2>5 DEF GainersLevel
  <2> QED
    BY <2>3, <2>6
<1> QED
  BY <1>1, <1>2, PlacesOnLightest

\* A call begins: readers have the current placement.
LEMMA SetTargetsIsSteady ==
    ASSUME IInv, Steady, NEW new \in [Target -> Meta \cup {NoItem}], SetTargets(new)
    PROVE  Steady'
<1>1. /\ UNCHANGED <<collectors, numTargets, targetItems, collectorName, served, published>>
      /\ lock = "free" /\ lock' = "handleTargets"
      /\ \A t \in Target : additions'[t] # NoItem => t \notin Tracked
  BY DEF SetTargets, tables, strategy
<1>2. published.tracked = Tracked
  BY <1>1 DEF IInv, PublishedInSync, View
<1>3. /\ Live' = Live /\ Tracked' = Tracked
      /\ \A c \in Collector : Held(published, c)' = Held(published, c) /\ Owned(c)' = Owned(c)
  BY <1>1 DEF Live, Tracked, Held, Owned
<1>4. Live \in SUBSET Collector
  BY DEF Live
<1>5. AddsNew'
  BY <1>1, <1>2, <1>3 DEF Steady, AddsNew
<1>6. ASSUME Strategy = "least-weighted" PROVE KeepsPlaces' /\ GainersLevel'
  <2>1. KeepsPlaces'
    BY <1>1, <1>3, <1>4, <1>6 DEF Steady, KeepsPlaces
  <2>2. NoGainer'
    BY <1>1, <1>3, <1>6 DEF Steady, GainersLevel, NoGainer
  <2> QED
    BY <1>4, <1>3, <2>1, <2>2 DEF GainersLevel, NoGainer
<1> QED
  BY <1>5, <1>6 DEF Steady

\* A removal: nobody has gained anything yet.
LEMMA RemoveTargetIsSteady ==
    ASSUME IInv, Steady, NEW t \in Target, RemoveTarget(t)
    PROVE  Steady'
<1>1. /\ UNCHANGED <<collectors, lock, additions, published>>
      /\ removals # {}
      /\ targetItems' = [targetItems EXCEPT ![t] = NoItem]
      /\ collectorName' = [collectorName EXCEPT ![t] = NoCollector]
  BY DEF RemoveTarget, Move, strategy
<1>2. /\ Live' = Live /\ Tracked' = Tracked \ {t}
      /\ \A c \in Collector : Held(published, c)' = Held(published, c) /\ Owned(c)' \subseteq Owned(c)
      /\ \A x \in Target : x # t => collectorName'[x] = collectorName[x]
  BY <1>1, NamesAssumption DEF Live, Tracked, Held, Owned, IInv, TypeOK
<1>3. Live \in SUBSET Collector /\ Tracked \in SUBSET Target
  BY DEF Live, Tracked
<1>4. AddsNew'
  BY <1>1, <1>2 DEF Steady, AddsNew
<1>5. ASSUME Strategy = "least-weighted" PROVE KeepsPlaces' /\ GainersLevel'
  <2>1. KeepsPlaces'
    BY <1>1, <1>2, <1>3, <1>5 DEF Steady, KeepsPlaces
  <2>2. NoGainer'
    BY <1>1, <1>2, <1>5 DEF Steady, GainersLevel, NoGainer
  <2> QED
    BY <1>2, <1>3, <2>1, <2>2 DEF GainersLevel, NoGainer
<1> QED
  BY <1>4, <1>5 DEF Steady

\* An addition.
LEMMA AddTargetIsSteady ==
    ASSUME IInv, IInv', Steady, NEW t \in Target, AddTarget(t)
    PROVE  Steady'
<1> DEFINE m == additions[t]
<1>1. /\ UNCHANGED <<collectors, published, lock, removals>>
      /\ lock = "handleTargets" /\ m # NoItem /\ removals = {}
      /\ additions' = [additions EXCEPT ![t] = NoItem]
      /\ AddTargetToTargetItems(t, m)
      /\ targetItems' = [targetItems EXCEPT ![t] = m]
  BY DEF AddTarget, AddTargetToTargetItems
<1>2. m \in Meta /\ targetItems[t] = NoItem /\ t \notin published.tracked
  BY <1>1 DEF IInv, TypeOK, CallShape, Steady, AddsNew
<1> HIDE DEF m
<1>3. Live' = Live /\ Tracked' = Tracked \cup {t}
  BY <1>1, <1>2 DEF Live, Tracked, IInv, TypeOK
<1>4. AddsNew'
  BY <1>1 DEF Steady, AddsNew, Held, IInv, TypeOK
<1>5. Strategy = "least-weighted" => KeepsPlaces' /\ GainersLevel'
  BY <1>1, <1>2, <1>3, PlacingIsSteady
<1> QED
  BY <1>4, <1>5 DEF Steady

\* A re-allocation.
LEMMA ReallocateIsSteady ==
    ASSUME IInv, IInv', Steady, NEW t \in Target, Reallocate(t)
    PROVE  Steady'
<1> DEFINE m == targetItems[t]
<1>1. /\ UNCHANGED <<collectors, published, lock, removals, additions>>
      /\ lock = "handleCollectors" /\ t \in realloc
      /\ AddTargetToTargetItems(t, m)
      /\ targetItems' = [targetItems EXCEPT ![t] = m]
  BY DEF Reallocate, AddTargetToTargetItems
<1>2. m \in Meta /\ m = targetItems[t] /\ t \in Tracked /\ removals = {}
  BY <1>1 DEF IInv, TypeOK, CallShape, Tracked
<1> HIDE DEF m
<1>3. Live' = Live /\ Tracked' = Tracked \cup {t}
  BY <1>1, <1>2 DEF Live, Tracked, IInv, TypeOK
<1>4. AddsNew'
  BY <1>1 DEF Steady, AddsNew, Held
<1>5. Strategy = "least-weighted" => KeepsPlaces' /\ GainersLevel'
  BY <1>1, <1>2, <1>3, PlacingIsSteady
<1> QED
  BY <1>4, <1>5 DEF Steady

\* Collectors come and go: what the ones that stay own is untouched.
LEMMA SetCollectorsIsSteady ==
    ASSUME IInv, Steady, NEW new \in [Collector -> Node \cup {Absent}], SetCollectors(new)
    PROVE  Steady'
<1> DEFINE gone  == {c \in Live : new[c] = Absent}
           added == {c \in Collector \ Live : new[c] # Absent}
<1>1. /\ UNCHANGED <<targetItems, additions, published>>
      /\ lock = "free" /\ lock' = "handleCollectors"
      /\ collectors' = [c \in Collector |->
                           IF c \in gone \cup added THEN new[c] ELSE collectors[c]]
      /\ collectorName' = [t \in Target |->
                              IF \E c \in gone, j \in Job : t \in served[c][j]
                              THEN NoCollector ELSE collectorName[t]]
  BY DEF SetCollectors
<1>2. published.live = Live
  BY <1>1 DEF IInv, PublishedInSync, View
<1>3. Tracked' = Tracked /\ Tracked \in SUBSET Target /\ Live \in SUBSET Collector
      /\ Live' \in SUBSET Collector
  BY <1>1 DEF Tracked, Live
<1>4. \A c \in Live \cap Live' : c \notin gone
  BY <1>1 DEF Live
<1>5. \A t \in Target, c \in gone, j \in Job : t \in served[c][j] => collectorName[t] = c
  BY DEF IInv, Bookkeeping, OwnedOfJob, Live
<1> HIDE DEF gone, added
<1>6. \A c \in Collector : Held(published, c)' = Held(published, c)
  BY <1>1 DEF Held
<1>7. \A c \in Collector : Owned(c)' \subseteq Owned(c)
  BY <1>1, NamesAssumption DEF Owned
<1>8. \A t \in Target : collectorName[t] \in Live \cap Live' => collectorName'[t] = collectorName[t]
  BY <1>1, <1>4, <1>5
<1>9. AddsNew'
  BY <1>1, <1>6 DEF Steady, AddsNew
<1>10. ASSUME Strategy = "least-weighted" PROVE KeepsPlaces' /\ GainersLevel'
  <2>1. KeepsPlaces'
    BY <1>1, <1>2, <1>3, <1>6, <1>8, <1>10 DEF Steady, KeepsPlaces
  <2>2. NoGainer'
    BY <1>1, <1>6, <1>7, <1>10 DEF Steady, GainersLevel, NoGainer
  <2> QED
    BY <1>3, <2>1, <2>2 DEF GainersLevel, NoGainer
<1> QED
  BY <1>9, <1>10 DEF Steady

\* The call ends: readers get the new placement.
LEMMA UnlockIsSteady ==
    ASSUME IInv, IInv', Unlock
    PROVE  Steady'
<1>1. /\ UNCHANGED <<tables, removals, additions>>
      /\ additions = Nothing /\ published' = View' /\ lock' = "free"
  BY DEF Unlock, View, Live, Tracked, tables
<1>2. \A c \in Collector : Held(published, c)' = Owned(c)'
  <2>1. \A c \in Collector : Held(View, c)' = Owned(c)'
    <3> SUFFICES ASSUME NEW c \in Collector PROVE Held(View, c)' = Owned(c)'
      OBVIOUS
    <3>1. Held(View, c) = Owned(c)
      BY HeldIsOwned
    <3>2. Held(View, c)' = Held(View, c) /\ Owned(c)' = Owned(c)
      BY <1>1 DEF Held, View, Owned, tables
    <3> QED
      BY <3>1, <3>2
  <2> QED
    BY <1>1, <2>1 DEF Held
<1>3. published'.live = Live' /\ published'.tracked = Tracked'
  BY <1>1 DEF View
<1>4. \A c \in Collector : Owned(c)' \subseteq Tracked'
  BY NamesAssumption DEF IInv, Bookkeeping, Owned
<1>5. \A c \in Collector : \A t \in Owned(c)' : collectorName'[t] = c
  BY DEF Owned
<1>6. Live' \in SUBSET Collector
  BY DEF Live
<1>7. AddsNew'
  BY <1>1, <1>2, <1>3, <1>4 DEF AddsNew, Nothing
<1>8. KeepsPlaces'
  BY <1>2, <1>3, <1>5, <1>6 DEF KeepsPlaces
<1>9. GainersLevel'
  BY <1>2, <1>6 DEF GainersLevel, NoGainer
<1> QED
  BY <1>7, <1>8, <1>9 DEF Steady

\* Steady holds in every reachable state.
LEMMA SteadyInductive == Spec => []Steady
<1>1. Init => Steady
  <2> SUFFICES ASSUME Init PROVE Steady
    OBVIOUS
  <2>1. \A c \in Collector : Held(published, c) = {} /\ Owned(c) = {}
    BY NamesAssumption DEF Init, Held, Owned, View
  <2>2. Live = {} /\ additions = Nothing
    BY DEF Init, Live
  <2> QED
    BY <2>1, <2>2 DEF Steady, AddsNew, KeepsPlaces, GainersLevel, NoGainer, Nothing
<1>2. IInv /\ IInv' /\ Steady /\ [Next]_vars => Steady'
  <2> SUFFICES ASSUME IInv, IInv', Steady, [Next]_vars PROVE Steady'
    OBVIOUS
  <2>1. CASE UNCHANGED vars
    <3>1. UNCHANGED <<collectors, numTargets, targetItems, collectorName, lock, removals,
                      additions, published>>
      BY <2>1 DEF vars, tables, strategy, call
    <3>2. /\ Live' = Live /\ Tracked' = Tracked
          /\ \A c : Held(published, c)' = Held(published, c) /\ Owned(c)' = Owned(c)
      BY <3>1 DEF Live, Tracked, Held, Owned
    <3> QED
      BY <3>1, <3>2 DEF Steady, AddsNew, KeepsPlaces, GainersLevel, NoGainer
  <2>2. CASE Next
    BY <2>2, SetTargetsIsSteady, RemoveTargetIsSteady, AddTargetIsSteady, ReallocateIsSteady,
       SetCollectorsIsSteady, UnlockIsSteady DEF Next
  <2> QED
    BY <2>1, <2>2
<1> QED
  BY <1>1, <1>2, Inductive, PTL DEF Spec

\* Readers see another placement only when a call ends.
LEMMA PublishedByUnlock ==
    ASSUME [Next]_vars, published' # published
    PROVE  Unlock
BY DEF Next, SetTargets, RemoveTarget, AddTarget, SetCollectors, Reallocate,
       AddTargetToTargetItems, vars

\* least-weighted: no call takes a target from a collector that stays, as long as the
\* target stays, whatever order the map walks take.
THEOREM NoNeedlessMove == Spec => Sticky
<1> DEFINE Stays == Strategy = "least-weighted" =>
                      \A c \in published.live \cap published'.live :
                          Held(published, c) \cap published'.tracked \subseteq Held(published', c)
<1>1. IInv /\ Steady /\ [Next]_vars => [Stays]_published
  <2> SUFFICES ASSUME IInv, Steady, [Next]_vars, published' # published, Strategy = "least-weighted",
                      NEW c \in published.live \cap published'.live,
                      NEW t \in Held(published, c) \cap published'.tracked
               PROVE  t \in Held(published', c)
    OBVIOUS
  <2>1. published' = View
    BY PublishedByUnlock DEF Unlock
  <2>2. c \in Live /\ c \in Collector /\ t \in Tracked /\ t \in Target
    BY <2>1 DEF View, Live, Tracked
  <2>3. collectorName[t] = c
    BY <2>2 DEF Steady, KeepsPlaces
  <2> QED
    BY <2>1, <2>2, <2>3, HeldIsOwned DEF Owned
<1> QED
  BY <1>1, Inductive, SteadyInductive, PTL DEF Spec, Sticky

\* least-weighted: a collector that gains a target in a call ends it with at most one
\* target more than any other.
THEOREM GainersLevelled == Spec => GainersStayLevel
<1> DEFINE Level == Strategy = "least-weighted" =>
                      \A c, d \in published'.live :
                          Held(published', c) \ Held(published, c) # {} =>
                              Load(published', c) <= Load(published', d) + 1
<1>1. IInv /\ Steady /\ [Next]_vars => [Level]_published
  <2> SUFFICES ASSUME IInv, Steady, [Next]_vars, published' # published, Strategy = "least-weighted",
                      NEW c \in published'.live, NEW d \in published'.live,
                      Held(published', c) \ Held(published, c) # {}
               PROVE  Load(published', c) <= Load(published', d) + 1
    OBVIOUS
  <2>1. published' = View
    BY PublishedByUnlock DEF Unlock
  <2>2. c \in Live /\ c \in Collector /\ d \in Live /\ d \in Collector
    BY <2>1 DEF View, Live
  <2>3. /\ Load(published', c) = numTargets[c]
        /\ Load(published', d) = numTargets[d]
    BY <2>1, <2>2, HeldIsOwned DEF Load, IInv, Bookkeeping
  <2>4. ~ (Owned(c) \subseteq Held(published, c))
    BY <2>1, <2>2, HeldIsOwned
  <2> QED
    BY <2>2, <2>3, <2>4 DEF Steady, GainersLevel
<1> QED
  BY <1>1, Inductive, SteadyInductive, PTL DEF Spec, GainersStayLevel

=============================================================================
