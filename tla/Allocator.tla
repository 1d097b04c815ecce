------------------------------ MODULE Allocator ------------------------------
(***************************************************************************)
(* The target allocator's assignment table: type allocator of              *)
(* otel-allocator/internal/allocation/allocator.go, the three strategies   *)
(* it delegates to, and the diff that decides what a call changes.         *)
(*                                                                         *)
(* SetTargets (the discoverer's goroutine) and SetCollectors (the collector*)
(* watcher's goroutine) each run to completion under the mutex m, but they *)
(* walk Go maps, so the order in which targets are handled is arbitrary    *)
(* and, through the per-collector counters, it decides the outcome.  A     *)
(* call is therefore an action that takes the lock, one step per target    *)
(* handled (any pending target may be next) and a step that releases it.   *)
(*                                                                         *)
(* Target is the set of item hashes.  A hash fixes the job of an item but  *)
(* not its discovered attributes: meta labels are left out of the hash, so *)
(* the node (and, under relabelling, the URL) may differ between two items *)
(* with one hash.                                                          *)
(***************************************************************************)
EXTENDS Integers, FiniteSets

CONSTANTS
    Collector,    \* collector pod names
    Node,         \* non-empty node names
    Target,       \* item hashes
    Job,
    Meta,         \* discovered attributes: records [url, node]
    JobName,      \* [Target -> Job]
    NameRank,     \* the order of collector names
    Strategy,     \* cfg.AllocationStrategy
    Fallback,     \* cfg.AllocationFallbackStrategy, "none" when empty
    LocateKey,    \* the consistent hash ring: members -> url -> owner
    NoCollector,  \* the empty CollectorName
    NoNode,       \* the empty node name
    NoItem,       \* no entry in targetItems
    Absent        \* no entry in collectors

URL == {m.url : m \in Meta}
StrategyNames == {"least-weighted", "consistent-hashing", "per-node"}

ASSUME FiniteAssumption == IsFiniteSet(Target)

ASSUME MetaAssumption ==
    /\ \A m \in Meta : m.node \in Node \cup {NoNode}
    /\ NoItem \notin Meta

ASSUME NamesAssumption ==
    /\ NoCollector \notin Collector
    /\ NoNode \notin Node
    /\ Absent \notin Node

ASSUME JobAssumption == JobName \in [Target -> Job]

ASSUME RankAssumption == NameRank \in [Collector -> Nat]

\* A ring with at least one member maps every key to one of its members.
ASSUME RingAssumption ==
    \A M \in SUBSET Collector : M # {} => \A u \in URL : LocateKey[M][u] \in M

\* A per-node fallback of the per-node strategy would call itself for ever.
ASSUME StrategyAssumption ==
    /\ Strategy \in StrategyNames
    /\ Fallback \in {"none", "least-weighted", "consistent-hashing"}

VARIABLES
    collectors,     \* [Collector -> Node \cup {Absent}]: a live collector's node
    numTargets,     \* Collector.NumTargets
    targetsPerJob,  \* Collector.TargetsPerJob
    targetItems,    \* [Target -> Meta \cup {NoItem}]: the tracked items
    collectorName,  \* Item.CollectorName
    served,         \* targetItemsPerJobPerCollector
    members,        \* the collectors last given to strategy.SetCollectors
    collectorByNode,\* the per-node strategy's index
    lock,           \* who holds m
    removals,       \* items the call under way still has to remove
    additions,      \* items it still has to add
    realloc,        \* items it still has to re-allocate
    published       \* history: what readers saw when m was last free

tables == <<collectors, numTargets, targetsPerJob, targetItems,
            collectorName, served>>
strategy == <<members, collectorByNode>>
call == <<lock, removals, additions, realloc>>
vars == <<tables, strategy, call, published>>

Live == {c \in Collector : collectors[c] # Absent}
Tracked == {t \in Target : targetItems[t] # NoItem}
Nothing == [t \in Target |-> NoItem]

\* What GetTargetsForCollectorAndJob, Collectors and TargetItems return while
\* nobody holds the write lock.
View == [live |-> Live, tracked |-> Tracked, served |-> served]

TypeOK ==
    /\ collectors \in [Collector -> Node \cup {Absent}]
    /\ numTargets \in [Collector -> Nat]
    /\ targetsPerJob \in [Collector -> [Job -> Nat]]
    /\ targetItems \in [Target -> Meta \cup {NoItem}]
    /\ collectorName \in [Target -> Collector \cup {NoCollector}]
    /\ served \in [Collector -> [Job -> SUBSET Target]]
    /\ members \in SUBSET Collector
    /\ collectorByNode \in [Node -> Collector \cup {NoCollector}]
    /\ lock \in {"free", "handleTargets", "handleCollectors"}
    /\ removals \in SUBSET Target
    /\ additions \in [Target -> Meta \cup {NoItem}]
    /\ realloc \in SUBSET Target
    /\ published \in [live : SUBSET Collector, tracked : SUBSET Target,
                      served : [Collector -> [Job -> SUBSET Target]]]

Init ==
    /\ collectors = [c \in Collector |-> Absent]
    /\ numTargets = [c \in Collector |-> 0]
    /\ targetsPerJob = [c \in Collector |-> [j \in Job |-> 0]]
    /\ targetItems = Nothing
    /\ collectorName = [t \in Target |-> NoCollector]
    /\ served = [c \in Collector |-> [j \in Job |-> {}]]
    /\ members = {}
    /\ collectorByNode = [n \in Node |-> NoCollector]
    /\ lock = "free"
    /\ removals = {}
    /\ additions = Nothing
    /\ realloc = {}
    /\ published = View

-----------------------------------------------------------------------------
(* The strategies: c is what GetCollectorForTarget returns for item t with  *)
(* attributes m.  When no c is, the strategy returned an error.             *)

\* Fault: the per-job count is compared before the total.
LighterForJobFirst(j, c, d) ==
    \/ targetsPerJob[c][j] < targetsPerJob[d][j]
    \/ targetsPerJob[c][j] = targetsPerJob[d][j] /\ numTargets[c] <= numTargets[d]

\* Fewest targets, then fewest targets of the job, then the smaller name.
LighterFor(j, c, d) ==
    \/ numTargets[c] < numTargets[d]
    \/ /\ numTargets[c] = numTargets[d]
       /\ \/ targetsPerJob[c][j] < targetsPerJob[d][j]
          \/ /\ targetsPerJob[c][j] = targetsPerJob[d][j]
             /\ NameRank[c] <= NameRank[d]

\* Fault: the previous assignment is ignored.
LeastWeightedForgetful(t, c) ==
    c \in Live /\ \A d \in Live : LighterFor(JobName[t], c, d)

\* An item keeps a collector that is still there.
LeastWeighted(t, c) ==
    IF collectorName[t] \in Live
    THEN c = collectorName[t]
    ELSE c \in Live /\ \A d \in Live : LighterFor(JobName[t], c, d)

\* Fault: the order of the member list decides who owns a key.
ConsistentHashingAnyMember(m, c) == c \in members

ConsistentHashing(m, c) == c = LocateKey[members][m.url] /\ c \in Live

\* Fault: the fallback also takes targets whose node has no collector.
GetCollectorForTargetEagerFallback(t, m, c) ==
    IF m.node # NoNode /\ collectorByNode[m.node] # NoCollector
    THEN c = collectorByNode[m.node]
    ELSE LeastWeighted(t, c)

\* Fault: the fallback is never consulted.
GetCollectorForTargetNoFallback(t, m, c) ==
    m.node # NoNode /\ c = collectorByNode[m.node]

\* per-node hands an item without a node to its fallback.
StrategyFor(m) == IF Strategy = "per-node" /\ m.node = NoNode THEN Fallback ELSE Strategy

GetCollectorForTarget(t, m, c) ==
    \/ StrategyFor(m) = "least-weighted" /\ LeastWeighted(t, c)
    \/ StrategyFor(m) = "consistent-hashing" /\ ConsistentHashing(m, c)
    \/ StrategyFor(m) = "per-node" /\ c = collectorByNode[m.node]

\* Two collectors on one node: whichever the map walk meets last.
PerNodeIndexes(coll) ==
    {f \in [Node -> Collector \cup {NoCollector}] :
        \A n \in Node :
            IF \E c \in Collector : coll[c] = n
            THEN f[n] \in Collector /\ coll[f[n]] = n
            ELSE f[n] = NoCollector}

StrategySetCollectors(coll) ==
    /\ members' = {c \in Collector : coll[c] # Absent}
    /\ IF Strategy = "per-node"
       THEN collectorByNode' \in PerNodeIndexes(coll)
       ELSE UNCHANGED collectorByNode

-----------------------------------------------------------------------------
(* Moving one item t from its present collector (if any) to collector c, or *)
(* to none: unassignTargetItem, addCollectorTargetItemMapping and the       *)
(* counters, which the code always changes together.                        *)

Shift(t, c, d) ==
    (IF d = c THEN 1 ELSE 0)
      - (IF d = collectorName[t] /\ d \in Live THEN 1 ELSE 0)

\* Fault: the old entry of the per-collector index is not deleted.
MoveKeepsIndex(t, c) ==
    /\ numTargets' = [d \in Collector |-> numTargets[d] + Shift(t, c, d)]
    /\ UNCHANGED targetsPerJob
    /\ served' =
          [d \in Collector |-> [j \in Job |->
              IF d = c /\ j = JobName[t] THEN served[d][j] \cup {t} ELSE served[d][j]]]
    /\ collectorName' = [collectorName EXCEPT ![t] = c]

Move(t, c) ==
    /\ numTargets' = [d \in Collector |-> numTargets[d] + Shift(t, c, d)]
    /\ targetsPerJob' =
          [d \in Collector |-> [j \in Job |->
              targetsPerJob[d][j] + (IF j = JobName[t] THEN Shift(t, c, d) ELSE 0)]]
    /\ served' =
          [d \in Collector |-> [j \in Job |->
              IF j # JobName[t] THEN served[d][j]
              ELSE IF d = c THEN served[d][j] \cup {t}
              ELSE IF d = collectorName[t] /\ d \in Live THEN served[d][j] \ {t}
              ELSE served[d][j]]]
    /\ collectorName' = [collectorName EXCEPT ![t] = c]

\* addTargetToTargetItems.  An item whose placement fails stays tracked; its
\* caller has blanked or blanks the owner, and touches nothing else.
AddTargetToTargetItems(t, m) ==
    /\ targetItems' = [targetItems EXCEPT ![t] = m]
    /\ UNCHANGED <<collectors, strategy, published>>
    /\ \/ /\ Live = {}
          /\ UNCHANGED <<numTargets, targetsPerJob, served, collectorName>>
       \/ /\ Live # {}
          /\ \E c \in Collector : GetCollectorForTarget(t, m, c) /\ Move(t, c)
       \/ /\ Live # {}
          /\ ~ \E c \in Collector : GetCollectorForTarget(t, m, c)
          /\ collectorName' = [collectorName EXCEPT ![t] = NoCollector]
          /\ UNCHANGED <<numTargets, targetsPerJob, served>>

-----------------------------------------------------------------------------
(* SetTargets and handleTargets.                                            *)

\* The lock is taken and the diff computed; without a change the call
\* returns at once, which is a stuttering step.
SetTargets(new) ==
    /\ lock = "free"
    /\ removals' = {t \in Tracked : new[t] = NoItem}
    /\ additions' = [t \in Target |-> IF t \in Tracked THEN NoItem ELSE new[t]]
    /\ removals' # {} \/ additions' # Nothing
    /\ lock' = "handleTargets"
    /\ UNCHANGED <<tables, strategy, realloc, published>>

RemoveTarget(t) ==
    /\ lock = "handleTargets"
    /\ t \in removals
    /\ Move(t, NoCollector)
    /\ targetItems' = [targetItems EXCEPT ![t] = NoItem]
    /\ removals' = removals \ {t}
    /\ UNCHANGED <<collectors, strategy, lock, additions, realloc, published>>

AddTarget(t) ==
    /\ lock = "handleTargets"
    /\ removals = {}
    /\ additions[t] # NoItem
    /\ AddTargetToTargetItems(t, additions[t])
    /\ additions' = [additions EXCEPT ![t] = NoItem]
    /\ UNCHANGED <<lock, removals, realloc>>


(* SetCollectors and handleCollectors.                                      *)

\* Fault: the targets of a removed collector keep its name.
SetCollectorsKeepsNames(new) ==
    LET gone  == {c \in Live : new[c] = Absent}
        added == {c \in Collector \ Live : new[c] # Absent}
    IN  /\ lock = "free"
        /\ gone \cup added # {}
        /\ collectors' = [c \in Collector |->
                             IF c \in gone \cup added THEN new[c] ELSE collectors[c]]
        /\ served' = [c \in Collector |->
                         IF c \in gone THEN [j \in Job |-> {}] ELSE served[c]]
        /\ numTargets' = [c \in Collector |->
                             IF c \in gone \cup added THEN 0 ELSE numTargets[c]]
        /\ targetsPerJob' = [c \in Collector |->
                                IF c \in gone \cup added
                                THEN [j \in Job |-> 0] ELSE targetsPerJob[c]]
        /\ StrategySetCollectors(collectors')
        /\ realloc' = Tracked
        /\ lock' = "handleCollectors"
        /\ UNCHANGED <<targetItems, collectorName, removals, additions, published>>

\* The diff compares names only: a live collector keeps the node it was first
\* seen on.  Removed collectors lose their targets, new ones start empty.
SetCollectors(new) ==
    LET gone  == {c \in Live : new[c] = Absent}
        added == {c \in Collector \ Live : new[c] # Absent}
    IN  /\ lock = "free"
        /\ gone \cup added # {}
        /\ collectors' = [c \in Collector |->
                             IF c \in gone \cup added THEN new[c] ELSE collectors[c]]
        /\ collectorName' = [t \in Target |->
                                IF \E c \in gone, j \in Job : t \in served[c][j]
                                THEN NoCollector ELSE collectorName[t]]
        /\ served' = [c \in Collector |->
                         IF c \in gone THEN [j \in Job |-> {}] ELSE served[c]]
        /\ numTargets' = [c \in Collector |->
                             IF c \in gone \cup added THEN 0 ELSE numTargets[c]]
        /\ targetsPerJob' = [c \in Collector |->
                                IF c \in gone \cup added
                                THEN [j \in Job |-> 0] ELSE targetsPerJob[c]]
        /\ StrategySetCollectors(collectors')
        /\ realloc' = Tracked
        /\ lock' = "handleCollectors"
        /\ UNCHANGED <<targetItems, removals, additions, published>>

Reallocate(t) ==
    /\ lock = "handleCollectors"
    /\ t \in realloc
    /\ AddTargetToTargetItems(t, targetItems[t])
    /\ realloc' = realloc \ {t}
    /\ UNCHANGED <<lock, removals, additions>>

\* The deferred m.Unlock: readers see the tables again.
Unlock ==
    /\ lock # "free"
    /\ removals = {} /\ additions = Nothing /\ realloc = {}
    /\ lock' = "free"
    /\ published' = View
    /\ UNCHANGED <<tables, strategy, removals, additions, realloc>>

Next ==
    \/ \E new \in [Target -> Meta \cup {NoItem}] : SetTargets(new)
    \/ \E t \in Target : RemoveTarget(t)
    \/ \E t \in Target : AddTarget(t)
    \/ \E new \in [Collector -> Node \cup {Absent}] : SetCollectors(new)
    \/ \E t \in Target : Reallocate(t)
    \/ Unlock

Spec == Init /\ [][Next]_vars
-----------------------------------------------------------------------------
(* Properties.                                                              *)

Owned(c) == {t \in Target : collectorName[t] = c}
OwnedOfJob(c, j) == {t \in Target : collectorName[t] = c /\ JobName[t] = j}

\* At every step of every call, lock held or not, the three records of an
\* assignment agree: Item.CollectorName, the targetItemsPerJobPerCollector
\* index the HTTP handlers read, and the counters least-weighted decides by.
\* No item names a collector that is gone or is indexed without being tracked.
Bookkeeping ==
    /\ \A t \in Target : collectorName[t] # NoCollector =>
          collectorName[t] \in Live /\ t \in Tracked
    /\ \A c \in Collector, j \in Job : served[c][j] = OwnedOfJob(c, j)
    /\ \A c \in Collector : numTargets[c] = Cardinality(Owned(c))
    /\ \A c \in Collector, j \in Job :
          targetsPerJob[c][j] = Cardinality(OwnedOfJob(c, j))

\* "The caller must guarantee that the collectors map passed in
\* GetCollectorForTarget is consistent with the latest SetCollectors call"
\* (strategy.go): whenever an item may be placed, the ring has exactly the live
\* members and the node index only names live collectors, so neither an empty
\* ring nor a nil collector is ever dereferenced.
StrategyInSync ==
    /\ members = Live
    /\ \A n \in Node : collectorByNode[n] # NoCollector =>
          collectorByNode[n] \in Live /\ collectors[collectorByNode[n]] = n

\* per-node leaves an item out when its node has no collector, or when it has
\* no node and there is no fallback.
Unplaceable(t) ==
    /\ Strategy = "per-node"
    /\ IF targetItems[t].node = NoNode
       THEN Fallback = "none"
       ELSE \A c \in Live : collectors[c] # targetItems[t].node

\* Between calls a tracked target has an owner as soon as there is a
\* collector, unless the per-node strategy has none to offer.
EveryTargetPlaced ==
    lock = "free" /\ Live # {} =>
        \A t \in Tracked : collectorName[t] \in Live \/ Unplaceable(t)

\* per-node: the collector that serves a target with a node runs on that node,
\* even in the middle of a re-allocation.
NodeLocal ==
    Strategy = "per-node" => \A t \in Tracked :
        collectorName[t] # NoCollector /\ targetItems[t].node # NoNode =>
            collectors[collectorName[t]] = targetItems[t].node

\* consistent-hashing, as the strategy or as the fallback of per-node: between
\* calls the placement is a function of the live set and the target's URL alone,
\* whatever sequence of scale-ups, scale-downs and target changes led there.
HistoryIndependent ==
    lock = "free" /\ Live # {} =>
        \A t \in Tracked : StrategyFor(targetItems[t]) = "consistent-hashing" =>
            collectorName[t] = LocateKey[Live][targetItems[t].url]

Held(view, c) == UNION {view.served[c][j] : j \in Job}
Load(view, c) == Cardinality(Held(view, c))

\* least-weighted: from one published view to the next, a target that is still
\* tracked never leaves a collector that is still live.
Sticky ==
    [][Strategy = "least-weighted" =>
        \A c \in published.live \cap published'.live :
            Held(published, c) \cap published'.tracked \subseteq Held(published', c)
      ]_published

\* least-weighted: whatever order the map walks take, a collector that gains a
\* target in a call ends the call with at most one target more than any other.
GainersStayLevel ==
    [][Strategy = "least-weighted" =>
        \A c, d \in published'.live :
            Held(published', c) \ Held(published, c) # {} =>
                Load(published', c) <= Load(published', d) + 1
      ]_published

\* The table implements the abstract placement: readers, who are locked out
\* while a call is under way, see each call as one atomic change.
Abstract == INSTANCE Placement WITH
    view <- published, Total <- Strategy # "per-node"
ImplementsPlacement == Abstract!Spec
=============================================================================
