------------------------ MODULE CollectorWatcherProofs ------------------------
(***************************************************************************)
(* Proofs about CollectorWatcher: for any pods and nodes, no pod event is  *)
(* lost between the informer and SetCollectors.                            *)
(***************************************************************************)
EXTENDS CollectorWatcher, TLAPS

\* A collector map that is right, but for grace periods that ran out since.
Matches(m) ==
    /\ Collectors \subseteq DOMAIN m
    /\ \A p \in DOMAIN m : p \in Pod /\ store[p].node = m[p]
    /\ \A p \in DOMAIN m \ Collectors : IsPodUnhealthy(store[p])

\* A change is announced by queued or notify, will be read by the coming list,
\* or is in the map the handler has or has given away.
Announced ==
    ~ queued /\ ~ notify =>
        /\ handler = "set" => Matches(listed)
        /\ handler \in {"tick", "closed"} => Matches(given)

IInv == TypeOK /\ Announced

\* Listing the store gives a right map.
LEMMA ListingMatches ==
    ASSUME TypeOK
    PROVE  LET m == [p \in Collectors |-> store[p].node]
           IN  Matches(m) /\ m \in CollectorMap
<1> DEFINE m == [p \in Collectors |-> store[p].node]
<1>1. Collectors \subseteq Pod
  BY DEF Collectors
<1>2. \A p \in Collectors : store[p].node \in Node
  BY <1>1 DEF TypeOK, Collectors, PodState, Absent, NoNode
<1>3. m \in [Collectors -> Node]
  BY <1>2
<1>4. m \in CollectorMap
  BY <1>1, <1>3 DEF CollectorMap
<1>5. Matches(m)
  BY <1>1 DEF Matches
<1> QED
  BY <1>4, <1>5

\* The passing of time only turns collectors into unhealthy pods.
LEMMA TimeKeepsMatch ==
    ASSUME TypeOK, NEW p \in Pod, TimePasses(p)
    PROVE  /\ \A q \in Pod : store'[q].node = store[q].node
           /\ \A q \in Pod : IsPodUnhealthy(store[q]) => IsPodUnhealthy(store'[q])
           /\ store' \in [Pod -> PodState \cup {Absent}]
<1>1. store[p] \in PodState
  BY DEF TypeOK, TimePasses, PodState, Absent, NoNode
<1>2. \A q \in Pod : q # p => store'[q] = store[q]
  BY DEF TypeOK, TimePasses
<1>3. /\ store'[p] \in PodState
      /\ store'[p].node = store[p].node
      /\ IsPodUnhealthy(store[p]) => IsPodUnhealthy(store'[p])
  <2>1. CASE store' = [store EXCEPT ![p].startOld = TRUE]
    <3>1. store'[p] = [store[p] EXCEPT !.startOld = TRUE]
      BY <2>1 DEF TypeOK
    <3> QED
      BY <1>1, <3>1 DEF PodState, IsPodUnhealthy
  <2>2. CASE store' = [store EXCEPT ![p].readyOld = TRUE]
    <3>1. store'[p] = [store[p] EXCEPT !.readyOld = TRUE]
      BY <2>2 DEF TypeOK
    <3> QED
      BY <1>1, <3>1 DEF PodState, IsPodUnhealthy
  <2> QED
    BY <2>1, <2>2 DEF TimePasses
<1>4. store' \in [Pod -> PodState \cup {Absent}]
  BY <1>2, <1>3 DEF TypeOK, TimePasses
<1> QED
  BY <1>2, <1>3, <1>4

\* The invariant holds in every reachable state.
LEMMA Inductive == Spec => []IInv
<1>1. Init => IInv
  <2> SUFFICES ASSUME Init PROVE IInv
    OBVIOUS
  <2>1. NoCollectors \in CollectorMap
    <3>1. NoCollectors \in [{} -> Node]
      BY DEF NoCollectors
    <3> QED
      BY <3>1 DEF CollectorMap
  <2>2. changes \in 0..MaxChanges
    BY CollectorAssumption DEF Init
  <2>3. TypeOK
    BY <2>1, <2>2 DEF Init, TypeOK
  <2>4. Collectors = {}
    BY DEF Init, Collectors, Absent, NoNode
  <2>5. Announced
    BY <2>4 DEF Init, Announced, Matches, NoCollectors
  <2> QED
    BY <2>3, <2>5 DEF IInv
<1>2. IInv /\ [Next]_vars => IInv'
  <2> SUFFICES ASSUME IInv, [Next]_vars PROVE IInv'
    OBVIOUS
  <2>0. TypeOK /\ Announced
    BY DEF IInv
  <2>1. ASSUME NEW p \in Pod, PodChanges(p) PROVE IInv'
    <3>1. changes' \in 0..MaxChanges
      BY <2>0, <2>1, CollectorAssumption DEF PodChanges, TypeOK
    <3>2. store' \in [Pod -> PodState \cup {Absent}]
      BY <2>0, <2>1 DEF PodChanges, TypeOK
    <3> QED
      BY <2>0, <2>1, <3>1, <3>2 DEF PodChanges, TypeOK, IInv, Announced
  <2>2. ASSUME NEW p \in Pod, TimePasses(p) PROVE IInv'
    <3>1. /\ \A q \in Pod : store'[q].node = store[q].node
          /\ \A q \in Pod : IsPodUnhealthy(store[q]) => IsPodUnhealthy(store'[q])
          /\ store' \in [Pod -> PodState \cup {Absent}]
      BY <2>0, <2>2, TimeKeepsMatch
    <3>2. TypeOK'
      BY <2>0, <2>2, <3>1 DEF TimePasses, TypeOK
    <3>3. ASSUME NEW m, Matches(m)
          PROVE  /\ Collectors' \subseteq DOMAIN m
                 /\ \A q \in DOMAIN m : q \in Pod /\ store'[q].node = m[q]
                 /\ \A q \in DOMAIN m \ Collectors' : IsPodUnhealthy(store'[q])
      BY <3>1, <3>3 DEF Matches, Collectors
    <3>4. Announced'
      BY <2>0, <2>2, <3>3 DEF TimePasses, Announced, Matches
    <3> QED
      BY <3>2, <3>4 DEF IInv
  <2>3. CASE Resync
    BY <2>0, <2>3 DEF Resync, TypeOK, IInv, Announced
  <2>4. CASE NotifyFunc
    BY <2>0, <2>4 DEF NotifyFunc, TypeOK, IInv, Announced
  <2>5. CASE Tick
    BY <2>0, <2>5 DEF Tick, TypeOK, IInv, Announced
  <2>6. CASE ListCollectors
    <3>1. Matches(listed') /\ listed' \in CollectorMap
      BY <2>0, <2>6, ListingMatches DEF ListCollectors
    <3>2. Matches(listed)'
      BY <2>6, <3>1 DEF ListCollectors, Matches, Collectors, IsPodUnhealthy
    <3> QED
      BY <2>0, <2>6, <3>1, <3>2 DEF ListCollectors, TypeOK, IInv, Announced
  <2>7. CASE SetCollectors
    <3>1. NoCollectors \in CollectorMap
      <4>1. NoCollectors \in [{} -> Node]
        BY DEF NoCollectors
      <4> QED
        BY <4>1 DEF CollectorMap
    <3> QED
      BY <2>0, <2>7, <3>1 DEF SetCollectors, TypeOK, IInv, Announced, Matches, Collectors, IsPodUnhealthy
  <2>8. CASE Close
    BY <2>0, <2>8 DEF Close, TypeOK, IInv, Announced, Matches, Collectors, IsPodUnhealthy
  <2>9. CASE SeesClose
    BY <2>0, <2>9 DEF SeesClose, TypeOK, IInv, Announced, Matches, Collectors, IsPodUnhealthy
  <2>10. CASE UNCHANGED vars
    BY <2>0, <2>10 DEF vars, TypeOK, IInv, Announced, Matches, Collectors, IsPodUnhealthy
  <2> QED
    BY <2>1, <2>2, <2>3, <2>4, <2>5, <2>6, <2>7, <2>8, <2>9, <2>10 DEF Next
<1> QED
  BY <1>1, <1>2, PTL DEF Spec

\* The collector maps are maps from pods to nodes: no pod without a node ever
\* reaches the allocator.
THEOREM TypeCorrect == Spec => []TypeOK
<1>1. IInv => TypeOK
  BY DEF IInv
<1> QED
  BY <1>1, Inductive, PTL

\* When nothing is under way, SetCollectors was given every present collector
\* with its present node, and otherwise only pods whose grace period has run
\* out since.
THEOREM EventsArrive == Spec => []UpToDate
<1>1. IInv => UpToDate
  BY DEF IInv, TypeOK, Announced, Matches, UpToDate, InFlight
<1> QED
  BY <1>1, Inductive, PTL
=============================================================================
