--------------------------- MODULE CollectorWatcher ---------------------------
(***************************************************************************)
(* The collector watcher (otel-allocator/internal/collector/collector.go): *)
(* which pods the allocator is told are collectors.                        *)
(*                                                                         *)
(* The pod informer updates its store and later, in another goroutine,     *)
(* calls the handler, which puts a token in notify (capacity 1).  A ticker *)
(* takes the token and gives the scheduled, healthy pods of the store to   *)
(* SetCollectors.  A pod becomes unhealthy by the mere passing of time, so *)
(* no event announces it: only the informer's resync brings it up.         *)
(***************************************************************************)
EXTENDS Naturals

CONSTANTS
    Pod, Node,
    GracePeriod,  \* FALSE: collectorNotReadyGracePeriod is 0
    MaxChanges    \* bound: changes of pods

ASSUME CollectorAssumption ==
    /\ Pod # {} /\ Node # {}
    /\ GracePeriod \in BOOLEAN /\ MaxChanges \in Nat

NoNode == "none"

\* What runOnCollectors looks at of a pod.  startOld, readyOld: the grace period
\* has passed since status.startTime (set when the pod has a node), and since
\* the last transition of the Ready condition.
PodState == [node : Node \cup {NoNode}, running : BOOLEAN, startOld : BOOLEAN,
             ready : {"noCondition", "true", "false"}, readyOld : BOOLEAN]
Absent == [node |-> NoNode, running |-> FALSE, startOld |-> FALSE,
           ready |-> "absent", readyOld |-> FALSE]

VARIABLES
    store,      \* [Pod -> the informer's object]
    queued,     \* the informer has a notice for the handler
    notify,     \* the notify channel
    handler,    \* rateLimitedCollectorHandler: "tick", "list", "set", "closed"
    listed,     \* the collector map runOnCollectors built: [pods -> nodes]
    given,      \* what SetCollectors was last given
    closed,     \* Close was called
    changes

vars == <<store, queued, notify, handler, listed, given, closed, changes>>

CollectorMap == UNION {[S -> Node] : S \in SUBSET Pod}
NoCollectors == [p \in {} |-> NoNode]

TypeOK ==
    /\ store \in [Pod -> PodState \cup {Absent}]
    /\ queued \in BOOLEAN /\ notify \in BOOLEAN /\ closed \in BOOLEAN
    /\ handler \in {"tick", "list", "set", "closed"}
    /\ listed \in CollectorMap /\ given \in CollectorMap
    /\ changes \in 0..MaxChanges

Init ==
    /\ store = [p \in Pod |-> Absent]
    /\ queued = FALSE /\ notify = FALSE /\ closed = FALSE
    /\ handler = "tick"
    /\ listed = NoCollectors /\ given = NoCollectors
    /\ changes = 0

-----------------------------------------------------------------------------

IsPodUnhealthy(s) ==
    GracePeriod /\ ((~ s.running /\ s.startOld) \/ (s.ready = "false" /\ s.readyOld))

\* The pods that are collectors now.
Collectors == {p \in Pod : store[p].node # NoNode /\ ~ IsPodUnhealthy(store[p])}

\* A pod starts, is scheduled, changes, is replaced under its name or is
\* deleted.  The kubelet sets startTime once there is a node; a changed Ready
\* condition is new.
Follows(s, t) ==
    \/ t = Absent /\ s # Absent
    \/ /\ t # Absent /\ t # s
       /\ t.node = NoNode => s = Absent /\ ~ t.running /\ t.ready = "noCondition"
       /\ t.startOld => s.startOld /\ t.node = s.node
       /\ t.readyOld => t.ready = s.ready /\ s.readyOld
       /\ t.ready = "noCondition" => ~ t.readyOld
       /\ t.ready # "noCondition" => t.node # NoNode

PodChanges(p) ==
    /\ ~ closed /\ changes < MaxChanges
    /\ \E t \in PodState \cup {Absent} :
          /\ Follows(store[p], t)
          /\ store' = [store EXCEPT ![p] = t]
    /\ changes' = changes + 1
    /\ queued' = TRUE
    /\ UNCHANGED <<notify, handler, listed, given, closed>>

\* The grace period of a pod's start or of its Ready condition runs out.
\* Nothing is notified.
TimePasses(p) ==
    /\ store[p].node # NoNode
    /\ \/ ~ store[p].startOld /\ store' = [store EXCEPT ![p].startOld = TRUE]
       \/ /\ ~ store[p].readyOld /\ store[p].ready # "noCondition"
          /\ store' = [store EXCEPT ![p].readyOld = TRUE]
    /\ UNCHANGED <<queued, notify, handler, listed, given, closed, changes>>

\* Fault: the informer factory has no resync period.
ResyncNever == FALSE /\ UNCHANGED vars

\* Every 30 seconds the informer sends an update for every pod in its store.
Resync ==
    /\ ~ closed /\ ~ queued
    /\ \E p \in Pod : store[p] # Absent
    /\ queued' = TRUE
    /\ UNCHANGED <<store, notify, handler, listed, given, closed, changes>>

\* Fault: the handler only notifies when the rate limiter waits for it.
NotifyFuncUnbuffered ==
    /\ queued
    /\ queued' = FALSE
    /\ notify' = (notify \/ handler = "tick")
    /\ UNCHANGED <<store, handler, listed, given, closed, changes>>

NotifyFunc ==
    /\ queued
    /\ queued' = FALSE
    /\ notify' = TRUE
    /\ UNCHANGED <<store, handler, listed, given, closed, changes>>

Tick ==
    /\ handler = "tick" /\ notify
    /\ notify' = FALSE
    /\ handler' = "list"
    /\ UNCHANGED <<store, queued, listed, given, closed, changes>>

ListCollectors ==
    /\ handler = "list"
    /\ listed' = [p \in Collectors |-> store[p].node]
    /\ handler' = "set"
    /\ UNCHANGED <<store, queued, notify, given, closed, changes>>

SetCollectors ==
    /\ handler = "set"
    /\ given' = listed
    /\ listed' = NoCollectors
    /\ handler' = "tick"
    /\ UNCHANGED <<store, queued, notify, closed, changes>>

Close ==
    /\ ~ closed
    /\ closed' = TRUE
    /\ UNCHANGED <<store, queued, notify, handler, listed, given, changes>>

SeesClose ==
    /\ closed /\ handler = "tick"
    /\ handler' = "closed"
    /\ UNCHANGED <<store, queued, notify, listed, given, closed, changes>>

Next ==
    \/ \E p \in Pod : PodChanges(p)
    \/ \E p \in Pod : TimePasses(p)
    \/ Resync \/ NotifyFunc \/ Tick \/ ListCollectors \/ SetCollectors
    \/ Close \/ SeesClose

\* The informer's timer and the handler's ticker fire for ever, and time passes.
Fairness ==
    /\ WF_vars(\E p \in Pod : TimePasses(p))
    /\ WF_vars(Resync) /\ WF_vars(NotifyFunc)
    /\ WF_vars(Tick) /\ WF_vars(ListCollectors) /\ WF_vars(SetCollectors)
    /\ WF_vars(SeesClose)

Spec == Init /\ [][Next]_vars
FairSpec == Spec /\ Fairness

-----------------------------------------------------------------------------
(* Properties.                                                              *)

InFlight == queued \/ notify \/ handler \in {"list", "set"}

\* Between a stored change and the handler no event is lost: when nothing is
\* under way, SetCollectors was given every pod that is a collector now, with
\* its present node, and beyond them only pods whose grace period has run out
\* since.
UpToDate ==
    ~ InFlight /\ ~ closed =>
        /\ Collectors \subseteq DOMAIN given
        /\ \A p \in DOMAIN given : store[p].node = given[p]
        /\ \A p \in DOMAIN given \ Collectors : IsPodUnhealthy(store[p])

\* A pod that was not ready for longer than the grace period loses its
\* targets, although no event says so, and one that comes up or recovers gets a
\* share.
SharesFollowHealth ==
    \A p \in Pod :
        /\ IsPodUnhealthy(store[p]) ~>
              (p \notin DOMAIN given \/ ~ IsPodUnhealthy(store[p]) \/ closed)
        /\ p \in Collectors ~> (p \in DOMAIN given \/ p \notin Collectors \/ closed)
=============================================================================
