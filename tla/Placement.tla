------------------------------ MODULE Placement ------------------------------
(***************************************************************************)
(* What the target allocator promises the collectors that poll it, with    *)
(* nothing said of strategies, counters or locks: each call atomically     *)
(* installs a new set of targets or of collectors together with a          *)
(* placement in which no target is handed to two collectors, nothing is    *)
(* handed to a collector that is gone, and a collector finds a target      *)
(* under the job the target belongs to.  A Total placement leaves no       *)
(* target without a collector as long as there is a collector.             *)
(***************************************************************************)
CONSTANTS Collector, Target, Job, JobName, Total

VARIABLE view   \* what readers see: [live, tracked, served]

Partition(v) ==
    /\ \A c \in Collector, j \in Job : v.served[c][j] # {} => c \in v.live
    /\ \A c \in Collector, j \in Job : \A t \in v.served[c][j] :
          t \in v.tracked /\ JobName[t] = j
    /\ \A c, d \in Collector, i, j \in Job :
          v.served[c][i] \cap v.served[d][j] # {} => c = d

Complete(v) ==
    v.live # {} => \A t \in v.tracked :
        \E c \in v.live : t \in v.served[c][JobName[t]]

Placed(v) == Partition(v) /\ (Total => Complete(v))

Views == [live : SUBSET Collector, tracked : SUBSET Target,
          served : [Collector -> [Job -> SUBSET Target]]]

Init == view = [live |-> {}, tracked |-> {},
                served |-> [c \in Collector |-> [j \in Job |-> {}]]]

\* New targets: the collectors stay.
SetTargets == view' \in Views /\ Placed(view') /\ view'.live = view.live

\* New collectors: the targets stay.
SetCollectors == view' \in Views /\ Placed(view') /\ view'.tracked = view.tracked

Next == SetTargets \/ SetCollectors

Spec == Init /\ [][Next]_view
=============================================================================
