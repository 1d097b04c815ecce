----------------------------- MODULE ConfigStartup -----------------------------
(***************************************************************************)
(* Which pipeline a container runs (otelcollector/main/main.go): the one of *)
(* the control plane if CCP_METRICS_ENABLED, or else the cluster's.         *)
(***************************************************************************)
EXTENDS ConfigPipeline, ControlPlaneConfig

allVars == <<vars, ccpVars>>

\* The cluster's pipeline does not run in the control plane's pod.
PipelineIdle ==
    /\ cluster = CHOOSE c \in Clusters : TRUE
    /\ pod = CHOOSE p \in cluster.pods : TRUE
    /\ cm = CHOOSE s \in Settings : TRUE
    /\ custom = "none" /\ pc = "idle" /\ env = NoEnv
    /\ keepHash = NoHash /\ intervalHash = NoHash
    /\ files = [promMerged |-> Missing, defaultsMerged |-> Missing, collector |-> Missing,
                collectorDefault |-> Config({}, "empty", FALSE)]
    /\ chosen = [path |-> "", config |-> Missing, global |-> FALSE]

StartInit == (Init /\ CcpIdle) \/ (CcpInit /\ PipelineIdle)

\* The configuration is there, or the process has ended on the way to it.
Ready == (pc \in {"done", "crashed"} \/ stage = "done") /\ UNCHANGED allVars

StartNext == (Next /\ UNCHANGED ccpVars) \/ (CcpNext /\ UNCHANGED vars) \/ Ready

StartSpec == StartInit /\ [][StartNext]_allVars

\* Keep lists are in force together or not at all, in either pipeline: one regex
\* that does not compile never leaves some targets with and others without theirs.
FiltersWhole == FilteredAllOrNothing /\ CcpFiltered
=============================================================================
