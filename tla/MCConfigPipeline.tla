--------------------------- MODULE MCConfigPipeline ---------------------------
(* The containers of four kinds of clusters, the control plane's, and         *)
(* ConfigMaps with everything the pipelines tell apart.                       *)
EXTENDS ConfigStartup, TLC

Container(controller, os, sidecar, advanced, winDaemonset, mac, fqdn) ==
    [controller |-> controller, os |-> os, sidecar |-> sidecar, advanced |-> advanced,
     winDaemonset |-> winDaemonset, mac |-> mac, fqdn |-> fqdn]

\* The addon with the operator, the addon without it, the legacy chart in simple
\* mode, and in advanced mode without Windows nodes.
MCClusters ==
    {[operator |-> TRUE, https |-> TRUE, pods |->
        {Container("replicaset", "linux", FALSE, TRUE, TRUE, TRUE, TRUE),
         Container("", "linux", TRUE, TRUE, FALSE, TRUE, TRUE),
         Container("daemonset", "linux", FALSE, TRUE, TRUE, TRUE, FALSE),
         Container("daemonset", "windows", FALSE, TRUE, TRUE, TRUE, FALSE)}],
     [operator |-> FALSE, https |-> FALSE, pods |->
        {Container("replicaset", "linux", FALSE, TRUE, TRUE, TRUE, FALSE),
         Container("daemonset", "linux", FALSE, TRUE, TRUE, TRUE, FALSE),
         Container("daemonset", "windows", FALSE, TRUE, TRUE, TRUE, FALSE)}],
     [operator |-> FALSE, https |-> FALSE, pods |->
        {Container("replicaset", "linux", FALSE, FALSE, FALSE, FALSE, FALSE)}],
     [operator |-> FALSE, https |-> FALSE, pods |->
        {Container("replicaset", "linux", FALSE, TRUE, FALSE, FALSE, FALSE),
         Container("daemonset", "linux", FALSE, TRUE, FALSE, FALSE, FALSE)}]}

Keys == Target \ {"podannotations"}
Nothing == [t \in {} |-> ""]

TargetSections ==
    {Nothing, [t \in Keys |-> "true"], [t \in Keys |-> "false"],
     [t \in {"kubelet", "cadvisor", "nodeexporter", "prometheuscollectorhealth",
             "kappiebasic"} |-> ""]}
KeepSections == {Nothing, [t \in {"kubelet", "podannotations"} |-> "regex"],
                 [t \in {"coredns"} |-> "bad"]}
IntervalSections == {Nothing, [t \in {"controlplane-istio"} |-> "5s"],
                     [t \in {"kubelet"} |-> "bad"] @@ [t \in {"cadvisor"} |-> "1m"]}

MCSettings ==
    {[schema |-> v, readable |-> TRUE, targets |-> ts, minimal |-> mi, keep |-> ks,
      interval |-> is, annotations |-> an, https |-> IF mi = "false" THEN "false" ELSE "absent",
      debug |-> mi = "false", otlp |-> IF mi = "false" THEN "true" ELSE "bad",
      ksm |-> mi = "false", alias |-> IF mi = "false" THEN "name" ELSE "symbols"] :
        v \in {"v1", "v2"}, ts \in TargetSections, mi \in {"absent", "false"},
        ks \in KeepSections, is \in IntervalSections, an \in {"regex", "bad"}}
    \cup
    {[schema |-> v, readable |-> FALSE, targets |-> Nothing, minimal |-> "absent",
      keep |-> Nothing, interval |-> Nothing, annotations |-> "absent", https |-> "absent",
      debug |-> FALSE, otlp |-> "absent", ksm |-> FALSE, alias |-> "absent"] : v \in {"missing", "other"}}

MCCustoms == CustomKind
\* The two that cost the container its default targets, each by itself.
MCMalformed == {"malformed"}
MCNotMapping == {"notMapping"}

CcpTargetSections ==
    {Nothing, [t \in CcpTarget |-> "true"], [t \in CcpTarget |-> ""],
     [t \in {"apiserver", "etcd"} |-> "false"], [t \in {"kube-scheduler"} |-> "true"]}
CcpKeepSections == {Nothing, [t \in {"apiserver", "etcd"} |-> "regex"],
                    [t \in {"apiserver"} |-> "regex"] @@ [t \in {"kube-scheduler"} |-> "bad"]}

MCCcpSettings ==
    {[version |-> ve, schema |-> v, listed |-> li, unreadable |-> un, targets |-> ts, minimal |-> mi,
      keep |-> ks, alias |-> IF mi = "false" THEN "name" ELSE "symbols",
      otlp |-> IF mi = "false" THEN "true" ELSE "bad"] :
        ve \in {"missing", "set", "unreadable"},
        v \in {"missing", "unreadable", "v1", "v2", "other"}, li \in BOOLEAN,
        un \in {{}, {"targets"}, {"keep", "collector"}},
        ts \in CcpTargetSections, mi \in {"absent", "false", "bad"}, ks \in CcpKeepSections}
=============================================================================
