---------------------------- MODULE DefaultTargets ----------------------------
(***************************************************************************)
(* Which default scrape targets a container takes on                       *)
(* (shared/configmap/mp/prometheus-config-merger.go).                      *)
(*                                                                         *)
(* The same image runs as the replicaset, as the Linux and the Windows     *)
(* daemonset and as the configuration reader of the operator's pod.  Each  *)
(* decides alone, from its environment and the settings ConfigMap, which   *)
(* of the enabled targets are its own: nobody hands them out.              *)
(***************************************************************************)
EXTENDS FiniteSets

\* Targets are named by their keys in the settings ConfigMap.
Target == {"kubelet", "coredns", "cadvisor", "kubeproxy", "apiserver", "kubestate",
           "nodeexporter", "kappiebasic", "networkobservabilityRetina",
           "networkobservabilityHubble", "networkobservabilityCilium", "ztunnel",
           "istio-cni", "controlplane-istio", "prometheuscollectorhealth",
           "windowsexporter", "windowskubeproxy", "podannotations",
           "acstor-capacity-provisioner", "acstor-metrics-exporter",
           "local-csi-driver", "dcgmexporter"}

\* The targets whose file stays with the templates and is edited in place; the
\* others are edited in the copies setDefaultFileScrapeInterval makes.
InPlace == {"ztunnel", "istio-cni", "controlplane-istio"}
Copied == Target \ InPlace

\* What a container knows of itself.  advanced, winDaemonset, mac: MODE, WINMODE
\* and MAC; sidecar: CONTAINER_TYPE is the configuration reader's; fqdn: a valid
\* MESH_MEMBER_METRICS_FQDN.
Pod == [controller : {"replicaset", "daemonset", ""}, os : {"linux", "windows"},
        sidecar : BOOLEAN, advanced : BOOLEAN, winDaemonset : BOOLEAN,
        mac : BOOLEAN, fqdn : BOOLEAN]

RS(p) == p.controller = "replicaset"
DS(p) == p.controller = "daemonset"
Linux(p) == p.os = "linux"

isConfigReaderSidecar(p) == p.sidecar

\* On the operator's path the configuration reader stands in for the replicaset.
Central(p) == isConfigReaderSidecar(p) \/ RS(p)

-----------------------------------------------------------------------------
(* The replicaset scrapes the node targets only in simple mode: in advanced *)
(* mode the daemonsets do.  A target whose file must be rewritten with the  *)
(* node's address is taken on only if the file can be read: it is in files. *)

\* kubelet, coredns, cadvisor
KubeletBlocks(p, files) ==
    {t \in {"kubelet"} : IF RS(p) THEN ~ p.advanced
                         ELSE p.advanced /\ (p.winDaemonset \/ Linux(p)) /\ t \in files}
    \cup {t \in {"coredns"} : RS(p)}
    \cup {t \in {"cadvisor"} : IF RS(p) THEN ~ p.advanced
                               ELSE p.advanced /\ Linux(p) /\ t \in files}

\* kubeproxy, apiserver, kubestate, nodeexporter
ClusterBlocks(p, files) ==
    {t \in {"kubeproxy", "apiserver"} : RS(p)}
    \cup {t \in {"kubestate"} : RS(p) /\ t \in files}
    \cup {t \in {"nodeexporter"} : /\ IF RS(p) THEN ~ p.advanced ELSE p.advanced /\ Linux(p)
                                   /\ t \in files}

\* kappiebasic and network observability: on the nodes only
NetworkBlocks(p, files) ==
    {t \in {"kappiebasic", "networkobservabilityRetina"} \cap files :
        ~ RS(p) /\ p.advanced /\ p.mac}
    \cup {t \in {"networkobservabilityHubble", "networkobservabilityCilium"} \cap files :
        ~ RS(p) /\ p.advanced /\ p.mac /\ Linux(p)}

\* the mesh's targets, and the collector's own health, which every container takes
MeshBlocks(p, files) ==
    {t \in {"ztunnel", "istio-cni"} \cap files : RS(p) /\ Linux(p)}
    \cup {t \in {"controlplane-istio"} \cap files : RS(p) /\ p.fqdn}
    \cup {"prometheuscollectorhealth"}

WindowsBlocks(p, files) ==
    {t \in {"windowsexporter", "windowskubeproxy"} \cap files :
        \/ RS(p) /\ ~ p.advanced /\ Linux(p)
        \/ DS(p) /\ p.advanced /\ p.winDaemonset /\ ~ Linux(p)}

\* pod annotations, container storage, local CSI driver, GPU exporter
StorageBlocks(p) ==
    {t \in {"podannotations", "acstor-capacity-provisioner", "acstor-metrics-exporter",
            "local-csi-driver"} : RS(p)}
    \cup {t \in {"dcgmexporter"} : RS(p) /\ Linux(p)}

populateDefaultPrometheusConfig(p, on, files) ==
    on \cap (KubeletBlocks(p, files) \cup ClusterBlocks(p, files) \cup NetworkBlocks(p, files)
             \cup MeshBlocks(p, files) \cup WindowsBlocks(p, files) \cup StorageBlocks(p))

-----------------------------------------------------------------------------
(* The same with the operator. *)

KubeletBlocksOp(p, files) ==
    {t \in {"kubelet"} :
        IF Central(p) THEN ~ p.advanced
        ELSE p.advanced /\ DS(p) /\ (p.winDaemonset \/ Linux(p)) /\ t \in files}
    \cup {t \in {"coredns"} : Central(p)}
    \cup {t \in {"cadvisor"} : IF Central(p) THEN ~ p.advanced
                               ELSE p.advanced /\ DS(p) /\ Linux(p) /\ t \in files}

ClusterBlocksOp(p, files) ==
    {t \in {"kubeproxy", "apiserver"} : Central(p)}
    \cup {t \in {"kubestate"} : Central(p) /\ t \in files}
    \cup {t \in {"nodeexporter"} :
            /\ IF Central(p) THEN ~ p.advanced ELSE p.advanced /\ DS(p) /\ Linux(p)
            /\ t \in files}

NetworkBlocksOp(p, files) ==
    {t \in {"kappiebasic"} \cap files : ~ Central(p) /\ DS(p) /\ p.advanced /\ p.mac}
    \cup {t \in {"networkobservabilityRetina"} \cap files :
            ~ Central(p) /\ p.advanced /\ p.mac}
    \cup {t \in {"networkobservabilityHubble", "networkobservabilityCilium"} \cap files :
            ~ Central(p) /\ p.advanced /\ p.mac /\ Linux(p)}

MeshBlocksOp(p, files) ==
    {t \in {"ztunnel", "istio-cni"} \cap files :
        isConfigReaderSidecar(p) \/ (RS(p) /\ Linux(p))}
    \cup {t \in {"controlplane-istio"} \cap files : Central(p) /\ p.fqdn}
    \cup {"prometheuscollectorhealth"}

\* The sidecar is left out: the comment in the code calls this path legacy.
WindowsBlocksOp(p, files) ==
    {t \in {"windowsexporter", "windowskubeproxy"} \cap files :
        \/ RS(p) /\ ~ p.advanced /\ Linux(p)
        \/ DS(p) /\ p.advanced /\ p.winDaemonset /\ ~ Linux(p)}

\* Fault: the GPU exporter's block still asks for the replicaset.
StorageBlocksOpReplicasetOnly(p) ==
    {t \in {"podannotations", "acstor-capacity-provisioner", "acstor-metrics-exporter",
            "local-csi-driver"} : Central(p)}
    \cup {t \in {"dcgmexporter"} : RS(p)}

StorageBlocksOp(p) ==
    {t \in {"podannotations", "acstor-capacity-provisioner", "acstor-metrics-exporter",
            "local-csi-driver", "dcgmexporter"} : Central(p)}

populateDefaultPrometheusConfigWithOperator(p, on, files) ==
    on \cap (KubeletBlocksOp(p, files) \cup ClusterBlocksOp(p, files)
             \cup NetworkBlocksOp(p, files) \cup MeshBlocksOp(p, files)
             \cup WindowsBlocksOp(p, files) \cup StorageBlocksOp(p))
=============================================================================
