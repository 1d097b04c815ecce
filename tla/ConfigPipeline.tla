---------------------------- MODULE ConfigPipeline ----------------------------
(***************************************************************************)
(* From the ConfigMaps to the collector's configuration                    *)
(* (shared/configmap/mp, prom-config-validator-builder).                   *)
(*                                                                         *)
(* When a container starts it reads the settings ConfigMap, writes what it *)
(* found to files and environment variables, merges the default targets    *)
(* that are its own with the customer's Prometheus configuration, has the  *)
(* validator turn the result into a collector configuration, and falls     *)
(* back to the default targets when the validator refuses.  The stages     *)
(* talk to each other through files: a stage that stops early leaves a     *)
(* file out, and a later one reads its absence as a setting.               *)
(***************************************************************************)
EXTENDS DefaultTargets

CONSTANTS
    Clusters,       \* [pods : SUBSET Pod, operator, https : BOOLEAN]: the chart's settings
    Settings,       \* contents of the settings ConfigMap
    Customs         \* kinds of custom Prometheus configurations

\* How a custom configuration differs for this code.  "none": not mounted, or
\* empty; "malformed": not YAML; "unsupported": remote_write and the like;
\* "invalid": refused when the collector loads it; "clash": its job has the name
\* of the kubelet's; "noJobs": only global settings; "notMapping": an item of its
\* scrape_configs is no mapping (an empty item, a bare string).
CustomKind == {"none", "malformed", "unsupported", "invalid", "clash", "noJobs",
               "notMapping", "valid"}

\* schema, readable: schema-version, and whether the sections could be read.  Under
\* v1 every section is a file, and one that cannot be read is skipped like one that
\* is not there: such a ConfigMap is one without that section's values.
\* targets, keep, interval: the values given, for the targets that have one; there
\* is no key for a keep list of the collector's own health.
SettingsType ==
    [schema : {"missing", "v1", "v2", "other"}, readable : BOOLEAN,
     targets : UNION {[S -> {"true", "false", ""}] : S \in SUBSET Target},
     minimal : {"absent", "true", "false"},
     keep : UNION {[S -> {"regex", "bad"}] : S \in SUBSET (Target \ {"prometheuscollectorhealth"})},
     interval : UNION {[S -> {"1m", "5s", "bad"}] : S \in SUBSET Target},
     annotations : {"absent", "regex", "bad"},
     https : {"absent", "false"}, debug : BOOLEAN, otlp : {"absent", "true", "bad"},
     ksm : BOOLEAN, alias : {"absent", "name", "symbols"}]

ASSUME PipelineAssumption ==
    /\ Clusters # {} /\ Settings # {}
    /\ \A c \in Clusters : /\ c.pods \subseteq Pod /\ c.pods # {}
                           /\ c.operator \in BOOLEAN /\ c.https \in BOOLEAN
    /\ \A s \in Settings :
          /\ s.schema \in {"missing", "v1", "v2", "other"}
          /\ \A t \in DOMAIN s.interval : s.interval[t] \in {"1m", "5s", "bad"}
          /\ "prometheuscollectorhealth" \notin DOMAIN s.keep
    /\ Customs \subseteq CustomKind

\* What the charts deploy (deploy/addon-chart, deploy/chart).  A cluster has one mode,
\* and one workload per controller and system; the replicaset and the configuration
\* reader run on Linux, only a daemonset on Windows, and then WINMODE is set.  The
\* configuration reader comes with the operator, in advanced mode, and knows the
\* mesh's address if the replicaset does.
ASSUME ChartAssumption ==
    \A c \in Clusters :
        /\ \A p \in c.pods :
              /\ isConfigReaderSidecar(p) => c.operator /\ p.controller = "" /\ p.advanced
              /\ ~ isConfigReaderSidecar(p) => RS(p) \/ DS(p)
              /\ ~ Linux(p) => DS(p) /\ p.winDaemonset
        /\ \A p, q \in c.pods :
              /\ p.advanced = q.advanced
              /\ p.controller = q.controller /\ p.os = q.os => p = q
              /\ Central(p) /\ Central(q) => p.fqdn = q.fqdn
        /\ c.operator => \E p \in c.pods : isConfigReaderSidecar(p)

Interval == {"30s", "1m", "5s"}
\* confined: the job keeps only the pods of the namespaces the customer named.
Job == [target : Target, interval : Interval, keep : SUBSET {"custom", "minimal"},
        confined : BOOLEAN]
Missing == [jobs |-> {}, custom |-> "absent", limits |-> FALSE]

\* A configuration: default jobs, the custom part it holds, and whether that part has
\* its label limits.  "empty": the one of the image, whose only job is the empty_job
\* without which the collector does not start; "allocator": the target_allocator
\* of the replicaset.
Config(jobs, custom, limits) == [jobs |-> jobs, custom |-> custom, limits |-> limits]

VARIABLES
    cluster, pod,   \* where this container runs, and which one it is
    cm, custom,     \* the mounted ConfigMaps
    pc,             \* the stage
    env,            \* environment variables, by what they say
    keepHash,       \* config_def_targets_metrics_keep_list_hash
    intervalHash,   \* config_def_targets_scrape_intervals_hash
    files,          \* configurations on disk
    chosen          \* the configuration the collector is started with

inputs == <<cluster, pod, cm, custom>>
vars == <<cluster, pod, cm, custom, pc, env, keepHash, intervalHash, files, chosen>>

NoHash == [t \in {} |-> {}]
NoEnv == [schema |-> "", sections |-> FALSE, on |-> {}, namespaces |-> FALSE,
          noDefaults |-> FALSE, https |-> FALSE, debug |-> FALSE, otlp |-> FALSE,
          ksm |-> FALSE, label |-> "", minimal |-> "unset", invalidCustom |-> FALSE,
          useDefault |-> FALSE, setGlobal |-> FALSE]

Init ==
    /\ cluster \in Clusters /\ pod \in cluster.pods
    /\ cm \in Settings /\ custom \in Customs
    /\ pc = "versions" /\ env = NoEnv
    /\ keepHash = NoHash /\ intervalHash = NoHash
    /\ files = [promMerged |-> Missing, defaultsMerged |-> Missing, collector |-> Missing,
                collectorDefault |-> Config({}, "empty", FALSE)]
    /\ chosen = [path |-> "", config |-> Missing, global |-> FALSE]

operatorEnabled == cluster.operator /\ RS(pod)

-----------------------------------------------------------------------------
(* The settings ConfigMap. *)

\* A missing, empty or unreadable schema-version counts as v1.
setConfigSchemaVersionEnv == IF cm.schema = "missing" THEN "v1" ELSE cm.schema

\* Configmapparser: an unknown version, or sections that cannot be read, leave
\* the map nil, and every stage takes its defaults.  A single file that cannot be read
\* under v1 is skipped, like one that is not there: its section has no values in cm.
Versions ==
    /\ pc = "versions"
    /\ env' = [env EXCEPT !.schema = setConfigSchemaVersionEnv,
                          !.sections = setConfigSchemaVersionEnv \in {"v1", "v2"} /\ cm.readable]
    /\ pc' = "settings"
    /\ UNCHANGED <<inputs, keepHash, intervalHash, files, chosen>>

\* A section without a regex, or with one that does not compile, is an error.
populatePodAnnotationNamespaceFromConfigMap(e) == e.sections /\ cm.annotations = "regex"

\* The file switches pod annotations on and names the namespaces, or is not there.
parseSettingsForPodAnnotations(e) ==
    LET found == populatePodAnnotationNamespaceFromConfigMap(e)
    IN  [e EXCEPT !.on = @ \cup {t \in {"podannotations"} : found}, !.namespaces = found]

\* An alias loses every character that is neither a letter nor a digit.  The
\* operator is the chart's decision: the ConfigMap can confirm it and not take it
\* back.  HTTPS is the chart's decision that the ConfigMap can take back.
PopulateSettingValuesFromConfigMap ==
    [alias |-> IF cm.alias = "name" THEN "alias" ELSE "",
     https |-> cluster.https /\ cm.https # "false"]

\* The label of the cluster: the alias, if anything is left of it.
parsePrometheusCollectorConfig(e) ==
    LET found == IF e.sections THEN PopulateSettingValuesFromConfigMap
                 ELSE [alias |-> "", https |-> cluster.https]
    IN  [e EXCEPT !.https = found.https,
                  !.label = IF found.alias = "" THEN "cluster" ELSE found.alias]

SetDefaultScrapeSettings ==
    [t \in Target \ {"podannotations"} |->
        IF t \in {"coredns", "kubeproxy", "apiserver", "prometheuscollectorhealth",
                  "windowsexporter", "windowskubeproxy", "ztunnel", "istio-cni",
                  "controlplane-istio"}
        THEN "false" ELSE "true"]

ParseConfigMapForDefaultScrapeSettings(e) ==
    [t \in DOMAIN SetDefaultScrapeSettings |->
        IF e.sections /\ t \in DOMAIN cm.targets THEN cm.targets[t]
        ELSE SetDefaultScrapeSettings[t]]

\* Only the empty value counts as "no defaults", and in advanced mode only in the
\* replicaset.
NoDefaultsEnabled(config) ==
    /\ \A t \in {"kubelet", "cadvisor", "nodeexporter", "prometheuscollectorhealth",
                 "kappiebasic"} : config[t] = ""
    /\ pod.advanced => RS(pod) /\ Linux(pod)

parseDefaultScrapeSettings(e) ==
    LET config == ParseConfigMapForDefaultScrapeSettings(e)
    IN  [e EXCEPT !.on = @ \cup {t \in DOMAIN config : config[t] = "true"},
                  !.noDefaults = NoDefaultsEnabled(config)]

parseDebugModeSettings(e) == [e EXCEPT !.debug = e.sections /\ cm.debug]

\* A value that is no Boolean is false.
parseOpentelemetryMetricsSettings(e) ==
    [e EXCEPT !.otlp = e.sections /\ cm.otlp = "true"]

parseKSMSettings(e) == [e EXCEPT !.ksm = e.sections /\ cm.ksm]

\* The stages that only write environment variables, in their order.
ParseSettings ==
    /\ pc = "settings"
    /\ env' = parseKSMSettings(parseOpentelemetryMetricsSettings(parseDebugModeSettings(
                parseDefaultScrapeSettings(parsePrometheusCollectorConfig(
                parseSettingsForPodAnnotations(env))))))
    /\ pc' = "keepList"
    /\ UNCHANGED <<inputs, keepHash, intervalHash, files, chosen>>

\* Anything but "false", and no section at all, is true.
populateKeepList(e) ==
    IF e.sections /\ cm.minimal = "false" THEN "false" ELSE "true"

validateRegexValues(e) == e.sections => \A t \in DOMAIN cm.keep : cm.keep[t] # "bad"

\* The rule each target gets: the customer's regex, the minimal profile's, or
\* both.  Pod annotations have no minimal profile, the collector's health no rule.
populateRegexValuesWithMinimalIngestionProfile(e, minimal) ==
    [t \in Target \ {"prometheuscollectorhealth"} |->
        {r \in {"custom"} : e.sections /\ t \in DOMAIN cm.keep}
        \cup {r \in {"minimal"} : minimal = "true" /\ t # "podannotations"}]

\* Fault: a regex that does not compile costs its own target the rules.
KeepListSkipsBad ==
    /\ pc = "keepList"
    /\ env' = [env EXCEPT !.minimal = populateKeepList(env)]
    /\ keepHash' = LET all == populateRegexValuesWithMinimalIngestionProfile(env, populateKeepList(env))
                       bad == {t \in DOMAIN cm.keep : env.sections /\ cm.keep[t] = "bad"}
                   IN  [t \in DOMAIN all \ bad |-> all[t]]
    /\ pc' = "intervals"
    /\ UNCHANGED <<inputs, intervalHash, files, chosen>>

\* One regex that does not compile, of any target, and no file is written.
tomlparserTargetsMetricsKeepList ==
    /\ pc = "keepList"
    /\ env' = [env EXCEPT !.minimal = populateKeepList(env)]
    /\ keepHash' = IF validateRegexValues(env)
                   THEN populateRegexValuesWithMinimalIngestionProfile(env, populateKeepList(env))
                   ELSE keepHash
    /\ pc' = "intervals"
    /\ UNCHANGED <<inputs, intervalHash, files, chosen>>

checkDuration(d) == IF d = "bad" THEN "30s" ELSE d

getParsedDataValue(e, t) ==
    IF e.sections /\ t \in DOMAIN cm.interval THEN checkDuration(cm.interval[t]) ELSE "30s"

tomlparserScrapeInterval ==
    /\ pc = "intervals"
    /\ intervalHash' = [t \in Target |-> getParsedDataValue(env, t)]
    /\ pc' = "merge"
    /\ UNCHANGED <<inputs, env, keepHash, files, chosen>>

-----------------------------------------------------------------------------
(* The merger. *)

\* A missing and an empty custom configuration are the same.
parseConfigMap == custom # "none"

\* The regex of a target, if the file with the regexes was there to be read.
loadRegexHash(t) == IF t \in DOMAIN keepHash THEN keepHash[t] ELSE {}

loadIntervalHash(t) == intervalHash[t]

\* Edits of a default file: the interval, the rules on metrics, the namespaces.
UpdateScrapeIntervalConfig(job, interval) == [job EXCEPT !.interval = interval]
AppendMetricRelabelConfig(job, rules) == [job EXCEPT !.keep = rules]
AppendRelabelConfig(job) == [job EXCEPT !.confined = TRUE]

\* The files of the default targets.  setDefaultFileScrapeInterval makes the
\* copies, with the global interval in place.
setDefaultFileScrapeInterval(interval) ==
    [t \in Target |-> [target |-> t, interval |-> interval, keep |-> {}, confined |-> FALSE]]

\* It is not reached when the custom configuration cannot be parsed: only the
\* files edited in place are there then.
setGlobalScrapeConfigInDefaultFilesIfExists ==
    LET copies == setDefaultFileScrapeInterval("30s")
    IN  IF custom = "malformed" THEN [t \in InPlace |-> copies[t]] ELSE copies

\* Each file is edited as its target's block does it.
Edited(t) ==
    LET job == AppendMetricRelabelConfig(
                   UpdateScrapeIntervalConfig(setGlobalScrapeConfigInDefaultFilesIfExists[t],
                                              loadIntervalHash(t)), loadRegexHash(t))
    IN  IF t = "podannotations" /\ env.namespaces THEN AppendRelabelConfig(job) ELSE job

DefaultFiles == DOMAIN setGlobalScrapeConfigInDefaultFilesIfExists

\* A file that cannot be loaded is skipped.
mergeDefaultScrapeConfigs(targets) == {Edited(t) : t \in targets \cap DefaultFiles}

\* The default targets of a container: the ones it takes on.
TakenBy(p, op, on, present) ==
    IF op \/ isConfigReaderSidecar(p)
    THEN populateDefaultPrometheusConfigWithOperator(p, on, present)
    ELSE populateDefaultPrometheusConfig(p, on, present)

\* Fault: a target is merged from its file although another container has it.
writeDefaultScrapeTargetsFileEverywhere ==
    IF env.noDefaults THEN Missing
    ELSE Config(mergeDefaultScrapeConfigs(env.on), "none", FALSE)

\* Nothing is written when nothing was taken on; a taken target whose file is
\* missing still leaves an empty list of jobs.
writeDefaultScrapeTargetsFile ==
    LET taken == TakenBy(pod, operatorEnabled, env.on, DefaultFiles)
    IN  IF env.noDefaults \/ taken = {} THEN Missing
        ELSE Config(mergeDefaultScrapeConfigs(taken), "none", FALSE)

setLabelLimitsPerScrape == custom \notin {"none", "malformed", "noJobs"}

\* An item that is no mapping gives a nil map, and writing to it panics.
SetLabelLimitsPanics == custom = "notMapping"

\* Fault: without default jobs the customer's text is written as it was mounted.
CustomAsMounted(defaults) ==
    Config(defaults.jobs, IF custom = "malformed" THEN "none" ELSE custom,
           setLabelLimitsPerScrape /\ defaults.jobs # {})

\* What a malformed configuration was replaced by has no content at all.
mergeDefaultAndCustomScrapeConfigs(defaults) ==
    Config(defaults.jobs, IF custom = "malformed" THEN "none" ELSE custom,
           setLabelLimitsPerScrape)

\* The default targets are written before the label limits are set.  A panic there
\* ends the container's process; the next one starts from the same ConfigMaps.
prometheusConfigMerger ==
    /\ pc = "merge"
    /\ files' = [files EXCEPT
            !.defaultsMerged = writeDefaultScrapeTargetsFile,
            !.promMerged = IF parseConfigMap /\ ~ SetLabelLimitsPanics
                           THEN mergeDefaultAndCustomScrapeConfigs(writeDefaultScrapeTargetsFile)
                           ELSE @]
    /\ pc' = IF SetLabelLimitsPanics THEN "crashed" ELSE "validate"
    /\ UNCHANGED <<inputs, env, keepHash, intervalHash, chosen>>

-----------------------------------------------------------------------------
(* The validator, and what is made of its answer. *)

\* What the collector can load: without a target_allocator there must be a job.
\* The template of controlplane-istio has a scrape timeout of ten seconds, which a
\* shorter interval may not undercut.
Loads(c) ==
    /\ c.custom \notin {"absent", "unsupported", "invalid"}
    /\ c.jobs = {} => c.custom \notin {"none", "noJobs"}
    /\ ~ (c.custom = "clash" /\ \E j \in c.jobs : j.target = "kubelet")
    /\ ~ \E j \in c.jobs : j.target = "controlplane-istio" /\ j.interval = "5s"

\* The file it leaves behind: written before the validation, and not at all for
\* the unsupported features (or where the validator itself panics).
generateOtelConfig(c, before) == IF c.custom = "unsupported" THEN before ELSE c

\* A custom configuration was merged.
ValidateMerged ==
    /\ pc = "validate" /\ files.promMerged # Missing
    /\ IF Loads(files.promMerged)
       THEN /\ files' = [files EXCEPT !.collector = files.promMerged]
            /\ env' = [env EXCEPT !.setGlobal = TRUE]
       ELSE /\ files' = [files EXCEPT
                    !.collector = generateOtelConfig(files.promMerged, @),
                    !.collectorDefault = IF files.defaultsMerged = Missing THEN @
                                         ELSE generateOtelConfig(files.defaultsMerged, @)]
            /\ env' = [env EXCEPT !.invalidCustom = TRUE, !.useDefault = TRUE]
    /\ pc' = "choose"
    /\ UNCHANGED <<inputs, keepHash, intervalHash, chosen>>

\* Fault: the verdict on the default targets is ignored.
CopiedUnseen ==
    /\ pc = "validate" /\ files.promMerged = Missing
    /\ files' = [files EXCEPT !.collectorDefault =
                    IF files.defaultsMerged = Missing THEN @ ELSE files.defaultsMerged]
    /\ env' = [env EXCEPT !.useDefault = TRUE]
    /\ pc' = "choose"
    /\ UNCHANGED <<inputs, keepHash, intervalHash, chosen>>

\* There are only default targets, or nothing.
ValidateDefaults ==
    /\ pc = "validate" /\ files.promMerged = Missing
    /\ files' = [files EXCEPT !.collectorDefault =
                    IF Loads(files.defaultsMerged) THEN files.defaultsMerged ELSE @]
    /\ env' = [env EXCEPT !.useDefault = TRUE]
    /\ pc' = "choose"
    /\ UNCHANGED <<inputs, keepHash, intervalHash, chosen>>

\* The global settings of a custom configuration that was accepted go to the
\* replicaset's own configuration too.
SetGlobalSettingsInCollectorConfig == env.setGlobal

\* The collector of a replicaset with the operator asks the target allocator,
\* whose configuration is the configuration reader's.
ChooseConfig ==
    /\ pc = "choose"
    /\ chosen' = IF operatorEnabled
                 THEN [path |-> "replicaset", config |-> Config({}, "allocator", FALSE),
                       global |-> SetGlobalSettingsInCollectorConfig]
                 ELSE IF env.useDefault
                      THEN [path |-> "default", config |-> files.collectorDefault,
                            global |-> FALSE]
                      ELSE [path |-> "custom", config |-> files.collector, global |-> FALSE]
    /\ pc' = "done"
    /\ UNCHANGED <<inputs, env, keepHash, intervalHash, files>>

Next == Versions \/ ParseSettings \/ tomlparserTargetsMetricsKeepList
        \/ tomlparserScrapeInterval \/ prometheusConfigMerger
        \/ ValidateMerged \/ ValidateDefaults \/ ChooseConfig

-----------------------------------------------------------------------------
(* Properties. *)

ConfigType(c) ==
    /\ \A j \in c.jobs : j \in Job
    /\ c.custom \in CustomKind \cup {"absent", "empty", "allocator"} /\ c.limits \in BOOLEAN

\* Type correctness of the stages' files and variables.
TypeOK ==
    /\ pod \in Pod /\ custom \in CustomKind
    /\ pc \in {"idle", "versions", "settings", "keepList", "intervals", "merge", "validate",
               "choose", "done", "crashed"}
    /\ env.label \in {"", "cluster", "alias"} /\ (pc = "done" => env.label # "")
    /\ env.on \subseteq Target /\ env.minimal \in {"unset", "true", "false"}
    /\ \A t \in DOMAIN keepHash : t \in Target /\ keepHash[t] \subseteq {"custom", "minimal"}
    /\ \A t \in DOMAIN intervalHash : t \in Target /\ intervalHash[t] \in Interval
    /\ \A f \in DOMAIN files : ConfigType(files[f])
    /\ chosen.path \in {"", "replicaset", "default", "custom"} /\ ConfigType(chosen.config)

\* Where a target is scraped, as the documents and the end-to-end tests have it:
\* node targets by the daemonset of each node in advanced mode, the rest once in
\* the cluster.
EveryNode == {"kubelet", "kappiebasic", "networkobservabilityRetina"}
LinuxNode == {"cadvisor", "nodeexporter", "networkobservabilityHubble",
              "networkobservabilityCilium"}
WindowsNode == {"windowsexporter", "windowskubeproxy"}
MacOnly == {"kappiebasic", "networkobservabilityRetina", "networkobservabilityHubble",
            "networkobservabilityCilium"}
Belongs(t, p) ==
    IF t = "prometheuscollectorhealth" THEN TRUE
    ELSE IF t \in MacOnly \/ (p.advanced /\ t \in EveryNode \cup LinuxNode \cup WindowsNode)
         THEN /\ p.advanced /\ DS(p) /\ (t \in MacOnly => p.mac)
              /\ Linux(p) => t \in EveryNode \cup LinuxNode
              /\ ~ Linux(p) => p.winDaemonset /\ t \in EveryNode \cup WindowsNode
         ELSE Central(p) /\ (t = "controlplane-istio" => p.fqdn)

Own == {t \in env.on : Belongs(t, pod)}
OwnJobs == {[target |-> t, interval |-> intervalHash[t]] : t \in Own}
OwnLoad == Own = {} \/ Loads(Config(OwnJobs, "none", FALSE))
Finished == pc \in {"done", "crashed"} /\ ~ operatorEnabled
Scraped == {j.target : j \in chosen.config.jobs}

\* The container ends up scraping exactly the default targets that are its own,
\* provided the collector can load those at all, whatever stage gave up on the way
\* and whatever custom configuration is mounted, with two exceptions the code does
\* not survive: text that is no YAML, and a list of jobs with an item that is no
\* mapping (prometheusConfigMerger).
DefaultsSurvive ==
    Finished /\ custom \notin {"malformed", "notMapping"} /\ ~ env.noDefaults /\ OwnLoad
        => Scraped = Own

\* The same for every custom configuration: "Errorprone custom configmap, def
\* settings targets turned on" (the end-to-end tests, which expect the default jobs),
\* and "The custom config will not be used" (Configmapparser, of one it refuses).
DefaultsSurviveAny ==
    Finished /\ ~ env.noDefaults /\ OwnLoad => Scraped = Own

\* The containers of a cluster decide alone, and still no target is scraped both
\* for the whole cluster and on the nodes, and none that is enabled and that this
\* kind of cluster can have is left to nobody.
Collectors == {p \in cluster.pods : ~ (cluster.operator /\ RS(p))}
Takes(p) == TakenBy(p, FALSE, env.on, Target)
Impossible ==
    {t \in Target : \A p \in cluster.pods : ~ Belongs(t, p)}
ScrapedOnce ==
    pc = "done" =>
        /\ \A t \in env.on \ {"prometheuscollectorhealth"} : \A p, q \in Collectors :
              t \in Takes(p) \cap Takes(q) /\ p # q => DS(p) /\ DS(q) /\ p.os # q.os
        /\ env.on \subseteq Impossible \cup UNION {Takes(p) : p \in Collectors}

\* In a container that gets as far as choosing, the customer's jobs are taken as a
\* whole, with their label limits, or dropped as a whole, and then the environment
\* says so and the defaults are used.
CustomAllOrNothing ==
    pc = "done" /\ ~ operatorEnabled /\ custom \notin {"none", "malformed"} =>
        \/ /\ chosen.config.custom = custom /\ ~ env.invalidCustom /\ Loads(chosen.config)
           /\ custom # "noJobs" => chosen.config.limits
        \/ /\ chosen.config.custom \in {"none", "empty"} /\ env.invalidCustom
           /\ chosen.path = "default"

\* A filter is never lost for one target alone: either every default job has the
\* rules its settings ask for, or one regex did not compile and no job has any.
\* The namespaces of the pod annotations are never lost.
FilteredAllOrNothing ==
    pc = "done" =>
     /\ \A j \in chosen.config.jobs : j.target = "podannotations" => j.confined
     /\ \/ \A j \in chosen.config.jobs :
              /\ "minimal" \in j.keep <=>
                    /\ ~ (env.sections /\ cm.minimal = "false")
                    /\ j.target \notin {"podannotations", "prometheuscollectorhealth"}
              /\ "custom" \in j.keep <=> env.sections /\ j.target \in DOMAIN cm.keep
        \/ /\ \E t \in DOMAIN cm.keep : cm.keep[t] = "bad"
           /\ \A j \in chosen.config.jobs : j.keep = {}

\* The collector is handed a configuration it refuses in one case only: the
\* customer's was refused and the defaults, copied unseen, do not load either (a
\* scrape interval below the timeout, or no job left because the files of the
\* default targets were never made).
ConfigLoads ==
    pc = "done" => \/ Loads(chosen.config)
                   \/ env.invalidCustom /\ ~ Loads(files.defaultsMerged)
=============================================================================
