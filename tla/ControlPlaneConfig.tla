-------------------------- MODULE ControlPlaneConfig --------------------------
(***************************************************************************)
(* From the settings ConfigMap to the configuration of the collector of    *)
(* the control plane (shared/configmap/ccp).                               *)
(*                                                                         *)
(* The pod of the control plane runs beside it and not in the customer's   *)
(* cluster: it has no custom configuration, six targets of its own and a   *)
(* copy of the settings ConfigMap that another container brings.  Whatever *)
(* is wrong with the settings must leave it scraping, and must be reported *)
(* (AZMON_INVALID_METRICS_SETTINGS_CONFIG).                                *)
(***************************************************************************)
EXTENDS FiniteSets

CONSTANTS CcpSettings      \* contents of the settings ConfigMap

CcpTarget == {"kube-controller-manager", "kube-scheduler", "apiserver",
              "cluster-autoscaler", "node-auto-provisioning", "etcd"}

CcpSection == {"collector", "otlp", "targets", "keep"}

\* version: config-version; schema: schema-version, each possibly unreadable.
\* listed: the directory can be read; unreadable: the sections whose file cannot
\* (it does not open, or a line is longer than the scanner takes).
\* targets, keep: the values given, for the targets that have one.
CcpSettingsType ==
    [version : {"missing", "set", "unreadable"},
     schema : {"missing", "unreadable", "v1", "v2", "other"}, listed : BOOLEAN,
     unreadable : SUBSET CcpSection,
     targets : UNION {[S -> {"true", "false", ""}] : S \in SUBSET CcpTarget},
     minimal : {"absent", "true", "false", "bad"},
     keep : UNION {[S -> {"regex", "bad"}] : S \in SUBSET CcpTarget},
     alias : {"absent", "name", "symbols"}, otlp : {"absent", "true", "bad"}]

ASSUME CcpAssumption ==
    /\ CcpSettings # {}
    /\ \A s \in CcpSettings :
          /\ s.schema \in {"missing", "unreadable", "v1", "v2", "other"}
          /\ s.listed \in BOOLEAN /\ s.unreadable \subseteq CcpSection

VARIABLES
    settings,       \* the ConfigMap
    chart,          \* AZMON_OPERATOR_ENABLED as the chart has it
    stage,          \* "idle" in a container that is not the control plane's
    ccp,            \* environment variables, by what they say
    ccpKeep,        \* config_def_targets_metrics_keep_list_hash
    ccpFiles        \* defaultsMergedConfig, and the configuration the collector gets

ccpVars == <<settings, chart, stage, ccp, ccpKeep, ccpFiles>>

NoCcpEnv == [schema |-> "", invalid |-> FALSE, sections |-> {}, on |-> {},
             noDefaults |-> FALSE, label |-> "", otlp |-> FALSE]
NoCcpSettings == [version |-> "missing", schema |-> "missing", listed |-> FALSE,
                  unreadable |-> {}, targets |-> [t \in {} |-> ""], minimal |-> "absent",
                  keep |-> [t \in {} |-> ""], alias |-> "absent", otlp |-> "absent"]
NoCcpHash == [t \in {} |-> {}]
NoJobs == [present |-> FALSE, jobs |-> {}]

CcpInit ==
    /\ settings \in CcpSettings /\ chart \in BOOLEAN
    /\ stage = "versions" /\ ccp = NoCcpEnv /\ ccpKeep = NoCcpHash
    /\ ccpFiles = [merged |-> NoJobs, collector |-> NoJobs]

CcpIdle ==
    /\ settings = NoCcpSettings
    /\ chart = FALSE /\ stage = "idle" /\ ccp = NoCcpEnv /\ ccpKeep = NoCcpHash
    /\ ccpFiles = [merged |-> NoJobs, collector |-> NoJobs]

-----------------------------------------------------------------------------
\* Under v1 a section is a file of its own: one that cannot be read is logged and
\* left out, and only a directory that cannot be listed is an error.
CcpParseV1Config == IF settings.listed THEN CcpSection \ settings.unreadable ELSE {}

\* Under v2 an error in either file loses them all.
CcpParseMetricsFiles == IF settings.unreadable = {} THEN CcpSection ELSE {}

\* An unreadable file is reported; a missing one means there is no ConfigMap.
CcpVersions ==
    /\ stage = "versions"
    /\ ccp' = [ccp EXCEPT
            !.schema = IF settings.schema \in {"missing", "unreadable"} THEN "" ELSE settings.schema,
            !.invalid = "unreadable" \in {settings.version, settings.schema}]
    /\ stage' = "sections"
    /\ UNCHANGED <<settings, chart, ccpKeep, ccpFiles>>

\* The sections that could be read.
CcpReadSections ==
    CASE ccp.schema = "v1" -> CcpParseV1Config
      [] ccp.schema = "v2" -> CcpParseMetricsFiles
      [] OTHER -> {}

\* The errors that are reported.
CcpReadFails == \/ ccp.schema = "v1" /\ ~ settings.listed
                \/ ccp.schema = "v2" /\ settings.unreadable # {}

\* Fault: the sections are lost without a report.
CcpSectionsSilent ==
    /\ stage = "sections"
    /\ ccp' = [ccp EXCEPT !.sections = CcpReadSections]
    /\ stage' = "settings"
    /\ UNCHANGED <<settings, chart, ccpKeep, ccpFiles>>

\* A stage whose section is not there takes its defaults.
CcpSections ==
    /\ stage = "sections"
    /\ ccp' = [ccp EXCEPT !.sections = CcpReadSections, !.invalid = @ \/ CcpReadFails]
    /\ stage' = "settings"
    /\ UNCHANGED <<settings, chart, ccpKeep, ccpFiles>>

CcpPopulateSettingValuesFromConfigMap ==
    IF settings.alias = "name" THEN "alias" ELSE ""

\* The label of the cluster: the alias, if anything is left of it.
CcpConfigure(e) ==
    LET alias == IF "collector" \in e.sections THEN CcpPopulateSettingValuesFromConfigMap ELSE ""
    IN  [e EXCEPT !.label = IF alias = "" THEN "cluster" ELSE alias]

\* A value that is no Boolean is false.
CcpOpentelemetryMetricsSettings(e) ==
    [e EXCEPT !.otlp = "otlp" \in e.sections /\ settings.otlp = "true"]

CcpSetDefaultScrapeSettings ==
    [t \in CcpTarget |-> IF t \in {"apiserver", "etcd"} THEN "true" ELSE "false"]

CcpParseConfigMapForDefaultScrapeSettings(e) ==
    [t \in CcpTarget |-> IF "targets" \in e.sections /\ t \in DOMAIN settings.targets
                         THEN settings.targets[t] ELSE CcpSetDefaultScrapeSettings[t]]

\* Only the empty value counts as "no defaults".
CcpPopulateSettingValues(e) ==
    LET config == CcpParseConfigMapForDefaultScrapeSettings(e)
    IN  [e EXCEPT !.on = {t \in CcpTarget : config[t] = "true"},
                  !.noDefaults = \A t \in CcpTarget : config[t] = ""]

CcpParseSettings ==
    /\ stage = "settings"
    /\ ccp' = CcpPopulateSettingValues(CcpOpentelemetryMetricsSettings(CcpConfigure(ccp)))
    /\ stage' = "keepList"
    /\ UNCHANGED <<settings, chart, ccpKeep, ccpFiles>>

\* What the keep list asks for: regexes, and a minimal profile that is "true"
\* unless the section says otherwise.
parseConfigMapForKeepListRegex ==
    [keep |-> IF "keep" \in ccp.sections THEN settings.keep ELSE [t \in {} |-> "regex"],
     minimal |-> IF "keep" \in ccp.sections /\ settings.minimal # "absent" THEN settings.minimal ELSE "true"]

\* Every regex must compile, and so must the value of the minimal profile.
populateSettingValuesFromConfigMap(config) ==
    config.minimal # "bad" /\ \A t \in DOMAIN config.keep : config.keep[t] # "bad"

\* Only "false" switches the minimal profile off.
CcpMinimalIngestionProfile(config) ==
    [t \in CcpTarget |-> {r \in {"custom"} : t \in DOMAIN config.keep}
                         \cup {r \in {"minimal"} : config.minimal # "false"}]

\* One value that does not compile, and no file is written.
tomlparserCCPTargetsMetricsKeepList ==
    /\ stage = "keepList"
    /\ LET config == parseConfigMapForKeepListRegex
       IN  ccpKeep' = IF populateSettingValuesFromConfigMap(config)
                      THEN CcpMinimalIngestionProfile(config) ELSE ccpKeep
    /\ stage' = "merge"
    /\ UNCHANGED <<settings, chart, ccp, ccpFiles>>

\* Without the file with the regexes a job keeps everything.
CcpLoadRegexHash(t) == IF t \in DOMAIN ccpKeep THEN ccpKeep[t] ELSE {}

CcpAppendMetricRelabelConfig(t) == [target |-> t, keep |-> CcpLoadRegexHash(t)]

\* The pod is a replicaset's: it takes every target that is on.
CcpPopulateDefaultPrometheusConfig == {CcpAppendMetricRelabelConfig(t) : t \in ccp.on}

\* Nothing is written when nothing is on.
CcpWriteDefaultScrapeTargetsFile ==
    LET jobs == CcpPopulateDefaultPrometheusConfig
    IN  IF ccp.noDefaults \/ jobs = {} THEN NoJobs ELSE [present |-> TRUE, jobs |-> jobs]

prometheusCcpConfigMerger ==
    /\ stage = "merge"
    /\ ccpFiles' = [ccpFiles EXCEPT !.merged = CcpWriteDefaultScrapeTargetsFile]
    /\ stage' = "validate"
    /\ UNCHANGED <<settings, chart, ccp, ccpKeep>>

\* The validator's output is copied if there is one, whatever its verdict; the
\* collector then gets that copy, or the configuration of the image, whose only job
\* is empty.  With the operator the allocator hands out the jobs.
CcpValidate ==
    /\ stage = "validate"
    /\ ccpFiles' = [ccpFiles EXCEPT !.collector =
                        IF ccpFiles.merged.present /\ ~ chart THEN ccpFiles.merged ELSE @]
    /\ stage' = "done"
    /\ UNCHANGED <<settings, chart, ccp, ccpKeep>>

CcpNext == CcpVersions \/ CcpSections \/ CcpParseSettings
           \/ tomlparserCCPTargetsMetricsKeepList \/ prometheusCcpConfigMerger \/ CcpValidate

-----------------------------------------------------------------------------
CcpScraped == {j.target : j \in ccpFiles.collector.jobs}

CcpAsked == {t \in CcpTarget : IF t \in DOMAIN settings.targets
                               THEN settings.targets[t] = "true"
                               ELSE CcpSetDefaultScrapeSettings[t] = "true"}
CcpDefaults == CcpScraped = {"apiserver", "etcd"}

\* The targets in force are the ones the ConfigMap asks for, or the defaults, and then
\* the error flag is up, or the ConfigMap has no schema version this code knows, or
\* it is of version 1 and the one file with the targets cannot be read.
CcpAsAsked ==
    stage = "done" /\ ~ chart =>
        \/ CcpScraped = CcpAsked
        \/ /\ CcpDefaults
           /\ \/ ccp.invalid \/ settings.schema \in {"missing", "other"}
              \/ settings.schema = "v1" /\ "targets" \in settings.unreadable

\* The flag says "whether the metrics settings configmap is invalid (1) or valid (0)"
\* (health_metrics.go): no settings of a known schema version are dropped without it.
CcpReported ==
    stage = "done" /\ ~ chart /\ settings.schema \in {"v1", "v2"} =>
        CcpScraped = CcpAsked \/ (CcpDefaults /\ ccp.invalid)

\* A filter is never lost for one target alone: every job has the rules the
\* settings ask for, or one value did not compile and no job has any.
CcpFiltered ==
    stage = "done" =>
        \/ \A j \in ccpFiles.collector.jobs :
              /\ "minimal" \in j.keep <=> ~ ("keep" \in ccp.sections /\ settings.minimal = "false")
              /\ "custom" \in j.keep <=> "keep" \in ccp.sections /\ j.target \in DOMAIN settings.keep
        \/ /\ settings.minimal = "bad" \/ \E t \in DOMAIN settings.keep : settings.keep[t] = "bad"
           /\ \A j \in ccpFiles.collector.jobs : j.keep = {}
=============================================================================
