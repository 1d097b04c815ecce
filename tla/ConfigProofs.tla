----------------------------- MODULE ConfigProofs -----------------------------
(***************************************************************************)
(* Proofs about the two configuration pipelines, for any ConfigMaps and    *)
(* any containers: what a stage that gives up leaves to the later ones.    *)
(***************************************************************************)
EXTENDS ConfigStartup, TLAPS

-----------------------------------------------------------------------------
(* The control plane's pipeline. *)

CcpJob == [target : CcpTarget, keep : SUBSET {"custom", "minimal"}]
CcpJobs == [present : BOOLEAN, jobs : SUBSET CcpJob]
CcpEnvType == [schema : {"", "v1", "v2", "other"}, invalid : BOOLEAN,
               sections : SUBSET CcpSection,
               on : SUBSET CcpTarget, noDefaults : BOOLEAN, label : {"", "cluster", "alias"},
               otlp : BOOLEAN]

CcpTypeOK ==
    /\ stage \in {"idle", "versions", "sections", "settings", "keepList", "merge", "validate",
                  "done"}
    /\ chart \in BOOLEAN /\ ccp \in CcpEnvType
    /\ ccpFiles \in [merged : CcpJobs, collector : CcpJobs]

\* What every stage has left behind for the next.
SectionsDone == {"settings", "keepList", "merge", "validate", "done"}
SettingsDone == SectionsDone \ {"settings"}
KeepListDone == SettingsDone \ {"keepList"}
CcpStages ==
    /\ stage # "idle" => settings \in CcpSettings
    /\ stage = "sections" =>
          /\ ccp.schema = IF settings.schema \in {"missing", "unreadable"} THEN ""
                          ELSE settings.schema
          /\ settings.schema = "unreadable" => ccp.invalid
    /\ stage \in SectionsDone /\ "targets" \notin ccp.sections =>
          \/ ccp.invalid \/ settings.schema \in {"missing", "other"}
          \/ settings.schema = "v1" /\ "targets" \in settings.unreadable
    /\ stage \in SettingsDone =>
          /\ ccp.on = {t \in CcpTarget : CcpParseConfigMapForDefaultScrapeSettings(ccp)[t] = "true"}
          /\ ccp.noDefaults => ccp.on = {}
    /\ ccpKeep = IF stage \in KeepListDone
                    /\ populateSettingValuesFromConfigMap(parseConfigMapForKeepListRegex)
                 THEN CcpMinimalIngestionProfile(parseConfigMapForKeepListRegex) ELSE NoCcpHash
    /\ stage \notin {"validate", "done"} => ccpFiles.merged = NoJobs
    /\ stage \in {"validate", "done"} => ccpFiles.merged = CcpWriteDefaultScrapeTargetsFile
    /\ ccpFiles.collector = IF stage = "done" /\ ccpFiles.merged.present /\ ~ chart
                            THEN ccpFiles.merged ELSE NoJobs

CcpInv == CcpTypeOK /\ CcpStages

\* The schema versions a ConfigMap may have, and the files that may be unreadable.
LEMMA CcpSchema ==
    ASSUME settings \in CcpSettings
    PROVE  /\ settings.schema \in {"missing", "unreadable", "v1", "v2", "other"}
           /\ settings.listed \in BOOLEAN /\ settings.unreadable \subseteq CcpSection
BY CcpAssumption

\* Reading the versions.
LEMMA CcpVersionsStep ==
    ASSUME CcpInv, CcpVersions
    PROVE  CcpInv'
<1>1. settings.schema \in {"missing", "unreadable", "v1", "v2", "other"}
  BY CcpSchema DEF CcpInv, CcpStages, CcpVersions
<1>2. CcpTypeOK'
  <2> DEFINE schema == IF settings.schema \in {"missing", "unreadable"} THEN "" ELSE settings.schema
             invalid == "unreadable" \in {settings.version, settings.schema}
  <2>1. schema \in {"", "v1", "v2", "other"}
    BY <1>1
  <2>2. invalid \in BOOLEAN
    OBVIOUS
  <2>3. ccp' = [ccp EXCEPT !.schema = schema, !.invalid = invalid]
    BY DEF CcpVersions
  <2> HIDE DEF schema, invalid
  <2>4. ccp' \in CcpEnvType
    BY <2>1, <2>2, <2>3 DEF CcpInv, CcpTypeOK, CcpEnvType
  <2> QED
    BY <2>4 DEF CcpInv, CcpTypeOK, CcpVersions
<1>3. CcpStages'
  BY <1>1 DEF CcpInv, CcpTypeOK, CcpEnvType, CcpStages, CcpVersions, SectionsDone, SettingsDone, KeepListDone
<1> QED
  BY <1>2, <1>3 DEF CcpInv

\* Reading the sections: those of the targets are there, or reported, or were of a
\* version 1 file that could not be read.
LEMMA CcpSectionsStep ==
    ASSUME CcpInv, CcpSections
    PROVE  CcpInv'
<1> DEFINE read == CcpReadSections
           fails == CcpReadFails
<1>1. /\ settings.schema \in {"missing", "unreadable", "v1", "v2", "other"}
      /\ settings.unreadable \subseteq CcpSection
  BY CcpSchema DEF CcpInv, CcpStages, CcpSections
<1>2. /\ ccp.schema = IF settings.schema \in {"missing", "unreadable"} THEN "" ELSE settings.schema
      /\ settings.schema = "unreadable" => ccp.invalid
  BY DEF CcpInv, CcpStages, CcpSections
<1>3. /\ read \in SUBSET CcpSection /\ fails \in BOOLEAN
      /\ "targets" \in read \/ fails \/ settings.schema \in {"missing", "unreadable", "other"}
         \/ (settings.schema = "v1" /\ "targets" \in settings.unreadable)
  BY <1>1, <1>2 DEF CcpReadSections, CcpReadFails, CcpParseV1Config, CcpParseMetricsFiles, CcpSection
<1>4. ccp' = [ccp EXCEPT !.sections = read, !.invalid = ccp.invalid \/ fails]
  BY DEF CcpSections
<1> HIDE DEF read, fails
<1>5. /\ ccp' \in CcpEnvType /\ ccp'.sections = read /\ ccp'.invalid = (ccp.invalid \/ fails)
      /\ ccp'.schema = ccp.schema
  BY <1>3, <1>4 DEF CcpInv, CcpTypeOK, CcpEnvType
<1>6. CcpTypeOK'
  BY <1>5 DEF CcpInv, CcpTypeOK, CcpSections
<1>7. CcpStages'
  BY <1>1, <1>2, <1>3, <1>5 DEF CcpInv, CcpStages, CcpSections, SectionsDone, SettingsDone, KeepListDone
<1> QED
  BY <1>6, <1>7 DEF CcpInv

\* What the stages of the settings leave in the environment.
LEMMA CcpParsed ==
    ASSUME CcpTypeOK
    PROVE  LET e == CcpPopulateSettingValues(CcpOpentelemetryMetricsSettings(CcpConfigure(ccp)))
           IN  /\ e \in CcpEnvType
               /\ e.schema = ccp.schema /\ e.invalid = ccp.invalid /\ e.sections = ccp.sections
               /\ e.on = {t \in CcpTarget : CcpParseConfigMapForDefaultScrapeSettings(ccp)[t] = "true"}
               /\ e.noDefaults => e.on = {}
<1> DEFINE e1 == CcpConfigure(ccp)
           e2 == CcpOpentelemetryMetricsSettings(e1)
           e3 == CcpPopulateSettingValues(e2)
<1>1. /\ e1 \in CcpEnvType
      /\ e1.schema = ccp.schema /\ e1.invalid = ccp.invalid /\ e1.sections = ccp.sections
  BY DEF CcpTypeOK, CcpEnvType, CcpConfigure, CcpPopulateSettingValuesFromConfigMap
<1>2. /\ e2 \in CcpEnvType
      /\ e2.schema = ccp.schema /\ e2.invalid = ccp.invalid /\ e2.sections = ccp.sections
  BY <1>1 DEF CcpEnvType, CcpOpentelemetryMetricsSettings
<1>3. CcpParseConfigMapForDefaultScrapeSettings(e2) = CcpParseConfigMapForDefaultScrapeSettings(ccp)
  BY <1>2 DEF CcpParseConfigMapForDefaultScrapeSettings
<1>4. /\ e3 \in CcpEnvType
      /\ e3.schema = ccp.schema /\ e3.invalid = ccp.invalid /\ e3.sections = ccp.sections
      /\ e3.on = {t \in CcpTarget : CcpParseConfigMapForDefaultScrapeSettings(e2)[t] = "true"}
      /\ e3.noDefaults = (\A t \in CcpTarget : CcpParseConfigMapForDefaultScrapeSettings(e2)[t] = "")
  BY <1>2 DEF CcpEnvType, CcpPopulateSettingValues
<1> QED
  BY <1>3, <1>4

\* The settings.
LEMMA CcpSettingsStep ==
    ASSUME CcpInv, CcpParseSettings
    PROVE  CcpInv'
<1>1. /\ ccp' \in CcpEnvType
      /\ ccp'.schema = ccp.schema /\ ccp'.invalid = ccp.invalid /\ ccp'.sections = ccp.sections
      /\ ccp'.on = {t \in CcpTarget : CcpParseConfigMapForDefaultScrapeSettings(ccp)[t] = "true"}
      /\ ccp'.noDefaults => ccp'.on = {}
  BY CcpParsed DEF CcpInv, CcpParseSettings
<1>2. CcpTypeOK'
  BY <1>1 DEF CcpInv, CcpTypeOK, CcpParseSettings
<1>3. CcpParseConfigMapForDefaultScrapeSettings(ccp)' = CcpParseConfigMapForDefaultScrapeSettings(ccp)
  BY <1>1 DEF CcpParseConfigMapForDefaultScrapeSettings, CcpParseSettings
<1>4. CcpStages'
  BY <1>1, <1>3 DEF CcpInv, CcpStages, CcpParseSettings, SectionsDone, SettingsDone, KeepListDone
<1> QED
  BY <1>2, <1>4 DEF CcpInv

\* The keep lists, all of them or none.
LEMMA CcpKeepListStep ==
    ASSUME CcpInv, tomlparserCCPTargetsMetricsKeepList
    PROVE  CcpInv'
<1>1. CcpTypeOK'
  BY DEF CcpInv, CcpTypeOK, tomlparserCCPTargetsMetricsKeepList
<1>2. /\ CcpParseConfigMapForDefaultScrapeSettings(ccp)' = CcpParseConfigMapForDefaultScrapeSettings(ccp)
      /\ parseConfigMapForKeepListRegex' = parseConfigMapForKeepListRegex
  BY DEF tomlparserCCPTargetsMetricsKeepList, CcpParseConfigMapForDefaultScrapeSettings,
         parseConfigMapForKeepListRegex
<1>3. CcpStages'
  BY <1>2 DEF CcpInv, CcpStages, tomlparserCCPTargetsMetricsKeepList, SectionsDone, SettingsDone,
              KeepListDone, populateSettingValuesFromConfigMap, CcpMinimalIngestionProfile
<1> QED
  BY <1>1, <1>3 DEF CcpInv

\* A job per target that is on, with its rules; nothing if nothing is on.
LEMMA CcpMergedJobs ==
    ASSUME CcpTypeOK, CcpStages, stage \in KeepListDone
    PROVE  /\ CcpWriteDefaultScrapeTargetsFile \in CcpJobs
           /\ CcpWriteDefaultScrapeTargetsFile.jobs =
                 {[target |-> t, keep |-> CcpLoadRegexHash(t)] : t \in ccp.on}
           /\ CcpWriteDefaultScrapeTargetsFile.present <=> ccp.on # {}
<1> DEFINE jobs == {[target |-> t, keep |-> CcpLoadRegexHash(t)] : t \in ccp.on}
<1>1. ccp.on \subseteq CcpTarget
  BY DEF CcpTypeOK, CcpEnvType
<1>2. ASSUME NEW t \in CcpTarget
      PROVE  CcpLoadRegexHash(t) \in SUBSET {"custom", "minimal"}
  BY <1>2 DEF CcpLoadRegexHash, CcpStages, CcpMinimalIngestionProfile, NoCcpHash
<1>3. jobs \in SUBSET CcpJob
  BY <1>1, <1>2 DEF CcpJob
<1>4. jobs = {} <=> ccp.on = {}
  OBVIOUS
<1>5. CcpPopulateDefaultPrometheusConfig = jobs
  BY DEF CcpPopulateDefaultPrometheusConfig, CcpAppendMetricRelabelConfig
<1>6. ccp.noDefaults => ccp.on = {}
  BY DEF CcpStages, SettingsDone, KeepListDone
<1>7. CcpWriteDefaultScrapeTargetsFile = IF jobs = {} THEN NoJobs ELSE [present |-> TRUE, jobs |-> jobs]
  BY <1>4, <1>5, <1>6 DEF CcpWriteDefaultScrapeTargetsFile
<1> HIDE DEF jobs
<1>8. CASE jobs = {}
  BY <1>4, <1>7, <1>8 DEF NoJobs, CcpJobs, jobs
<1>9. CASE jobs # {}
  <2>1. CcpWriteDefaultScrapeTargetsFile = [present |-> TRUE, jobs |-> jobs]
    BY <1>7, <1>9
  <2>2. TRUE \in BOOLEAN
    OBVIOUS
  <2>3. CcpWriteDefaultScrapeTargetsFile \in CcpJobs
    BY <1>3, <2>1, <2>2, Zenon DEF CcpJobs
  <2>4. CcpWriteDefaultScrapeTargetsFile.jobs = jobs /\ CcpWriteDefaultScrapeTargetsFile.present = TRUE
    BY <2>1
  <2>5. ccp.on # {}
    BY <1>4, <1>9
  <2> QED
    BY <2>3, <2>4, <2>5 DEF jobs
<1> QED
  BY <1>8, <1>9

\* The merger.
LEMMA CcpMergeStep ==
    ASSUME CcpInv, prometheusCcpConfigMerger
    PROVE  CcpInv'
<1>1. CcpWriteDefaultScrapeTargetsFile \in CcpJobs
  BY CcpMergedJobs DEF CcpInv, prometheusCcpConfigMerger, KeepListDone, SettingsDone, SectionsDone
<1>2. /\ ccpFiles' \in [merged : CcpJobs, collector : CcpJobs]
      /\ ccpFiles'.merged = CcpWriteDefaultScrapeTargetsFile
      /\ ccpFiles'.collector = ccpFiles.collector
  BY <1>1 DEF CcpInv, CcpTypeOK, prometheusCcpConfigMerger
<1>3. CcpTypeOK'
  BY <1>2 DEF CcpInv, CcpTypeOK, prometheusCcpConfigMerger
<1>4. /\ CcpParseConfigMapForDefaultScrapeSettings(ccp)' = CcpParseConfigMapForDefaultScrapeSettings(ccp)
      /\ parseConfigMapForKeepListRegex' = parseConfigMapForKeepListRegex
      /\ CcpWriteDefaultScrapeTargetsFile' = CcpWriteDefaultScrapeTargetsFile
  BY DEF prometheusCcpConfigMerger, CcpParseConfigMapForDefaultScrapeSettings,
         parseConfigMapForKeepListRegex, CcpWriteDefaultScrapeTargetsFile,
         CcpPopulateDefaultPrometheusConfig, CcpAppendMetricRelabelConfig, CcpLoadRegexHash
<1>5. CcpStages'
  BY <1>2, <1>4 DEF CcpInv, CcpStages, prometheusCcpConfigMerger, SectionsDone, SettingsDone,
              KeepListDone, populateSettingValuesFromConfigMap, CcpMinimalIngestionProfile
<1> QED
  BY <1>3, <1>5 DEF CcpInv

\* The copy of the validator's output.
LEMMA CcpValidateStep ==
    ASSUME CcpInv, CcpValidate
    PROVE  CcpInv'
<1>1. /\ ccpFiles' \in [merged : CcpJobs, collector : CcpJobs]
      /\ ccpFiles'.merged = ccpFiles.merged
      /\ ccpFiles'.collector = IF ccpFiles.merged.present /\ ~ chart THEN ccpFiles.merged
                               ELSE ccpFiles.collector
  BY DEF CcpInv, CcpTypeOK, CcpValidate
<1>2. CcpTypeOK'
  BY <1>1 DEF CcpInv, CcpTypeOK, CcpValidate
<1>3. /\ CcpParseConfigMapForDefaultScrapeSettings(ccp)' = CcpParseConfigMapForDefaultScrapeSettings(ccp)
      /\ parseConfigMapForKeepListRegex' = parseConfigMapForKeepListRegex
      /\ CcpWriteDefaultScrapeTargetsFile' = CcpWriteDefaultScrapeTargetsFile
  BY DEF CcpValidate, CcpParseConfigMapForDefaultScrapeSettings,
         parseConfigMapForKeepListRegex, CcpWriteDefaultScrapeTargetsFile,
         CcpPopulateDefaultPrometheusConfig, CcpAppendMetricRelabelConfig, CcpLoadRegexHash
<1>4. CcpStages'
  BY <1>1, <1>3 DEF CcpInv, CcpStages, CcpValidate, SectionsDone, SettingsDone,
              KeepListDone, populateSettingValuesFromConfigMap, CcpMinimalIngestionProfile
<1> QED
  BY <1>2, <1>4 DEF CcpInv

\* Nothing of the control plane's changes.
LEMMA CcpStutters ==
    ASSUME CcpInv, UNCHANGED ccpVars
    PROVE  CcpInv'
<1>1. CcpTypeOK'
  BY DEF CcpInv, CcpTypeOK, ccpVars
<1>2. /\ CcpParseConfigMapForDefaultScrapeSettings(ccp)' = CcpParseConfigMapForDefaultScrapeSettings(ccp)
      /\ parseConfigMapForKeepListRegex' = parseConfigMapForKeepListRegex
      /\ CcpWriteDefaultScrapeTargetsFile' = CcpWriteDefaultScrapeTargetsFile
  BY DEF ccpVars, CcpParseConfigMapForDefaultScrapeSettings,
         parseConfigMapForKeepListRegex, CcpWriteDefaultScrapeTargetsFile,
         CcpPopulateDefaultPrometheusConfig, CcpAppendMetricRelabelConfig, CcpLoadRegexHash
<1>3. CcpStages'
  BY <1>2 DEF CcpInv, CcpStages, ccpVars, populateSettingValuesFromConfigMap,
              CcpMinimalIngestionProfile
<1> QED
  BY <1>1, <1>3 DEF CcpInv

\* The control plane's invariant holds in every container.
LEMMA CcpInductive == StartSpec => []CcpInv
<1>1. StartInit => CcpInv
  <2> SUFFICES ASSUME StartInit PROVE CcpInv
    OBVIOUS
  <2>1. /\ ccp = NoCcpEnv /\ ccpKeep = NoCcpHash /\ chart \in BOOLEAN
        /\ ccpFiles = [merged |-> NoJobs, collector |-> NoJobs]
        /\ stage = "idle" \/ (stage = "versions" /\ settings \in CcpSettings)
    BY DEF StartInit, CcpInit, CcpIdle
  <2>2. NoJobs \in CcpJobs /\ NoCcpEnv \in CcpEnvType
    BY DEF NoJobs, CcpJobs, CcpJob, NoCcpEnv, CcpEnvType
  <2>3. CcpTypeOK
    BY <2>1, <2>2 DEF CcpTypeOK
  <2>4. CcpStages
    BY <2>1 DEF CcpStages, SectionsDone, SettingsDone, KeepListDone
  <2> QED
    BY <2>3, <2>4 DEF CcpInv
<1>2. CcpInv /\ [StartNext]_allVars => CcpInv'
  <2> SUFFICES ASSUME CcpInv, [StartNext]_allVars PROVE CcpInv'
    OBVIOUS
  <2>1. CASE UNCHANGED ccpVars
    BY <2>1, CcpStutters
  <2>2. CASE CcpNext
    BY <2>2, CcpVersionsStep, CcpSectionsStep, CcpSettingsStep, CcpKeepListStep, CcpMergeStep,
       CcpValidateStep DEF CcpNext
  <2> QED
    BY <2>1, <2>2 DEF StartNext, Ready, allVars
<1> QED
  BY <1>1, <1>2, PTL DEF StartSpec

\* Whatever the ConfigMap holds, the control plane's targets are the ones it asks for,
\* or the defaults and a reason: a report, no schema version this code knows, or a
\* version 1 file of the targets that cannot be read.
THEOREM CcpSettingsInForce == StartSpec => []CcpAsAsked
<1>1. CcpInv => CcpAsAsked
  <2> SUFFICES ASSUME CcpInv, stage = "done", ~ chart PROVE CcpAsAsked
    BY DEF CcpAsAsked
  <2>1. /\ CcpWriteDefaultScrapeTargetsFile.jobs =
             {[target |-> t, keep |-> CcpLoadRegexHash(t)] : t \in ccp.on}
        /\ CcpWriteDefaultScrapeTargetsFile.present <=> ccp.on # {}
    BY CcpMergedJobs DEF CcpInv, KeepListDone, SettingsDone, SectionsDone
  <2>2. ccpFiles.collector.jobs = {[target |-> t, keep |-> CcpLoadRegexHash(t)] : t \in ccp.on}
    BY <2>1 DEF CcpInv, CcpStages, NoJobs
  <2>3. CcpScraped = ccp.on
    <3>1. ASSUME NEW t \in ccp.on PROVE t \in CcpScraped
      <4> DEFINE j == [target |-> t, keep |-> CcpLoadRegexHash(t)]
      <4>1. j \in ccpFiles.collector.jobs /\ j.target = t
        BY <2>2, <3>1
      <4> QED
        BY <4>1 DEF CcpScraped
    <3>2. ASSUME NEW j \in ccpFiles.collector.jobs PROVE j.target \in ccp.on
      BY <2>2, <3>2
    <3> QED
      BY <3>1, <3>2 DEF CcpScraped
  <2>4. ccp.on = {t \in CcpTarget : CcpParseConfigMapForDefaultScrapeSettings(ccp)[t] = "true"}
    BY DEF CcpInv, CcpStages, SettingsDone, SectionsDone
  <2>5. CASE "targets" \in ccp.sections
    BY <2>3, <2>4, <2>5 DEF CcpParseConfigMapForDefaultScrapeSettings, CcpAsAsked, CcpAsked
  <2>6. CASE "targets" \notin ccp.sections
    <3>1. ccp.on = {"apiserver", "etcd"}
      BY <2>4, <2>6 DEF CcpParseConfigMapForDefaultScrapeSettings, CcpSetDefaultScrapeSettings, CcpTarget
    <3>2. \/ ccp.invalid \/ settings.schema \in {"missing", "other"}
          \/ settings.schema = "v1" /\ "targets" \in settings.unreadable
      BY <2>6 DEF CcpInv, CcpStages, SectionsDone
    <3> QED
      BY <2>3, <3>1, <3>2 DEF CcpAsAsked, CcpDefaults
  <2> QED
    BY <2>5, <2>6
<1> QED
  BY <1>1, CcpInductive, PTL

\* The control plane's filters are applied to every job or to none, and then a value
\* did not compile.
LEMMA CcpFiltersTogether == StartSpec => []CcpFiltered
<1>1. CcpInv => CcpFiltered
  <2> SUFFICES ASSUME CcpInv, stage = "done" PROVE CcpFiltered
    BY DEF CcpFiltered
  <2>1. CcpWriteDefaultScrapeTargetsFile.jobs =
             {[target |-> t, keep |-> CcpLoadRegexHash(t)] : t \in ccp.on}
    BY CcpMergedJobs DEF CcpInv, KeepListDone, SettingsDone, SectionsDone
  <2>2. \A j \in ccpFiles.collector.jobs : j.target \in CcpTarget /\ j.keep = CcpLoadRegexHash(j.target)
    <3> SUFFICES ASSUME NEW j \in ccpFiles.collector.jobs
                 PROVE  j.target \in CcpTarget /\ j.keep = CcpLoadRegexHash(j.target)
      OBVIOUS
    <3>1. j \in CcpWriteDefaultScrapeTargetsFile.jobs
      BY DEF CcpInv, CcpStages, NoJobs
    <3>2. PICK t \in ccp.on : j = [target |-> t, keep |-> CcpLoadRegexHash(t)]
      BY <2>1, <3>1
    <3>3. t \in CcpTarget
      BY DEF CcpInv, CcpTypeOK, CcpEnvType
    <3>4. j.target = t /\ j.keep = CcpLoadRegexHash(t)
      BY <3>2
    <3> QED
      BY <3>3, <3>4
  <2>3. CASE populateSettingValuesFromConfigMap(parseConfigMapForKeepListRegex)
    <3>1. ccpKeep = CcpMinimalIngestionProfile(parseConfigMapForKeepListRegex)
      BY <2>3 DEF CcpInv, CcpStages, KeepListDone, SettingsDone, SectionsDone
    <3>2. \A t \in CcpTarget :
             /\ "minimal" \in CcpLoadRegexHash(t) <=> ~ ("keep" \in ccp.sections /\ settings.minimal = "false")
             /\ "custom" \in CcpLoadRegexHash(t) <=> "keep" \in ccp.sections /\ t \in DOMAIN settings.keep
      BY <3>1 DEF CcpLoadRegexHash, CcpMinimalIngestionProfile, parseConfigMapForKeepListRegex
    <3> QED
      BY <2>2, <3>2 DEF CcpFiltered
  <2>4. CASE ~ populateSettingValuesFromConfigMap(parseConfigMapForKeepListRegex)
    <3>1. \A t \in CcpTarget : CcpLoadRegexHash(t) = {}
      BY <2>4 DEF CcpInv, CcpStages, CcpLoadRegexHash, NoCcpHash
    <3>2. settings.minimal = "bad" \/ \E t \in DOMAIN settings.keep : settings.keep[t] = "bad"
      BY <2>4 DEF populateSettingValuesFromConfigMap, parseConfigMapForKeepListRegex
    <3> QED
      BY <2>2, <3>1, <3>2 DEF CcpFiltered
  <2> QED
    BY <2>3, <2>4
<1> QED
  BY <1>1, CcpInductive, PTL

-----------------------------------------------------------------------------
(* The cluster's pipeline. *)

EnvType ==
    [schema : {"", "v1", "v2", "other"}, sections : BOOLEAN, on : SUBSET Target,
     namespaces : BOOLEAN, noDefaults : BOOLEAN, https : BOOLEAN, debug : BOOLEAN,
     otlp : BOOLEAN, ksm : BOOLEAN, label : {"", "cluster", "alias"},
     minimal : {"unset", "true", "false"}, invalidCustom : BOOLEAN,
     useDefault : BOOLEAN, setGlobal : BOOLEAN]
ConfigSet == [jobs : SUBSET Job, custom : CustomKind \cup {"absent", "empty", "allocator"},
              limits : BOOLEAN]
FilesType == [promMerged : ConfigSet, defaultsMerged : ConfigSet, collector : ConfigSet,
              collectorDefault : ConfigSet]
NoJob == Config({}, "empty", FALSE)
FromAllocator == Config({}, "allocator", FALSE)

Types ==
    /\ pod \in Pod /\ custom \in CustomKind
    /\ pc \in {"idle", "versions", "settings", "keepList", "intervals", "merge", "validate",
               "choose", "done", "crashed"}
    /\ pc # "idle" => cm \in Settings /\ cluster \in Clusters
    /\ env \in EnvType
    /\ \A t \in DOMAIN keepHash : t \in Target /\ keepHash[t] \subseteq {"custom", "minimal"}
    /\ \A t \in DOMAIN intervalHash : t \in Target /\ intervalHash[t] \in Interval
    /\ files \in FilesType
    /\ chosen.path \in {"", "replicaset", "default", "custom"} /\ chosen.config \in ConfigSet

\* What the stages of the settings leave behind.
ParsedStages == {"keepList", "intervals", "merge", "validate", "choose", "done", "crashed"}
FilteredStages == ParsedStages \ {"keepList"}
TimedStages == FilteredStages \ {"intervals"}
MergedStages == TimedStages \ {"merge", "crashed"}
JudgedStages == MergedStages \ {"validate"}
Parsed ==
    /\ pc \in {"versions", "settings"} => env.on = {}
    /\ pc \in ParsedStages => env.label # "" /\ ("podannotations" \in env.on => env.namespaces)
    /\ keepHash = IF pc \in FilteredStages /\ validateRegexValues(env)
                  THEN populateRegexValuesWithMinimalIngestionProfile(env, populateKeepList(env))
                  ELSE NoHash
    /\ pc \in TimedStages => DOMAIN intervalHash = Target

\* A job with all the filters its target has.
Complete(j) == /\ j.keep = loadRegexHash(j.target)
               /\ j.target = "podannotations" => j.confined
AllComplete(c) == \A j \in c.jobs : Complete(j)

\* What the merger and the validator leave behind.
Merged ==
    /\ pc = "crashed" => custom = "notMapping"
    /\ pc \notin MergedStages \cup {"crashed"} =>
          files.promMerged = Missing /\ files.defaultsMerged = Missing
    /\ pc \in MergedStages =>
          /\ files.defaultsMerged = Missing \/ files.defaultsMerged.custom = "none"
          /\ custom = "none" => files.promMerged = Missing
          /\ custom # "none" =>
                /\ files.promMerged.custom = IF custom = "malformed" THEN "none" ELSE custom
                /\ files.promMerged.limits = setLabelLimitsPerScrape
    /\ AllComplete(files.promMerged) /\ AllComplete(files.defaultsMerged)
    /\ AllComplete(files.collector) /\ AllComplete(files.collectorDefault)

Judged ==
    /\ pc \notin JudgedStages =>
          /\ files.collector = Missing /\ files.collectorDefault = NoJob
          /\ ~ env.invalidCustom /\ ~ env.useDefault
    /\ pc \in JudgedStages /\ env.useDefault =>
          /\ files.collectorDefault.custom \in {"none", "empty"}
          /\ \/ Loads(files.collectorDefault)
             \/ env.invalidCustom /\ ~ Loads(files.defaultsMerged)
          /\ custom # "none" => env.invalidCustom
    /\ pc \in JudgedStages /\ ~ env.useDefault =>
          /\ custom # "none" /\ ~ env.invalidCustom
          /\ files.collector = files.promMerged /\ Loads(files.promMerged)

Chosen ==
    pc = "done" =>
        IF operatorEnabled THEN chosen.config = FromAllocator
        ELSE IF env.useDefault
             THEN chosen.path = "default" /\ chosen.config = files.collectorDefault
             ELSE chosen.config = files.collector

PipelineInv == Types /\ Parsed /\ Merged /\ Judged /\ Chosen

\* Reading the versions.
LEMMA VersionsStep ==
    ASSUME PipelineInv, Versions
    PROVE  PipelineInv'
<1>1. setConfigSchemaVersionEnv \in {"v1", "v2", "other"}
  BY PipelineAssumption DEF PipelineInv, Types, Versions, setConfigSchemaVersionEnv
<1>2. env' \in EnvType /\ env'.invalidCustom = env.invalidCustom /\ env'.useDefault = env.useDefault
  <2> DEFINE schema == setConfigSchemaVersionEnv
             sections == schema \in {"v1", "v2"} /\ cm.readable
  <2>1. sections \in BOOLEAN
    OBVIOUS
  <2>2. env' = [env EXCEPT !.schema = schema, !.sections = sections]
    BY DEF Versions
  <2> HIDE DEF schema, sections
  <2>3. schema \in {"", "v1", "v2", "other"}
    BY <1>1 DEF schema
  <2> QED
    BY <2>1, <2>2, <2>3 DEF PipelineInv, Types, EnvType
<1>3. Types'
  BY <1>2 DEF PipelineInv, Types, Versions, inputs
<1>4. Parsed'
  BY DEF PipelineInv, Types, EnvType, Parsed, Versions, ParsedStages, FilteredStages, TimedStages
<1>5. Merged'
  BY DEF PipelineInv, Merged, Versions, inputs, ParsedStages, FilteredStages, TimedStages,
         MergedStages, Missing, AllComplete, Complete, loadRegexHash
<1>6. Judged'
  BY <1>2 DEF PipelineInv, Judged, Versions, inputs, ParsedStages, FilteredStages, TimedStages,
         MergedStages, JudgedStages
<1> QED
  BY <1>3, <1>4, <1>5, <1>6 DEF PipelineInv, Chosen, Versions

\* What the stages of the settings make of the environment.
LEMMA SettingsParsed ==
    ASSUME Types, pc # "idle", env.on = {}
    PROVE  LET e == parseKSMSettings(parseOpentelemetryMetricsSettings(parseDebugModeSettings(
                      parseDefaultScrapeSettings(parsePrometheusCollectorConfig(
                      parseSettingsForPodAnnotations(env))))))
           IN  /\ e \in EnvType /\ e.invalidCustom = env.invalidCustom /\ e.useDefault = env.useDefault
               /\ e.label # "" /\ ("podannotations" \in e.on => e.namespaces)
<1> DEFINE e1 == parseSettingsForPodAnnotations(env)
           e2 == parsePrometheusCollectorConfig(e1)
           e3 == parseDefaultScrapeSettings(e2)
           e4 == parseDebugModeSettings(e3)
           e5 == parseOpentelemetryMetricsSettings(e4)
           e6 == parseKSMSettings(e5)
           Good(e) == /\ e \in EnvType /\ e.invalidCustom = env.invalidCustom /\ e.useDefault = env.useDefault
                      /\ "podannotations" \in e.on => e.namespaces
<1>1. Good(e1)
  <2> DEFINE found == populatePodAnnotationNamespaceFromConfigMap(env)
             on == {t \in {"podannotations"} : found}
  <2>1. found \in BOOLEAN
    BY DEF populatePodAnnotationNamespaceFromConfigMap
  <2>2. e1 = [env EXCEPT !.on = on, !.namespaces = found]
    BY DEF parseSettingsForPodAnnotations
  <2>3. on \in SUBSET Target /\ ("podannotations" \in on <=> found)
    BY DEF Target
  <2> HIDE DEF found, on
  <2>4. /\ e1.on = on /\ e1.namespaces = found /\ e1.invalidCustom = env.invalidCustom /\ e1.useDefault = env.useDefault
        /\ e1 \in EnvType
    BY <2>1, <2>2, <2>3 DEF Types, EnvType
  <2> QED
    BY <2>3, <2>4
<1> HIDE DEF e1
<1>2. Good(e2) /\ e2.label # ""
  <2> DEFINE found == IF e1.sections THEN PopulateSettingValuesFromConfigMap
                      ELSE [alias |-> "", https |-> cluster.https]
             label == IF found.alias = "" THEN "cluster" ELSE found.alias
             https == found.https
  <2>1. e2 = [e1 EXCEPT !.https = https, !.label = label]
    BY DEF parsePrometheusCollectorConfig
  <2>2. label \in {"cluster", "alias"}
    BY DEF PopulateSettingValuesFromConfigMap
  <2>3. https \in BOOLEAN
    <3>1. cluster.https \in BOOLEAN
      BY PipelineAssumption DEF Types
    <3> QED
      BY <3>1 DEF PopulateSettingValuesFromConfigMap
  <2> HIDE DEF found, label, https
  <2>4. /\ e2 \in EnvType /\ e2.label = label /\ e2.on = e1.on /\ e2.namespaces = e1.namespaces
        /\ e2.invalidCustom = e1.invalidCustom /\ e2.useDefault = e1.useDefault
    BY <1>1, <2>1, <2>2, <2>3 DEF EnvType
  <2> QED
    BY <1>1, <2>2, <2>4
<1> HIDE DEF e2
<1>3. Good(e3) /\ e3.label # ""
  <2> DEFINE config == ParseConfigMapForDefaultScrapeSettings(e2)
             on == e2.on \cup {t \in DOMAIN config : config[t] = "true"}
             none == NoDefaultsEnabled(config)
  <2>1. e3 = [e2 EXCEPT !.on = on, !.noDefaults = none]
    BY DEF parseDefaultScrapeSettings
  <2>2. none \in BOOLEAN
    BY DEF NoDefaultsEnabled
  <2>3. DOMAIN config = Target \ {"podannotations"}
    BY DEF ParseConfigMapForDefaultScrapeSettings, SetDefaultScrapeSettings
  <2> HIDE DEF config
  <2>4. on \in SUBSET Target /\ ("podannotations" \in on <=> "podannotations" \in e2.on)
    BY <1>2, <2>3 DEF EnvType
  <2> HIDE DEF on, none
  <2>5. /\ e3 \in EnvType /\ e3.label = e2.label /\ e3.on = on /\ e3.namespaces = e2.namespaces
        /\ e3.invalidCustom = e2.invalidCustom /\ e3.useDefault = e2.useDefault
    BY <1>2, <2>1, <2>2, <2>4 DEF EnvType
  <2> QED
    BY <1>2, <2>4, <2>5
<1> HIDE DEF e3
<1>4. Good(e4) /\ e4.label # ""
  BY <1>3 DEF EnvType, parseDebugModeSettings
<1> HIDE DEF e4
<1>5. Good(e5) /\ e5.label # ""
  BY <1>4 DEF EnvType, parseOpentelemetryMetricsSettings
<1> HIDE DEF e5
<1>6. Good(e6) /\ e6.label # ""
  BY <1>5 DEF EnvType, parseKSMSettings
<1> QED
  BY <1>6 DEF e1, e2, e3, e4, e5

\* The settings.
LEMMA ParseSettingsStep ==
    ASSUME PipelineInv, ParseSettings
    PROVE  PipelineInv'
<1>1. /\ env' \in EnvType /\ env'.invalidCustom = env.invalidCustom /\ env'.useDefault = env.useDefault
      /\ env'.label # "" /\ ("podannotations" \in env'.on => env'.namespaces)
  BY SettingsParsed DEF PipelineInv, Parsed, ParseSettings
<1>2. Types'
  BY <1>1 DEF PipelineInv, Types, ParseSettings, inputs
<1>3. Parsed'
  BY <1>1 DEF PipelineInv, Parsed, ParseSettings, ParsedStages, FilteredStages, TimedStages
<1>4. Merged'
  BY DEF PipelineInv, Merged, ParseSettings, inputs, ParsedStages, FilteredStages, TimedStages,
         MergedStages, Missing, AllComplete, Complete, loadRegexHash
<1>5. Judged'
  BY <1>1 DEF PipelineInv, Judged, ParseSettings, inputs, ParsedStages, FilteredStages,
         TimedStages, MergedStages, JudgedStages
<1> QED
  BY <1>2, <1>3, <1>4, <1>5 DEF PipelineInv, Chosen, ParseSettings

\* The keep lists, all of them or none.
LEMMA KeepListStep ==
    ASSUME PipelineInv, tomlparserTargetsMetricsKeepList
    PROVE  PipelineInv'
<1>1. /\ env' \in EnvType /\ env'.invalidCustom = env.invalidCustom /\ env'.useDefault = env.useDefault /\ env'.label = env.label
      /\ env'.on = env.on /\ env'.namespaces = env.namespaces /\ env'.sections = env.sections
  BY DEF PipelineInv, Types, EnvType, tomlparserTargetsMetricsKeepList, populateKeepList
<1>2. /\ validateRegexValues(env)' <=> validateRegexValues(env)
      /\ populateKeepList(env)' = populateKeepList(env)
  BY <1>1 DEF validateRegexValues, populateKeepList, tomlparserTargetsMetricsKeepList, inputs
<1>3. populateRegexValuesWithMinimalIngestionProfile(env, populateKeepList(env))'
        = populateRegexValuesWithMinimalIngestionProfile(env, populateKeepList(env))
  BY <1>1, <1>2 DEF populateRegexValuesWithMinimalIngestionProfile,
                    tomlparserTargetsMetricsKeepList, inputs
<1>4. keepHash = NoHash
  BY DEF PipelineInv, Parsed, tomlparserTargetsMetricsKeepList, FilteredStages, ParsedStages
<1>5. keepHash' = IF validateRegexValues(env)
                  THEN populateRegexValuesWithMinimalIngestionProfile(env, populateKeepList(env))
                  ELSE NoHash
  BY <1>4 DEF tomlparserTargetsMetricsKeepList
<1>6. \A t \in DOMAIN keepHash' : t \in Target /\ keepHash'[t] \subseteq {"custom", "minimal"}
  BY <1>5 DEF NoHash, populateRegexValuesWithMinimalIngestionProfile
<1>7. Types'
  BY <1>1, <1>6 DEF PipelineInv, Types, tomlparserTargetsMetricsKeepList, inputs
<1>8. Parsed'
  BY <1>1, <1>2, <1>3, <1>5 DEF PipelineInv, Parsed, tomlparserTargetsMetricsKeepList,
         ParsedStages, FilteredStages, TimedStages
<1>9. Merged'
  BY DEF PipelineInv, Merged, Judged, tomlparserTargetsMetricsKeepList, inputs, ParsedStages,
         FilteredStages, TimedStages, MergedStages, JudgedStages, Missing, NoJob, Config,
         AllComplete
<1>10. Judged'
  BY <1>1 DEF PipelineInv, Judged, tomlparserTargetsMetricsKeepList, inputs, ParsedStages,
         FilteredStages, TimedStages, MergedStages, JudgedStages
<1> QED
  BY <1>7, <1>8, <1>9, <1>10 DEF PipelineInv, Chosen, tomlparserTargetsMetricsKeepList

\* The intervals: one for every target.
LEMMA IntervalStep ==
    ASSUME PipelineInv, tomlparserScrapeInterval
    PROVE  PipelineInv'
<1>1. ASSUME NEW t \in Target PROVE getParsedDataValue(env, t) \in Interval
  <2>1. \A u \in DOMAIN cm.interval : cm.interval[u] \in {"1m", "5s", "bad"}
    BY PipelineAssumption DEF PipelineInv, Types, tomlparserScrapeInterval
  <2> QED
    BY <2>1 DEF getParsedDataValue, checkDuration, Interval
<1>2. DOMAIN intervalHash' = Target /\ \A t \in Target : intervalHash'[t] \in Interval
  BY <1>1 DEF tomlparserScrapeInterval
<1>3. Types'
  BY <1>2 DEF PipelineInv, Types, tomlparserScrapeInterval, inputs
<1>4. /\ validateRegexValues(env)' <=> validateRegexValues(env)
      /\ populateRegexValuesWithMinimalIngestionProfile(env, populateKeepList(env))'
         = populateRegexValuesWithMinimalIngestionProfile(env, populateKeepList(env))
  BY DEF validateRegexValues, populateKeepList, populateRegexValuesWithMinimalIngestionProfile,
         tomlparserScrapeInterval, inputs
<1>5. Parsed'
  BY <1>2, <1>4 DEF PipelineInv, Parsed, tomlparserScrapeInterval, ParsedStages, FilteredStages,
         TimedStages
<1>6. Merged'
  BY DEF PipelineInv, Merged, tomlparserScrapeInterval, inputs, ParsedStages, FilteredStages,
         TimedStages, MergedStages, Missing, AllComplete, Complete, loadRegexHash
<1>7. Judged'
  BY DEF PipelineInv, Judged, tomlparserScrapeInterval, inputs, ParsedStages, FilteredStages,
         TimedStages, MergedStages, JudgedStages
<1> QED
  BY <1>3, <1>5, <1>6, <1>7 DEF PipelineInv, Chosen, tomlparserScrapeInterval

\* The edits of a default file change what they are for and nothing else.
LEMMA FileEdits ==
    ASSUME NEW job \in Job, NEW interval \in Interval, NEW keep \in SUBSET {"custom", "minimal"}
    PROVE  LET edited == AppendMetricRelabelConfig(UpdateScrapeIntervalConfig(job, interval), keep)
               confined == AppendRelabelConfig(edited)
           IN  /\ edited \in Job /\ edited.target = job.target /\ edited.keep = keep
               /\ confined \in Job /\ confined.target = job.target /\ confined.keep = keep
               /\ confined.confined /\ edited.interval = interval /\ confined.interval = interval
<1> DEFINE timed == UpdateScrapeIntervalConfig(job, interval)
           edited == AppendMetricRelabelConfig(timed, keep)
           confined == AppendRelabelConfig(edited)
<1>1. timed \in Job /\ timed.target = job.target /\ timed.interval = interval
  BY DEF UpdateScrapeIntervalConfig, Job
<1> HIDE DEF timed
<1>2. /\ edited \in Job /\ edited.target = job.target /\ edited.keep = keep
      /\ edited.interval = interval
  BY <1>1 DEF AppendMetricRelabelConfig, Job
<1> HIDE DEF edited
<1>3. /\ confined \in Job /\ confined.target = job.target /\ confined.keep = keep
      /\ confined.confined /\ confined.interval = interval
  BY <1>2 DEF AppendRelabelConfig, Job
<1> QED
  BY <1>2, <1>3 DEF timed, edited

\* The file of a target as it is merged.
LEMMA EditedJob ==
    ASSUME NEW t \in DefaultFiles, intervalHash[t] \in Interval,
           loadRegexHash(t) \in SUBSET {"custom", "minimal"}
    PROVE  /\ Edited(t) \in Job /\ Edited(t).target = t /\ Edited(t).keep = loadRegexHash(t)
           /\ t = "podannotations" /\ env.namespaces => Edited(t).confined
           /\ Edited(t).interval = intervalHash[t]
<1> DEFINE file == setGlobalScrapeConfigInDefaultFilesIfExists[t]
           keep == loadRegexHash(t)
<1>1. t \in Target
  BY DEF DefaultFiles, setGlobalScrapeConfigInDefaultFilesIfExists, setDefaultFileScrapeInterval,
         InPlace, Target
<1>2. file = [target |-> t, interval |-> "30s", keep |-> {}, confined |-> FALSE]
  BY <1>1 DEF DefaultFiles, setGlobalScrapeConfigInDefaultFilesIfExists,
              setDefaultFileScrapeInterval
<1>3. file.target = t
  BY <1>2
<1>4. file \in Job
  BY <1>1, <1>2 DEF Job, Interval
<1>5. Edited(t) = IF t = "podannotations" /\ env.namespaces
                  THEN AppendRelabelConfig(AppendMetricRelabelConfig(
                            UpdateScrapeIntervalConfig(file, intervalHash[t]), keep))
                  ELSE AppendMetricRelabelConfig(UpdateScrapeIntervalConfig(file, intervalHash[t]), keep)
  BY DEF Edited, loadIntervalHash
<1> HIDE DEF file, keep
<1>6. keep \in SUBSET {"custom", "minimal"}
  BY DEF keep
<1>7. LET edited == AppendMetricRelabelConfig(UpdateScrapeIntervalConfig(file, intervalHash[t]), keep)
          confined == AppendRelabelConfig(edited)
      IN  /\ edited \in Job /\ edited.target = t /\ edited.keep = keep
          /\ confined \in Job /\ confined.target = t /\ confined.keep = keep
          /\ confined.confined
          /\ edited.interval = intervalHash[t] /\ confined.interval = intervalHash[t]
  BY <1>3, <1>4, <1>6, FileEdits
<1> QED
  BY <1>5, <1>7 DEF keep

\* Every job of the default targets has its filters.
LEMMA DefaultsComplete ==
    ASSUME Types, Parsed, pc = "merge"
    PROVE  /\ writeDefaultScrapeTargetsFile \in ConfigSet
           /\ \/ writeDefaultScrapeTargetsFile = Missing
              \/ writeDefaultScrapeTargetsFile.custom = "none"
           /\ AllComplete(writeDefaultScrapeTargetsFile)
<1> DEFINE taken == TakenBy(pod, operatorEnabled, env.on, DefaultFiles)
           jobs == mergeDefaultScrapeConfigs(taken)
<1>1. taken \subseteq env.on
  BY DEF TakenBy, populateDefaultPrometheusConfigWithOperator, populateDefaultPrometheusConfig
<1> HIDE DEF taken
<1>2. ASSUME NEW t \in taken \cap DefaultFiles
      PROVE  Edited(t) \in Job /\ Complete(Edited(t))
  <2>1. t \in env.on /\ t \in Target
    BY <1>1 DEF Types, EnvType
  <2>2. intervalHash[t] \in Interval
    BY <2>1 DEF Types, Parsed, TimedStages, FilteredStages, ParsedStages
  <2>3. loadRegexHash(t) \in SUBSET {"custom", "minimal"}
    BY DEF loadRegexHash, Types
  <2>4. t = "podannotations" => env.namespaces
    BY <2>1 DEF Parsed, ParsedStages
  <2> QED
    BY <2>1, <2>2, <2>3, <2>4, EditedJob DEF Complete
<1>3. jobs \in SUBSET Job /\ \A j \in jobs : Complete(j)
  BY <1>2 DEF mergeDefaultScrapeConfigs
<1> HIDE DEF jobs
<1>4. writeDefaultScrapeTargetsFile = IF env.noDefaults \/ taken = {} THEN Missing
                                      ELSE [jobs |-> jobs, custom |-> "none", limits |-> FALSE]
  BY DEF writeDefaultScrapeTargetsFile, Config, taken, jobs
<1>5. CASE env.noDefaults \/ taken = {}
  BY <1>4, <1>5 DEF Missing, ConfigSet, AllComplete
<1>6. CASE ~ (env.noDefaults \/ taken = {})
  <2>1. writeDefaultScrapeTargetsFile = [jobs |-> jobs, custom |-> "none", limits |-> FALSE]
    BY <1>4, <1>6
  <2>2. "none" \in CustomKind \cup {"absent", "empty", "allocator"} /\ FALSE \in BOOLEAN
    BY DEF CustomKind
  <2>3. writeDefaultScrapeTargetsFile \in ConfigSet
    BY <1>3, <2>1, <2>2, Zenon DEF ConfigSet
  <2>4. writeDefaultScrapeTargetsFile.jobs = jobs /\ writeDefaultScrapeTargetsFile.custom = "none"
    BY <2>1
  <2> QED
    BY <1>3, <2>3, <2>4 DEF AllComplete
<1> QED
  BY <1>5, <1>6

\* The operators of the earlier stages do not depend on the files.
LEMMA SettingsKept ==
    ASSUME Parsed, env'.sections = env.sections, env'.label = env.label, env'.on = env.on,
           env'.namespaces = env.namespaces, cm' = cm, keepHash' = keepHash,
           intervalHash' = intervalHash, pc \in TimedStages, pc' \in TimedStages
    PROVE  Parsed'
<1>1. /\ validateRegexValues(env)' <=> validateRegexValues(env)
      /\ populateRegexValuesWithMinimalIngestionProfile(env, populateKeepList(env))'
         = populateRegexValuesWithMinimalIngestionProfile(env, populateKeepList(env))
  BY DEF validateRegexValues, populateKeepList, populateRegexValuesWithMinimalIngestionProfile
<1> QED
  BY <1>1 DEF Parsed, ParsedStages, FilteredStages, TimedStages

\* The merger.
LEMMA MergeStep ==
    ASSUME PipelineInv, prometheusConfigMerger
    PROVE  PipelineInv'
<1> DEFINE defaults == writeDefaultScrapeTargetsFile
           limits == setLabelLimitsPerScrape
           part == IF custom = "malformed" THEN "none" ELSE custom
           both == mergeDefaultAndCustomScrapeConfigs(defaults)
<1> USE DEF ParsedStages, FilteredStages, TimedStages, MergedStages, JudgedStages
<1>1. defaults \in ConfigSet /\ AllComplete(defaults) /\ (defaults = Missing \/ defaults.custom = "none")
  BY DefaultsComplete DEF PipelineInv, prometheusConfigMerger
<1>2. limits \in BOOLEAN
  BY DEF setLabelLimitsPerScrape
<1>3. part \in CustomKind
  BY DEF PipelineInv, Types, CustomKind
<1>4. both = [jobs |-> defaults.jobs, custom |-> part, limits |-> limits]
  BY DEF mergeDefaultAndCustomScrapeConfigs, Config
<1>5. files' = [files EXCEPT !.defaultsMerged = defaults,
                             !.promMerged = IF custom \notin {"none", "notMapping"} THEN both
                                            ELSE files.promMerged]
  BY DEF prometheusConfigMerger, parseConfigMap, SetLabelLimitsPanics
<1> HIDE DEF defaults, limits, part, both
<1>6. /\ both \in ConfigSet /\ both.jobs = defaults.jobs /\ both.custom = part
      /\ both.limits = limits
  BY <1>1, <1>2, <1>3, <1>4 DEF ConfigSet
<1>7. /\ files' \in FilesType /\ files'.defaultsMerged = defaults
      /\ files'.promMerged = IF custom \notin {"none", "notMapping"} THEN both ELSE files.promMerged
      /\ files'.collector = files.collector /\ files'.collectorDefault = files.collectorDefault
  BY <1>1, <1>5, <1>6 DEF PipelineInv, Types, FilesType
<1>8. Types'
  BY <1>7 DEF PipelineInv, Types, prometheusConfigMerger, inputs, SetLabelLimitsPanics
<1>9. Parsed'
  BY SettingsKept DEF PipelineInv, prometheusConfigMerger, inputs, SetLabelLimitsPanics
<1>10. /\ AllComplete(defaults) /\ AllComplete(files.collector) /\ AllComplete(files.collectorDefault)
       /\ AllComplete(both) /\ AllComplete(files.promMerged) /\ files.promMerged = Missing
  BY <1>1, <1>6 DEF PipelineInv, Merged, prometheusConfigMerger, AllComplete
<1>11. /\ AllComplete(files'.promMerged) /\ AllComplete(files'.defaultsMerged)
       /\ AllComplete(files'.collector) /\ AllComplete(files'.collectorDefault)
  BY <1>7, <1>10
<1>12. /\ AllComplete(files.promMerged)' /\ AllComplete(files.defaultsMerged)'
       /\ AllComplete(files.collector)' /\ AllComplete(files.collectorDefault)'
  BY <1>11 DEF AllComplete, Complete, loadRegexHash, prometheusConfigMerger
<1>13. /\ setLabelLimitsPerScrape' = limits /\ custom' = custom
       /\ pc' = IF custom = "notMapping" THEN "crashed" ELSE "validate"
  BY DEF limits, setLabelLimitsPerScrape, prometheusConfigMerger, inputs, SetLabelLimitsPanics
<1>14. Merged'
  BY <1>1, <1>6, <1>7, <1>10, <1>12, <1>13 DEF Merged, part
<1>15. Judged'
  BY <1>7, <1>13 DEF PipelineInv, Judged, prometheusConfigMerger, inputs
<1> QED
  BY <1>8, <1>9, <1>13, <1>14, <1>15 DEF PipelineInv, Chosen

\* The validator's verdict on a merged custom configuration.
LEMMA ValidateMergedStep ==
    ASSUME PipelineInv, ValidateMerged
    PROVE  PipelineInv'
<1> USE DEF ParsedStages, FilteredStages, TimedStages, MergedStages, JudgedStages
<1>1. /\ custom # "none" /\ ~ env.invalidCustom /\ ~ env.useDefault
      /\ files.collector = Missing /\ files.collectorDefault = NoJob
  BY DEF PipelineInv, Merged, Judged, ValidateMerged
<1>2. /\ files.promMerged \in ConfigSet /\ files.defaultsMerged \in ConfigSet
      /\ files.collector \in ConfigSet /\ files.collectorDefault \in ConfigSet
  BY DEF PipelineInv, Types, FilesType
<1>3. /\ AllComplete(files.promMerged) /\ AllComplete(files.defaultsMerged)
      /\ AllComplete(files.collector) /\ AllComplete(files.collectorDefault)
  BY DEF PipelineInv, Merged
<1>4. files.defaultsMerged = Missing \/ files.defaultsMerged.custom = "none"
  BY DEF PipelineInv, Merged, ValidateMerged
<1>5. /\ custom' = custom /\ cm' = cm /\ keepHash' = keepHash /\ intervalHash' = intervalHash
      /\ pc' = "choose" /\ chosen' = chosen /\ pod' = pod /\ cluster' = cluster
      /\ setLabelLimitsPerScrape' = setLabelLimitsPerScrape
  BY DEF ValidateMerged, inputs, setLabelLimitsPerScrape
<1>6. NoJob.custom = "empty" /\ Loads(NoJob)
  BY DEF NoJob, Config, Loads
<1>7. /\ env' \in EnvType /\ env'.sections = env.sections /\ env'.label = env.label
      /\ env'.on = env.on /\ env'.namespaces = env.namespaces
      /\ files' \in FilesType
      /\ files'.promMerged = files.promMerged /\ files'.defaultsMerged = files.defaultsMerged
      /\ AllComplete(files'.collector) /\ AllComplete(files'.collectorDefault)
      /\ env'.useDefault =>
            /\ files'.collectorDefault.custom \in {"none", "empty"}
            /\ Loads(files'.collectorDefault) \/ ~ Loads(files.defaultsMerged)
            /\ env'.invalidCustom
      /\ ~ env'.useDefault =>
            /\ ~ env'.invalidCustom /\ files'.collector = files.promMerged
            /\ Loads(files.promMerged)
  <2>1. CASE Loads(files.promMerged)
    <3>1. /\ files' = [files EXCEPT !.collector = files.promMerged]
          /\ env' = [env EXCEPT !.setGlobal = TRUE]
      BY <2>1 DEF ValidateMerged
    <3>2. /\ files' \in FilesType
          /\ files'.promMerged = files.promMerged /\ files'.defaultsMerged = files.defaultsMerged
          /\ files'.collector = files.promMerged
          /\ files'.collectorDefault = files.collectorDefault
      BY <1>2, <3>1 DEF PipelineInv, Types, FilesType
    <3>3. /\ env' \in EnvType /\ env'.sections = env.sections /\ env'.label = env.label
          /\ env'.on = env.on /\ env'.namespaces = env.namespaces
          /\ env'.useDefault = env.useDefault /\ env'.invalidCustom = env.invalidCustom
      BY <3>1 DEF PipelineInv, Types, EnvType
    <3> QED
      BY <1>1, <1>3, <2>1, <3>2, <3>3
  <2>2. CASE ~ Loads(files.promMerged)
    <3> DEFINE output == generateOtelConfig(files.promMerged, files.collector)
               fallback == IF files.defaultsMerged = Missing THEN files.collectorDefault
                           ELSE generateOtelConfig(files.defaultsMerged, files.collectorDefault)
    <3>1. /\ files' = [files EXCEPT !.collector = output, !.collectorDefault = fallback]
          /\ env' = [env EXCEPT !.invalidCustom = TRUE, !.useDefault = TRUE]
      BY <2>2 DEF ValidateMerged
    <3>2. output \in ConfigSet /\ AllComplete(output)
      BY <1>2, <1>3 DEF generateOtelConfig
    <3>3. fallback = IF files.defaultsMerged = Missing THEN NoJob ELSE files.defaultsMerged
      BY <1>1, <1>4 DEF generateOtelConfig
    <3> HIDE DEF output, fallback
    <3>4. fallback \in ConfigSet /\ AllComplete(fallback) /\ fallback.custom \in {"none", "empty"}
      BY <1>1, <1>2, <1>3, <1>4, <1>6, <3>3
    <3>5. Loads(fallback) \/ ~ Loads(files.defaultsMerged)
      BY <1>6, <3>3
    <3>6. /\ files' \in FilesType
          /\ files'.promMerged = files.promMerged /\ files'.defaultsMerged = files.defaultsMerged
          /\ files'.collector = output /\ files'.collectorDefault = fallback
      BY <1>2, <3>1, <3>2, <3>4 DEF PipelineInv, Types, FilesType
    <3>7. /\ env' \in EnvType /\ env'.sections = env.sections /\ env'.label = env.label
          /\ env'.on = env.on /\ env'.namespaces = env.namespaces
          /\ env'.useDefault /\ env'.invalidCustom
      BY <3>1 DEF PipelineInv, Types, EnvType
    <3> QED
      BY <3>2, <3>4, <3>5, <3>6, <3>7
  <2> QED
    BY <2>1, <2>2
<1>8. Types'
  BY <1>5, <1>7 DEF PipelineInv, Types, ValidateMerged
<1>9. Parsed'
  BY <1>5, <1>7, SettingsKept DEF PipelineInv, ValidateMerged
<1>10. /\ AllComplete(files.promMerged)' /\ AllComplete(files.defaultsMerged)'
       /\ AllComplete(files.collector)' /\ AllComplete(files.collectorDefault)'
  BY <1>3, <1>5, <1>7 DEF AllComplete, Complete, loadRegexHash
<1>11. Merged'
  BY <1>5, <1>7, <1>10 DEF PipelineInv, Merged, ValidateMerged
<1>12. /\ Loads(files.collectorDefault)' <=> Loads(files'.collectorDefault)
       /\ Loads(files.defaultsMerged)' <=> Loads(files.defaultsMerged)
       /\ Loads(files.promMerged)' <=> Loads(files.promMerged)
  BY <1>7 DEF Loads
<1>13. Judged'
  BY <1>1, <1>5, <1>7, <1>12 DEF Judged
<1> QED
  BY <1>5, <1>8, <1>9, <1>11, <1>13 DEF PipelineInv, Chosen

\* The validator's verdict on the default targets alone.
LEMMA ValidateDefaultsStep ==
    ASSUME PipelineInv, ValidateDefaults
    PROVE  PipelineInv'
<1> USE DEF ParsedStages, FilteredStages, TimedStages, MergedStages, JudgedStages
<1> DEFINE output == IF Loads(files.defaultsMerged) THEN files.defaultsMerged
                     ELSE files.collectorDefault
<1>1. custom = "none"
  <2> SUFFICES ASSUME custom # "none" PROVE FALSE
    OBVIOUS
  <2>1. files.promMerged.custom = IF custom = "malformed" THEN "none" ELSE custom
    BY DEF PipelineInv, Merged, ValidateDefaults
  <2>2. files.promMerged.custom = "absent"
    BY DEF ValidateDefaults, Missing
  <2> QED
    BY <2>1, <2>2 DEF PipelineInv, Types, CustomKind
<1>2. /\ files.defaultsMerged \in ConfigSet /\ files.collectorDefault \in ConfigSet
      /\ files.collectorDefault = NoJob
      /\ AllComplete(files.promMerged) /\ AllComplete(files.defaultsMerged)
      /\ AllComplete(files.collector) /\ AllComplete(files.collectorDefault)
  BY DEF PipelineInv, Types, FilesType, Merged, Judged, ValidateDefaults
<1>3. NoJob.custom = "empty" /\ Loads(NoJob) /\ ~ Loads(Missing)
  BY DEF NoJob, Config, Loads, Missing
<1>4. files.defaultsMerged = Missing \/ files.defaultsMerged.custom = "none"
  BY DEF PipelineInv, Merged, ValidateDefaults
<1>5. output \in ConfigSet /\ AllComplete(output) /\ output.custom \in {"none", "empty"} /\ Loads(output)
  BY <1>2, <1>3, <1>4
<1>6. /\ files' = [files EXCEPT !.collectorDefault = output]
      /\ env' = [env EXCEPT !.useDefault = TRUE]
  BY DEF ValidateDefaults
<1> HIDE DEF output
<1>7. /\ files' \in FilesType /\ files'.collectorDefault = output
      /\ files'.promMerged = files.promMerged /\ files'.defaultsMerged = files.defaultsMerged
      /\ files'.collector = files.collector
  BY <1>5, <1>6 DEF PipelineInv, Types, FilesType
<1>8. /\ env' \in EnvType /\ env'.sections = env.sections /\ env'.label = env.label
      /\ env'.on = env.on /\ env'.namespaces = env.namespaces /\ env'.useDefault
  BY <1>6 DEF PipelineInv, Types, EnvType
<1>9. /\ custom' = custom /\ cm' = cm /\ keepHash' = keepHash /\ intervalHash' = intervalHash
      /\ pc' = "choose" /\ chosen' = chosen /\ pod' = pod /\ cluster' = cluster
      /\ setLabelLimitsPerScrape' = setLabelLimitsPerScrape
  BY DEF ValidateDefaults, inputs, setLabelLimitsPerScrape
<1>10. Types'
  BY <1>7, <1>8, <1>9 DEF PipelineInv, Types, ValidateDefaults
<1>11. Parsed'
  BY <1>8, <1>9, SettingsKept DEF PipelineInv, ValidateDefaults
<1>12. /\ AllComplete(files.promMerged)' /\ AllComplete(files.defaultsMerged)'
       /\ AllComplete(files.collector)' /\ AllComplete(files.collectorDefault)'
  BY <1>2, <1>5, <1>7, <1>9 DEF AllComplete, Complete, loadRegexHash
<1>13. Merged'
  BY <1>7, <1>9, <1>12 DEF PipelineInv, Merged, ValidateDefaults
<1>14. Loads(files.collectorDefault)' <=> Loads(output)
  BY <1>7 DEF Loads
<1>15. Judged'
  BY <1>1, <1>5, <1>7, <1>8, <1>9, <1>14 DEF Judged
<1> QED
  BY <1>9, <1>10, <1>11, <1>13, <1>15 DEF PipelineInv, Chosen

\* The choice of the configuration.
LEMMA ChooseStep ==
    ASSUME PipelineInv, ChooseConfig
    PROVE  PipelineInv'
<1> USE DEF ParsedStages, FilteredStages, TimedStages, MergedStages, JudgedStages
<1>1. /\ custom' = custom /\ cm' = cm /\ keepHash' = keepHash /\ intervalHash' = intervalHash
      /\ pc' = "done" /\ pod' = pod /\ cluster' = cluster /\ env' = env /\ files' = files
  BY DEF ChooseConfig, inputs
<1>2. FromAllocator \in ConfigSet
  BY DEF FromAllocator, Config, ConfigSet, CustomKind
<1>3. /\ chosen'.path \in {"", "replicaset", "default", "custom"}
      /\ IF operatorEnabled THEN chosen'.config = FromAllocator
         ELSE IF env.useDefault
              THEN chosen'.path = "default" /\ chosen'.config = files.collectorDefault
              ELSE chosen'.config = files.collector
  BY DEF ChooseConfig, FromAllocator
<1>4. chosen'.config \in ConfigSet
  BY <1>2, <1>3 DEF PipelineInv, Types, FilesType
<1>5. Types'
  BY <1>1, <1>3, <1>4 DEF PipelineInv, Types, ChooseConfig
<1>6. Parsed'
  BY <1>1, SettingsKept DEF PipelineInv, ChooseConfig
<1>7. Merged'
  BY <1>1 DEF PipelineInv, Merged, ChooseConfig, AllComplete, Complete, loadRegexHash,
              setLabelLimitsPerScrape
<1>8. Judged'
  BY <1>1 DEF PipelineInv, Judged, ChooseConfig, Loads
<1>9. Chosen'
  BY <1>1, <1>3 DEF Chosen, operatorEnabled
<1> QED
  BY <1>5, <1>6, <1>7, <1>8, <1>9 DEF PipelineInv

\* Nothing of the cluster's pipeline changes.
LEMMA PipelineStutters ==
    ASSUME PipelineInv, UNCHANGED vars
    PROVE  PipelineInv'
<1>1. Types'
  BY DEF PipelineInv, Types, vars
<1>2. Parsed'
  BY DEF PipelineInv, Parsed, vars, validateRegexValues, populateKeepList,
         populateRegexValuesWithMinimalIngestionProfile
<1>3. Merged'
  BY DEF PipelineInv, Merged, vars, AllComplete, Complete, loadRegexHash, setLabelLimitsPerScrape
<1>4. Judged'
  BY DEF PipelineInv, Judged, vars, Loads
<1>5. Chosen'
  BY DEF PipelineInv, Chosen, vars, operatorEnabled
<1> QED
  BY <1>1, <1>2, <1>3, <1>4, <1>5 DEF PipelineInv

\* What a container starts with.
LEMMA PipelineStart ==
    ASSUME StartInit
    PROVE  PipelineInv
<1>1. /\ pod \in Pod /\ custom \in CustomKind /\ pc \in {"idle", "versions"}
      /\ cm \in Settings /\ cluster \in Clusters
  <2>1. CASE Init
    BY <2>1, PipelineAssumption DEF Init
  <2>2. CASE PipelineIdle
    <3>1. cluster \in Clusters /\ cm \in Settings
      BY <2>2, PipelineAssumption DEF PipelineIdle
    <3>2. cluster.pods # {} /\ cluster.pods \subseteq Pod
      BY <3>1, PipelineAssumption
    <3>3. pod \in Pod
      BY <2>2, <3>2 DEF PipelineIdle
    <3> QED
      BY <2>2, <3>1, <3>3 DEF PipelineIdle, CustomKind
  <2> QED
    BY <2>1, <2>2 DEF StartInit
<1>2. /\ env = NoEnv /\ keepHash = NoHash /\ intervalHash = NoHash
      /\ files = [promMerged |-> Missing, defaultsMerged |-> Missing, collector |-> Missing,
                  collectorDefault |-> NoJob]
      /\ chosen = [path |-> "", config |-> Missing, global |-> FALSE]
  BY DEF StartInit, Init, PipelineIdle, NoJob
<1>3. Missing \in ConfigSet /\ NoJob \in ConfigSet
  BY DEF Missing, NoJob, Config, ConfigSet, CustomKind
<1>4. env \in EnvType /\ env.on = {} /\ env.invalidCustom = FALSE /\ env.useDefault = FALSE
  BY <1>2 DEF NoEnv, EnvType
<1>5. /\ files \in FilesType
      /\ files.promMerged = Missing /\ files.defaultsMerged = Missing
      /\ files.collector = Missing /\ files.collectorDefault = NoJob
  BY <1>2, <1>3 DEF FilesType
<1>6. Types
  BY <1>1, <1>2, <1>3, <1>4, <1>5 DEF Types, NoHash
<1>7. Parsed
  BY <1>1, <1>2, <1>4 DEF Parsed, ParsedStages, FilteredStages, TimedStages
<1>8. Merged
  <2>1. AllComplete(Missing) /\ AllComplete(NoJob)
    BY DEF AllComplete, Missing, NoJob, Config
  <2> QED
    BY <1>1, <1>5, <2>1 DEF Merged, ParsedStages, FilteredStages, TimedStages, MergedStages
<1>9. Judged
  BY <1>1, <1>4, <1>5 DEF Judged, ParsedStages, FilteredStages, TimedStages, MergedStages,
                          JudgedStages
<1> QED
  BY <1>1, <1>6, <1>7, <1>8, <1>9 DEF PipelineInv, Chosen

\* The invariant of the cluster's pipeline.
LEMMA PipelineInductive == StartSpec => []PipelineInv
<1>1. StartInit => PipelineInv
  BY PipelineStart
<1>2. PipelineInv /\ [StartNext]_allVars => PipelineInv'
  <2> SUFFICES ASSUME PipelineInv, [StartNext]_allVars PROVE PipelineInv'
    OBVIOUS
  <2>1. CASE UNCHANGED vars
    BY <2>1, PipelineStutters
  <2>2. CASE Next
    BY <2>2, VersionsStep, ParseSettingsStep, KeepListStep, IntervalStep, MergeStep,
       ValidateMergedStep, ValidateDefaultsStep, ChooseStep DEF Next
  <2> QED
    BY <2>1, <2>2 DEF StartNext, Ready, allVars
<1> QED
  BY <1>1, <1>2, PTL DEF StartSpec

\* The stages' files and variables keep their types, and a container that is done
\* has a label for its cluster, however little an alias leaves of itself.
THEOREM TypeCorrect == StartSpec => []TypeOK
<1>1. PipelineInv => TypeOK
  <2> SUFFICES ASSUME PipelineInv PROVE TypeOK
    OBVIOUS
  <2>1. \A c \in ConfigSet : ConfigType(c)
    BY DEF ConfigSet, ConfigType
  <2>2. /\ DOMAIN files = {"promMerged", "defaultsMerged", "collector", "collectorDefault"}
        /\ \A f \in DOMAIN files : files[f] \in ConfigSet
    BY DEF PipelineInv, Types, FilesType
  <2>3. env.label \in {"", "cluster", "alias"} /\ (pc = "done" => env.label # "")
    BY DEF PipelineInv, Types, EnvType, Parsed, ParsedStages
  <2>4. env.on \subseteq Target /\ env.minimal \in {"unset", "true", "false"}
    BY DEF PipelineInv, Types, EnvType
  <2> QED
    BY <2>1, <2>2, <2>3, <2>4 DEF PipelineInv, Types, TypeOK
<1> QED
  BY <1>1, PipelineInductive, PTL

\* A configuration the collector refuses reaches it in one case only: the custom one
\* was refused, and the default targets copied in its place do not load either.
THEOREM LoadsOrReported == StartSpec => []ConfigLoads
<1>1. PipelineInv => ConfigLoads
  <2> SUFFICES ASSUME PipelineInv, pc = "done"
               PROVE  Loads(chosen.config) \/ (env.invalidCustom /\ ~ Loads(files.defaultsMerged))
    BY DEF ConfigLoads
  <2>1. Loads(FromAllocator)
    BY DEF FromAllocator, Config, Loads
  <2> QED
    BY <2>1 DEF PipelineInv, Judged, Chosen, ParsedStages, FilteredStages, TimedStages,
                MergedStages, JudgedStages
<1> QED
  BY <1>1, PipelineInductive, PTL

\* The customer's jobs are scraped as a whole, with their limits, or dropped as a
\* whole, and then the environment says so and the default configuration is used.
THEOREM CustomTakenWhole == StartSpec => []CustomAllOrNothing
<1>1. PipelineInv => CustomAllOrNothing
  <2> SUFFICES ASSUME PipelineInv, pc = "done", ~ operatorEnabled,
                      custom \notin {"none", "malformed"}
               PROVE  \/ /\ chosen.config.custom = custom /\ ~ env.invalidCustom
                         /\ Loads(chosen.config)
                         /\ custom # "noJobs" => chosen.config.limits
                      \/ /\ chosen.config.custom \in {"none", "empty"} /\ env.invalidCustom
                         /\ chosen.path = "default"
    BY DEF CustomAllOrNothing
  <2> USE DEF ParsedStages, FilteredStages, TimedStages, MergedStages, JudgedStages
  <2>1. pc = "done" /\ ~ operatorEnabled
    OBVIOUS
  <2>2. /\ files.promMerged.custom = custom
        /\ custom # "noJobs" => files.promMerged.limits
    BY <2>1 DEF PipelineInv, Merged, setLabelLimitsPerScrape
  <2>3. CASE env.useDefault
    BY <2>1, <2>3 DEF PipelineInv, Judged, Chosen
  <2>4. CASE ~ env.useDefault
    BY <2>1, <2>2, <2>4 DEF PipelineInv, Judged, Chosen
  <2> QED
    BY <2>3, <2>4
<1> QED
  BY <1>1, PipelineInductive, PTL

\* The filters of the default jobs are all there, or one regular expression did not
\* compile and no job has any; the namespaces of the pod annotations always are.
LEMMA ClusterFiltersTogether == StartSpec => []FilteredAllOrNothing
<1>1. PipelineInv => FilteredAllOrNothing
  <2> SUFFICES ASSUME PipelineInv, pc = "done" PROVE FilteredAllOrNothing
    BY DEF FilteredAllOrNothing
  <2> USE DEF ParsedStages, FilteredStages, TimedStages, MergedStages, JudgedStages
  <2>1. \A j \in chosen.config.jobs : j.target \in Target /\ Complete(j)
    <3>1. AllComplete(FromAllocator)
      BY DEF FromAllocator, Config, AllComplete
    <3>2. AllComplete(chosen.config) /\ chosen.config \in ConfigSet
      BY <3>1 DEF PipelineInv, Types, Merged, Chosen
    <3> QED
      BY <3>2 DEF AllComplete, ConfigSet, Job
  <2>2. CASE validateRegexValues(env)
    <3>0. "prometheuscollectorhealth" \notin DOMAIN cm.keep
      BY PipelineAssumption DEF PipelineInv, Types
    <3>1. keepHash = populateRegexValuesWithMinimalIngestionProfile(env, populateKeepList(env))
      BY <2>2 DEF PipelineInv, Parsed
    <3>2. \A t \in Target :
             /\ "minimal" \in loadRegexHash(t) <=>
                   /\ ~ (env.sections /\ cm.minimal = "false")
                   /\ t \notin {"podannotations", "prometheuscollectorhealth"}
             /\ "custom" \in loadRegexHash(t) <=> env.sections /\ t \in DOMAIN cm.keep
      BY <3>1, <3>0 DEF loadRegexHash, populateRegexValuesWithMinimalIngestionProfile, populateKeepList
    <3> QED
      BY <2>1, <3>2 DEF FilteredAllOrNothing, Complete
  <2>3. CASE ~ validateRegexValues(env)
    <3>1. \A t \in Target : loadRegexHash(t) = {}
      BY <2>3 DEF PipelineInv, Parsed, loadRegexHash, NoHash
    <3>2. \E t \in DOMAIN cm.keep : cm.keep[t] = "bad"
      BY <2>3 DEF validateRegexValues
    <3> QED
      BY <2>1, <3>1, <3>2 DEF FilteredAllOrNothing, Complete
  <2> QED
    BY <2>2, <2>3
<1> QED
  BY <1>1, PipelineInductive, PTL

\* Neither pipeline ever loses the keep list of one target alone.
THEOREM FiltersTogether == StartSpec => []FiltersWhole
<1>1. FilteredAllOrNothing /\ CcpFiltered => FiltersWhole
  BY DEF FiltersWhole
<1> QED
  BY <1>1, ClusterFiltersTogether, CcpFiltersTogether, PTL
-----------------------------------------------------------------------------
(* Who scrapes what: the containers' own decisions, put together. *)

\* What the charts say of one container.
Shaped(p) == /\ {p.advanced, p.winDaemonset, p.mac, p.fqdn, p.sidecar} \subseteq BOOLEAN
             /\ isConfigReaderSidecar(p) => ~ RS(p) /\ ~ DS(p) /\ p.advanced
             /\ ~ isConfigReaderSidecar(p) => RS(p) \/ DS(p)
             /\ ~ Linux(p) => DS(p) /\ p.winDaemonset

\* Block by block, a container without the operator takes on the targets that belong
\* to it, if their files are there.
LEMMA TakesOwn ==
    ASSUME NEW p, Shaped(p), ~ isConfigReaderSidecar(p), NEW t \in Target
    PROVE  t \in KubeletBlocks(p, Target) \cup ClusterBlocks(p, Target) \cup NetworkBlocks(p, Target)
                 \cup MeshBlocks(p, Target) \cup WindowsBlocks(p, Target) \cup StorageBlocks(p)
           <=> Belongs(t, p)
<1> USE DEF Shaped, isConfigReaderSidecar, RS, DS, Linux, Central, Belongs, EveryNode, LinuxNode,
            WindowsNode, MacOnly
<1>1. CASE t \in {"kubelet", "coredns", "cadvisor"}
  BY <1>1 DEF KubeletBlocks, ClusterBlocks, NetworkBlocks, MeshBlocks, WindowsBlocks, StorageBlocks
<1>2. CASE t \in {"kubeproxy", "apiserver", "kubestate", "nodeexporter"}
  BY <1>2 DEF KubeletBlocks, ClusterBlocks, NetworkBlocks, MeshBlocks, WindowsBlocks, StorageBlocks
<1>3. CASE t \in MacOnly
  BY <1>3 DEF KubeletBlocks, ClusterBlocks, NetworkBlocks, MeshBlocks, WindowsBlocks, StorageBlocks
<1>4. CASE t \in {"ztunnel", "istio-cni", "controlplane-istio", "prometheuscollectorhealth"}
  BY <1>4 DEF KubeletBlocks, ClusterBlocks, NetworkBlocks, MeshBlocks, WindowsBlocks, StorageBlocks
<1>5. CASE t \in WindowsNode
  BY <1>5 DEF KubeletBlocks, ClusterBlocks, NetworkBlocks, MeshBlocks, WindowsBlocks, StorageBlocks
<1>6. CASE t \in {"podannotations", "acstor-capacity-provisioner", "acstor-metrics-exporter",
                  "local-csi-driver", "dcgmexporter"}
  BY <1>6 DEF KubeletBlocks, ClusterBlocks, NetworkBlocks, MeshBlocks, WindowsBlocks, StorageBlocks
<1> QED
  BY <1>1, <1>2, <1>3, <1>4, <1>5, <1>6 DEF Target

\* The same for the configuration reader, on the operator's path.
LEMMA SidecarTakesOwn ==
    ASSUME NEW p, Shaped(p), isConfigReaderSidecar(p), NEW t \in Target
    PROVE  t \in KubeletBlocksOp(p, Target) \cup ClusterBlocksOp(p, Target)
                 \cup NetworkBlocksOp(p, Target) \cup MeshBlocksOp(p, Target)
                 \cup WindowsBlocksOp(p, Target) \cup StorageBlocksOp(p)
           <=> Belongs(t, p)
<1> USE DEF Shaped, isConfigReaderSidecar, RS, DS, Linux, Central, Belongs, EveryNode, LinuxNode,
            WindowsNode, MacOnly
<1>1. CASE t \in {"kubelet", "coredns", "cadvisor"}
  BY <1>1 DEF KubeletBlocksOp, ClusterBlocksOp, NetworkBlocksOp, MeshBlocksOp, WindowsBlocksOp, StorageBlocksOp
<1>2. CASE t \in {"kubeproxy", "apiserver", "kubestate", "nodeexporter"}
  BY <1>2 DEF KubeletBlocksOp, ClusterBlocksOp, NetworkBlocksOp, MeshBlocksOp, WindowsBlocksOp, StorageBlocksOp
<1>3. CASE t \in MacOnly
  BY <1>3 DEF KubeletBlocksOp, ClusterBlocksOp, NetworkBlocksOp, MeshBlocksOp, WindowsBlocksOp, StorageBlocksOp
<1>4. CASE t \in {"ztunnel", "istio-cni", "controlplane-istio", "prometheuscollectorhealth"}
  BY <1>4 DEF KubeletBlocksOp, ClusterBlocksOp, NetworkBlocksOp, MeshBlocksOp, WindowsBlocksOp, StorageBlocksOp
<1>5. CASE t \in WindowsNode
  BY <1>5 DEF KubeletBlocksOp, ClusterBlocksOp, NetworkBlocksOp, MeshBlocksOp, WindowsBlocksOp, StorageBlocksOp
<1>6. CASE t \in {"podannotations", "acstor-capacity-provisioner", "acstor-metrics-exporter",
                  "local-csi-driver", "dcgmexporter"}
  BY <1>6 DEF KubeletBlocksOp, ClusterBlocksOp, NetworkBlocksOp, MeshBlocksOp, WindowsBlocksOp, StorageBlocksOp
<1> QED
  BY <1>1, <1>2, <1>3, <1>4, <1>5, <1>6 DEF Target

\* A container that is no replicaset of the operator's takes on exactly what is its own.
LEMMA TakenIsOwn ==
    ASSUME NEW p, Shaped(p), NEW on \in SUBSET Target
    PROVE  TakenBy(p, FALSE, on, Target) = {t \in on : Belongs(t, p)}
<1>1. CASE isConfigReaderSidecar(p)
  BY <1>1, SidecarTakesOwn DEF TakenBy, populateDefaultPrometheusConfigWithOperator
<1>2. CASE ~ isConfigReaderSidecar(p)
  BY <1>2, TakesOwn DEF TakenBy, populateDefaultPrometheusConfig
<1> QED
  BY <1>1, <1>2

\* The charts' containers have that shape.
LEMMA PodsShaped ==
    ASSUME NEW c \in Clusters, NEW p \in c.pods
    PROVE  Shaped(p)
<1>1. p \in Pod
  BY PipelineAssumption
<1>2. {p.advanced, p.winDaemonset, p.mac, p.fqdn, p.sidecar} \subseteq BOOLEAN
  <2>1. /\ p.advanced \in BOOLEAN /\ p.winDaemonset \in BOOLEAN /\ p.mac \in BOOLEAN
        /\ p.fqdn \in BOOLEAN /\ p.sidecar \in BOOLEAN
    BY <1>1, Zenon DEF Pod
  <2> QED
    BY <2>1
<1>3. isConfigReaderSidecar(p) => ~ RS(p) /\ ~ DS(p)
  BY ChartAssumption, Zenon DEF RS, DS
<1> QED
  BY <1>2, <1>3, ChartAssumption, Zenon DEF Shaped

\* The default targets keep their way through the files: what the merger wrote is what
\* the validator left in the file that will be chosen, unless it cannot be loaded.
Kept ==
    /\ pc # "idle" => pod \in cluster.pods
    /\ pc \in MergedStages =>
          /\ files.defaultsMerged = writeDefaultScrapeTargetsFile
          /\ custom # "none" => files.promMerged.jobs = files.defaultsMerged.jobs
    /\ pc \in JudgedStages /\ env.useDefault =>
          \/ files.collectorDefault.jobs = files.defaultsMerged.jobs
          \/ files.defaultsMerged # Missing /\ ~ Loads(files.defaultsMerged)

\* What is written for the default targets depends on the settings alone.
LEMMA DefaultsStable ==
    ASSUME UNCHANGED <<inputs, keepHash, intervalHash>>, env'.noDefaults = env.noDefaults,
           env'.on = env.on, env'.namespaces = env.namespaces
    PROVE  writeDefaultScrapeTargetsFile' = writeDefaultScrapeTargetsFile
<1>1. /\ operatorEnabled' = operatorEnabled /\ DefaultFiles' = DefaultFiles
      /\ setGlobalScrapeConfigInDefaultFilesIfExists' = setGlobalScrapeConfigInDefaultFilesIfExists
  BY DEF inputs, operatorEnabled, DefaultFiles, setGlobalScrapeConfigInDefaultFilesIfExists
<1>2. \A t : Edited(t)' = Edited(t)
  BY <1>1 DEF inputs, Edited, loadIntervalHash, loadRegexHash
<1>3. \A S : mergeDefaultScrapeConfigs(S)' = mergeDefaultScrapeConfigs(S)
  BY <1>1, <1>2 DEF mergeDefaultScrapeConfigs
<1> QED
  BY <1>1, <1>3 DEF writeDefaultScrapeTargetsFile, inputs

\* The invariant of the default targets' way.
LEMMA KeptInductive == StartSpec => []Kept
<1> USE DEF ParsedStages, FilteredStages, TimedStages, MergedStages, JudgedStages
<1>1. StartInit => Kept
  BY DEF StartInit, Init, PipelineIdle, Kept
<1>2. PipelineInv /\ Kept /\ [StartNext]_allVars => Kept'
  <2> SUFFICES ASSUME PipelineInv, Kept, [StartNext]_allVars PROVE Kept'
    OBVIOUS
  <2>1. CASE UNCHANGED vars
    <3>1. writeDefaultScrapeTargetsFile' = writeDefaultScrapeTargetsFile
      BY <2>1, DefaultsStable DEF vars, inputs
    <3> QED
      BY <2>1, <3>1 DEF vars, Kept, Loads
  <2>2. CASE Versions \/ ParseSettings \/ tomlparserTargetsMetricsKeepList \/ tomlparserScrapeInterval
    BY <2>2 DEF Kept, Versions, ParseSettings, tomlparserTargetsMetricsKeepList,
                tomlparserScrapeInterval, inputs
  <2>3. CASE prometheusConfigMerger
    <3> DEFINE defaults == writeDefaultScrapeTargetsFile
               both == mergeDefaultAndCustomScrapeConfigs(defaults)
    <3>1. defaults' = defaults
      BY <2>3, DefaultsStable DEF prometheusConfigMerger
    <3>2. both.jobs = defaults.jobs
      BY DEF mergeDefaultAndCustomScrapeConfigs, Config
    <3>3. files' = [files EXCEPT !.defaultsMerged = defaults,
                                 !.promMerged = IF custom \notin {"none", "notMapping"} THEN both
                                                ELSE files.promMerged]
      BY <2>3 DEF prometheusConfigMerger, parseConfigMap, SetLabelLimitsPanics
    <3> HIDE DEF defaults, both
    <3>4. /\ files'.defaultsMerged = defaults
          /\ custom \notin {"none", "notMapping"} => files'.promMerged = both
      BY <3>3 DEF PipelineInv, Types, FilesType
    <3> QED
      BY <2>3, <3>1, <3>2, <3>4 DEF Kept, prometheusConfigMerger, inputs, defaults,
                                    SetLabelLimitsPanics
  <2>4. CASE ValidateMerged
    <3>1. /\ env'.noDefaults = env.noDefaults /\ env'.on = env.on /\ env'.namespaces = env.namespaces
          /\ env'.useDefault => ~ Loads(files.promMerged)
      BY <2>4 DEF ValidateMerged, PipelineInv, Types, EnvType, Judged
    <3>2. writeDefaultScrapeTargetsFile' = writeDefaultScrapeTargetsFile
      BY <2>4, <3>1, DefaultsStable DEF ValidateMerged
    <3>3. files.collectorDefault = NoJob /\ (files.defaultsMerged = Missing \/ files.defaultsMerged.custom = "none")
      BY <2>4 DEF ValidateMerged, PipelineInv, Judged, Merged
    <3>4. /\ files'.promMerged = files.promMerged /\ files'.defaultsMerged = files.defaultsMerged
          /\ ~ Loads(files.promMerged) =>
                files'.collectorDefault = IF files.defaultsMerged = Missing THEN NoJob
                                          ELSE files.defaultsMerged
      BY <2>4, <3>3 DEF ValidateMerged, PipelineInv, Types, FilesType, generateOtelConfig
    <3>5. NoJob.jobs = {} /\ Missing.jobs = {}
      BY DEF NoJob, Config, Missing
    <3> QED
      BY <2>4, <3>1, <3>2, <3>4, <3>5 DEF Kept, ValidateMerged, inputs
  <2>5. CASE ValidateDefaults
    <3>1. env'.noDefaults = env.noDefaults /\ env'.on = env.on /\ env'.namespaces = env.namespaces
      BY <2>5 DEF ValidateDefaults, PipelineInv, Types, EnvType
    <3>2. writeDefaultScrapeTargetsFile' = writeDefaultScrapeTargetsFile
      BY <2>5, <3>1, DefaultsStable DEF ValidateDefaults
    <3>3. files.collectorDefault = NoJob
      BY <2>5 DEF ValidateDefaults, PipelineInv, Judged
    <3>4. /\ files'.promMerged = files.promMerged /\ files'.defaultsMerged = files.defaultsMerged
          /\ files'.collectorDefault = IF Loads(files.defaultsMerged) THEN files.defaultsMerged
                                       ELSE NoJob
      BY <2>5, <3>3 DEF ValidateDefaults, PipelineInv, Types, FilesType
    <3>5. NoJob.jobs = {} /\ Missing.jobs = {}
      BY DEF NoJob, Config, Missing
    <3>6. Loads(files.defaultsMerged)' <=> Loads(files.defaultsMerged)
      BY <3>4 DEF Loads
    <3> QED
      BY <2>5, <3>2, <3>4, <3>5, <3>6 DEF Kept, ValidateDefaults, inputs
  <2>6. CASE ChooseConfig
    <3>1. writeDefaultScrapeTargetsFile' = writeDefaultScrapeTargetsFile
      BY <2>6, DefaultsStable DEF ChooseConfig
    <3> QED
      BY <2>6, <3>1 DEF Kept, ChooseConfig, inputs, Loads
  <2> QED
    BY <2>1, <2>2, <2>3, <2>4, <2>5, <2>6 DEF StartNext, Ready, allVars, Next
<1> QED
  BY <1>1, <1>2, PipelineInductive, PTL DEF StartSpec

\* The default jobs a container writes are those of its own targets, at their intervals.
LEMMA DefaultsAreOwn ==
    ASSUME PipelineInv, Kept, pc = "done", ~ operatorEnabled, custom # "malformed", ~ env.noDefaults
    PROVE  /\ \A t \in Own : \E j \in writeDefaultScrapeTargetsFile.jobs : j.target = t
           /\ \A j \in writeDefaultScrapeTargetsFile.jobs :
                 j.target \in Own /\ j.interval = intervalHash[j.target]
           /\ \/ writeDefaultScrapeTargetsFile = Missing
              \/ Own # {} /\ writeDefaultScrapeTargetsFile.custom = "none"
<1> DEFINE taken == TakenBy(pod, operatorEnabled, env.on, DefaultFiles)
           jobs == mergeDefaultScrapeConfigs(taken)
<1>1. DefaultFiles = Target
  BY DEF DefaultFiles, setGlobalScrapeConfigInDefaultFilesIfExists, setDefaultFileScrapeInterval
<1>2. Shaped(pod) /\ env.on \in SUBSET Target
  BY PodsShaped DEF Kept, PipelineInv, Types, EnvType
<1>3. taken = TakenBy(pod, FALSE, env.on, Target)
  BY <1>1 DEF TakenBy
<1>4. taken = Own
  BY <1>2, <1>3, TakenIsOwn DEF Own
<1> HIDE DEF taken
<1>5. ASSUME NEW t \in Own
      PROVE  t \in DefaultFiles /\ Edited(t).target = t /\ Edited(t).interval = intervalHash[t]
  <2>1. t \in Target
    BY <1>2 DEF Own
  <2>2. intervalHash[t] \in Interval
    BY <2>1 DEF PipelineInv, Types, Parsed, TimedStages, FilteredStages, ParsedStages
  <2>3. loadRegexHash(t) \in SUBSET {"custom", "minimal"}
    BY DEF loadRegexHash, PipelineInv, Types
  <2> QED
    BY <1>1, <2>1, <2>2, <2>3, EditedJob
<1>6. jobs = {Edited(t) : t \in Own}
  BY <1>4, <1>5 DEF mergeDefaultScrapeConfigs
<1>7. /\ \A t \in Own : \E j \in jobs : j.target = t
      /\ \A j \in jobs : j.target \in Own /\ j.interval = intervalHash[j.target]
  BY <1>5, <1>6
<1> HIDE DEF jobs
<1>8. writeDefaultScrapeTargetsFile = IF Own = {} THEN Missing ELSE [jobs |-> jobs, custom |-> "none", limits |-> FALSE]
  BY <1>4 DEF writeDefaultScrapeTargetsFile, Config, taken, jobs
<1>9. CASE Own = {}
  BY <1>8, <1>9 DEF Missing
<1>10. CASE Own # {}
  <2>1. /\ writeDefaultScrapeTargetsFile.jobs = jobs
        /\ writeDefaultScrapeTargetsFile.custom = "none"
    BY <1>8, <1>10
  <2> QED
    BY <1>7, <1>10, <2>1
<1> QED
  BY <1>9, <1>10

\* Whichever stage gave up on the way, a container of any cluster the charts deploy ends
\* up scraping exactly the default targets that are its own, if the collector can load
\* those at all, for every custom configuration but text that is no YAML and a list of
\* jobs with an item that is no mapping.
THEOREM DefaultsAlwaysScraped == StartSpec => []DefaultsSurvive
<1>1. PipelineInv /\ Kept => DefaultsSurvive
  <2> SUFFICES ASSUME PipelineInv, Kept, Finished, custom \notin {"malformed", "notMapping"},
                      ~ env.noDefaults, OwnLoad
               PROVE  Scraped = Own
    BY DEF DefaultsSurvive
  <2> USE DEF ParsedStages, FilteredStages, TimedStages, MergedStages, JudgedStages
  <2> DEFINE defaults == writeDefaultScrapeTargetsFile
  <2>1. pc = "done" /\ ~ operatorEnabled
    BY DEF Finished, PipelineInv, Merged
  <2>2. /\ \A t \in Own : \E j \in defaults.jobs : j.target = t
        /\ \A j \in defaults.jobs : j.target \in Own /\ j.interval = intervalHash[j.target]
        /\ defaults = Missing \/ (Own # {} /\ defaults.custom = "none")
    BY <2>1, DefaultsAreOwn
  <2>3. files.defaultsMerged = defaults
    BY <2>1 DEF Kept
  <2> HIDE DEF defaults
  <2>4. defaults # Missing => Loads(defaults)
    <3> SUFFICES ASSUME defaults # Missing PROVE Loads(defaults)
      OBVIOUS
    <3>0. Loads(Config(OwnJobs, "none", FALSE)) /\ defaults.jobs # {} /\ defaults.custom = "none"
      BY <2>2 DEF OwnLoad
    <3>1. ~ \E t \in Own : t = "controlplane-istio" /\ intervalHash[t] = "5s"
      <4> SUFFICES ASSUME NEW t \in Own, t = "controlplane-istio", intervalHash[t] = "5s" PROVE FALSE
        OBVIOUS
      <4> DEFINE j == [target |-> t, interval |-> intervalHash[t]]
      <4>1. j \in OwnJobs
        BY DEF OwnJobs
      <4>2. j.target = "controlplane-istio" /\ j.interval = "5s"
        OBVIOUS
      <4>3. Config(OwnJobs, "none", FALSE).jobs = OwnJobs
        BY DEF Config
      <4> QED
        BY <3>0, <4>1, <4>2, <4>3 DEF Loads
    <3> QED
      BY <2>2, <3>0, <3>1 DEF Loads
  <2>5. chosen.config.jobs = defaults.jobs
    <3>1. CASE env.useDefault
      BY <2>1, <2>3, <2>4, <3>1 DEF Kept, PipelineInv, Chosen
    <3>2. CASE ~ env.useDefault
      BY <2>1, <2>3, <3>2 DEF Kept, PipelineInv, Chosen, Judged
    <3> QED
      BY <3>1, <3>2
  <2> QED
    BY <2>2, <2>5 DEF Scraped
<1> QED
  BY <1>1, PipelineInductive, KeptInductive, PTL

\* The containers of a cluster decide alone, and still no two of them scrape a target
\* twice, and no target that is on and that the cluster can have is left to nobody.
THEOREM EveryTargetOnce == StartSpec => []ScrapedOnce
<1>1. PipelineInv => ScrapedOnce
  <2> SUFFICES ASSUME PipelineInv, pc = "done" PROVE ScrapedOnce
    BY DEF ScrapedOnce
  <2>1. cluster \in Clusters /\ env.on \in SUBSET Target
    BY DEF PipelineInv, Types, EnvType
  <2>2. ASSUME NEW p \in cluster.pods PROVE Shaped(p) /\ Takes(p) = {t \in env.on : Belongs(t, p)}
    BY <2>1, PodsShaped, TakenIsOwn DEF Takes
  <2>3. ASSUME NEW t \in env.on \ {"prometheuscollectorhealth"}, NEW p \in Collectors,
               NEW q \in Collectors, t \in Takes(p) \cap Takes(q), p # q
        PROVE  DS(p) /\ DS(q) /\ p.os # q.os
    <3>1. /\ p \in cluster.pods /\ q \in cluster.pods
          /\ ~ (cluster.operator /\ RS(p)) /\ ~ (cluster.operator /\ RS(q))
      BY DEF Collectors
    <3>2. Belongs(t, p) /\ Belongs(t, q) /\ Shaped(p) /\ Shaped(q)
      BY <2>2, <2>3, <3>1
    <3>3. /\ p.advanced = q.advanced
          /\ p.controller = q.controller /\ p.os = q.os => FALSE
      BY <2>1, <2>3, <3>1, ChartAssumption
    <3>4. (DS(p) /\ DS(q)) \/ (Central(p) /\ Central(q))
      BY <3>2, <3>3 DEF Belongs
    <3>5. ~ (Central(p) /\ Central(q))
      <4> SUFFICES ASSUME Central(p), Central(q) PROVE FALSE
        OBVIOUS
      <4>1. p.controller = q.controller
        <5>1. CASE isConfigReaderSidecar(p) /\ isConfigReaderSidecar(q)
          BY <2>1, <3>1, <5>1, ChartAssumption, Zenon
        <5>2. CASE RS(p) /\ RS(q)
          BY <5>2 DEF RS
        <5>3. CASE isConfigReaderSidecar(p) /\ RS(q)
          BY <2>1, <3>1, <5>3, ChartAssumption, Zenon
        <5>4. CASE RS(p) /\ isConfigReaderSidecar(q)
          BY <2>1, <3>1, <5>4, ChartAssumption, Zenon
        <5> QED
          BY <5>1, <5>2, <5>3, <5>4 DEF Central
      <4>2. Linux(p) /\ Linux(q)
        BY <3>2 DEF Shaped, Central, RS, DS
      <4> QED
        BY <3>3, <4>1, <4>2 DEF Linux
    <3> QED
      BY <3>3, <3>4, <3>5 DEF DS
  <2>4. ASSUME NEW t \in env.on, t \notin Impossible
        PROVE  \E p \in Collectors : t \in Takes(p)
    <3>1. PICK p \in cluster.pods : Belongs(t, p)
      BY <2>1, <2>4 DEF Impossible
    <3>2. CASE p \in Collectors
      BY <2>2, <3>1, <3>2
    <3>3. CASE p \notin Collectors
      <4>1. cluster.operator /\ RS(p)
        BY <3>3 DEF Collectors
      <4>2. PICK q \in cluster.pods : isConfigReaderSidecar(q)
        BY <2>1, <4>1, ChartAssumption
      <4>3. /\ q \in Collectors /\ Shaped(q) /\ p.advanced = q.advanced
            /\ p.fqdn = q.fqdn
        <5>1. ~ RS(q) /\ Shaped(q)
          BY <2>2, <4>2 DEF Shaped
        <5>2. Central(p) /\ Central(q)
          BY <4>1, <4>2 DEF Central
        <5> QED
          BY <2>1, <5>1, <5>2, ChartAssumption, Zenon DEF Collectors
      <4>4. Belongs(t, q)
        BY <3>1, <4>1, <4>2, <4>3 DEF Belongs, Central, RS, DS
      <4> QED
        BY <2>2, <4>3, <4>4
    <3> QED
      BY <3>2, <3>3
  <2> QED
    BY <2>3, <2>4 DEF ScrapedOnce
<1> QED
  BY <1>1, PipelineInductive, PTL
=============================================================================
