----------------------------- MODULE CollectorPod -----------------------------
(***************************************************************************)
(* The container of a collector and its supervisor (otelcollector/main,    *)
(* shared/process_utilities_linux.go, collector_replicaset_config_helper,  *)
(* filesystemwatcher_utility).                                             *)
(*                                                                         *)
(* main starts the watches, reads the settings, waits for the token        *)
(* adapter, starts mdsd (MA on Windows), the metrics extension, the        *)
(* collector and fluent-bit one after the other, with fixed sleeps between *)
(* them, and only then serves /health.  It repairs nothing: a changed file *)
(* or a dead process makes /health fail until the kubelet restarts the     *)
(* container, which begins again with an empty file system.                *)
(***************************************************************************)
EXTENDS Integers, FiniteSets

CONSTANTS
    Kinds,          \* containers to check
    Grace,          \* minutes without a configuration that /health tolerates
    Threshold,      \* failed probes in a row that restart the container
    PerMinute,      \* probes in a minute, for each operating system
    MaxChanges      \* bound on what the environment does

OS == {"linux", "windows"}

\* operator: AZMON_OPERATOR_ENABLED; https: AZMON_OPERATOR_HTTPS_ENABLED; otlp:
\* AZMON_FULL_OTLP_ENABLED.
Kind == [os : OS, replicaset : BOOLEAN, ccp : BOOLEAN, operator : BOOLEAN, https : BOOLEAN,
         otlp : BOOLEAN, proxy : {"none", "credentials", "bare"}]

ASSUME CollectorAssumption ==
    /\ Kinds \subseteq Kind /\ Grace \in Nat /\ MaxChanges \in Nat
    /\ Threshold \in Nat \ {0} /\ PerMinute \in [OS -> Nat \ {0}]
    \* Only the cluster's settings can switch HTTPS on; Windows nodes have a
    \* daemonset and nothing else.
    /\ \A k \in Kinds : (k.ccp => ~ k.https) /\ (k.os = "windows" => ~ k.replicaset /\ ~ k.ccp)

VARIABLES
    kind,           \* what this container is
    now,            \* versions of the mounted files
    certs,          \* the state of the client certificates
    token,          \* TokenConfig.json: 0 is absent
    adapter,        \* how the token adapter answers
    allocator,      \* how the allocator answers over HTTPS
    changes,        \* what is left of MaxChanges
    pc,             \* where main is
    age,            \* tens of seconds main has slept
    waited,         \* of them, in WaitForTokenAdapter
    looks, tries,   \* for the certificates, and to reach the allocator
    blocked,        \* tens of seconds in a request that is not answered
    removeHttps, proven,
    tls,            \* how the collector talks to the allocator
    watches,        \* inotifywait processes
    events, mdsdEvents,   \* whether the watches' output files have a line
    since,          \* versions when the output file was last truncated
    hash, winEvents,      \* the Windows watcher: last hash, and its output
    seen,           \* versions the running processes were started with
    procs,          \* processes that run
    minutes, probes, fails

mounted == <<now, certs, token, adapter, allocator>>
checks == <<looks, tries, blocked, removeHttps, proven>>
watching == <<watches, events, mdsdEvents, since, hash, winEvents>>
health == <<minutes, probes, fails>>
vars == <<kind, mounted, changes, pc, age, waited, checks, tls, watching, seen, procs, health>>

Files == {"settings", "certs", "client"}
Process == {"mdsd", "me", "otel", "fluentbit"}
Answers == {"up", "down", "silent"}
NoHash == [settings |-> 0, token |-> 0, set |-> FALSE]

Linux == kind.os = "linux"
UsesHttps == kind.replicaset /\ kind.https

\* A container begins.
Fresh(k, n) ==
    /\ pc' = IF k.os = "linux" THEN "watchSettings" ELSE "environment"
    /\ age' = 0 /\ waited' = 0 /\ looks' = 0 /\ tries' = 0 /\ blocked' = 0
    /\ removeHttps' = FALSE /\ proven' = FALSE /\ tls' = "none"
    /\ watches' = {} /\ events' = FALSE /\ mdsdEvents' = FALSE /\ since' = n
    /\ hash' = NoHash /\ winEvents' = FALSE /\ seen' = n /\ procs' = {}
    /\ minutes' = 0 /\ probes' = 0 /\ fails' = 0 /\ token' = 0

Init ==
    /\ kind \in Kinds /\ now = [f \in Files |-> 0]
    /\ certs \in {"absent", "good"} /\ token = 0 /\ changes = MaxChanges
    /\ adapter \in {"healthy", "refusing", "answering"} /\ allocator \in Answers
    /\ pc = IF Linux THEN "watchSettings" ELSE "environment"
    /\ age = 0 /\ waited = 0 /\ looks = 0 /\ tries = 0 /\ blocked = 0
    /\ removeHttps = FALSE /\ proven = FALSE /\ tls = "none"
    /\ watches = {} /\ events = FALSE /\ mdsdEvents = FALSE /\ since = now
    /\ hash = NoHash /\ winEvents = FALSE /\ seen = now /\ procs = {}
    /\ minutes = 0 /\ probes = 0 /\ fails = 0

Restart ==
    /\ Fresh(kind, now)
    /\ UNCHANGED <<kind, now, certs, adapter, allocator, changes>>

\* The third failed probe of a container that does not serve yet, in tens of
\* seconds: initialDelaySeconds and two periods of its chart.
ReplicasetPatience == 15
DaemonsetPatience == 9
WindowsPatience == 42
CcpPatience == 9
KillAt == IF ~ Linux THEN WindowsPatience ELSE IF kind.ccp THEN CcpPatience
          ELSE IF kind.replicaset THEN ReplicasetPatience ELSE DaemonsetPatience

\* main is at a step, and the kubelet has not lost patience.
At(step) == pc = step /\ age < KillAt

-----------------------------------------------------------------------------
(* Watching the mounted files. *)

\* The output file is created anew: what earlier watches wrote to it is gone.
Inotify(location) ==
    /\ watches' = watches \cup {location} /\ events' = FALSE /\ since' = now
    /\ UNCHANGED <<mdsdEvents, hash, winEvents>>

\* Fault: the watch of the settings is forgotten.
SettingsNotWatched ==
    /\ At("watchSettings")
    /\ pc' = IF kind.ccp THEN "environment" ELSE "watchCerts"
    /\ since' = now
    /\ UNCHANGED <<kind, mounted, changes, age, waited, checks, tls, watches, events, mdsdEvents,
                   hash, winEvents, seen, procs, health>>

WatchSettings ==
    /\ At("watchSettings")
    /\ Inotify("settings")
    /\ pc' = IF kind.ccp THEN "environment" ELSE "watchCerts"
    /\ UNCHANGED <<kind, mounted, changes, age, waited, checks, tls, seen, procs, health>>

WatchCerts ==
    /\ At("watchCerts")
    /\ Inotify("certs")
    /\ pc' = "environment"
    /\ UNCHANGED <<kind, mounted, changes, age, waited, checks, tls, seen, procs, health>>

-----------------------------------------------------------------------------
(* Starting the processes. *)

\* A proxy address without a colon after its scheme is an index out of range.
ConfigureEnvironment ==
    /\ At("environment")
    /\ IF ~ kind.ccp /\ kind.proxy = "bare" THEN Restart
       ELSE /\ pc' = "parse"
            /\ UNCHANGED <<kind, mounted, changes, age, waited, checks, tls, watching, seen,
                           procs, health>>

\* The configuration pipeline reads the settings; the control plane's sleeps
\* thirty seconds first.
ReadSettings ==
    /\ At("parse")
    /\ seen' = [seen EXCEPT !["settings"] = now["settings"]]
    /\ age' = age + (IF kind.ccp THEN 3 ELSE 0)
    /\ pc' = "adapter"
    /\ UNCHANGED <<kind, mounted, changes, waited, checks, tls, watching, procs, health>>

AdapterLimit == IF kind.ccp THEN 2 ELSE 6

\* Within the limit only a healthy answer ends the wait; beyond it only a failed
\* request does.
WaitForTokenAdapter ==
    /\ At("adapter")
    /\ IF adapter = (IF waited < AdapterLimit THEN "healthy" ELSE "refusing")
       THEN pc' = "mdsd" /\ UNCHANGED <<age, waited>>
       ELSE age' = age + 1 /\ waited' = waited + 1 /\ UNCHANGED pc
    /\ UNCHANGED <<kind, mounted, changes, checks, tls, watching, seen, procs, health>>

\* Fault: the sleep of Windows everywhere.
StartMdsdSleepsLonger(ok) ==
    /\ At("mdsd")
    /\ age' = age + (IF kind.otlp THEN 1 ELSE 6)
    /\ procs' = IF ok /\ ~ kind.otlp THEN procs \cup {"mdsd"} ELSE procs
    /\ pc' = "me"
    /\ changes' = IF ok THEN changes ELSE changes - 1
    /\ UNCHANGED <<kind, mounted, waited, checks, tls, watching, seen, health>>

\* mdsd, or MA, and the time it needs to fetch its configuration; not with OTLP.
\* A start that fails is logged.
StartMdsd(ok) ==
    /\ At("mdsd")
    /\ IF kind.otlp THEN age' = age + 1 /\ UNCHANGED procs
       ELSE /\ age' = age + (IF Linux THEN 4 ELSE 6)
            /\ procs' = IF ok THEN procs \cup {"mdsd"} ELSE procs
    /\ pc' = "me"
    /\ changes' = IF ok THEN changes ELSE changes - 1
    /\ UNCHANGED <<kind, mounted, waited, checks, tls, watching, seen, health>>

\* The first call of the Windows watcher stores a hash of what is mounted.
CheckForFilesystemChanges ==
    /\ IF ~ hash.set \/ (hash.settings = now["settings"] /\ hash.token = token)
       THEN UNCHANGED winEvents ELSE winEvents' = TRUE
    /\ hash' = [settings |-> now["settings"], token |-> token, set |-> TRUE]

\* A start that fails ends main in the cluster and is logged in the control plane.
StartMetricsExtension(ok) ==
    /\ At("me")
    /\ IF ok \/ kind.ccp
       THEN /\ procs' = IF ok THEN procs \cup {"me"} ELSE procs
            /\ pc' = IF UsesHttps THEN "ca" ELSE "collector"
            /\ IF Linux THEN UNCHANGED <<hash, winEvents>> ELSE CheckForFilesystemChanges
            /\ changes' = IF ok THEN changes ELSE changes - 1
            /\ UNCHANGED <<kind, mounted, age, waited, checks, tls, watches, events, mdsdEvents,
                           since, seen, health>>
       ELSE /\ Fresh(kind, now)
            /\ changes' = changes - 1
            /\ UNCHANGED <<kind, now, certs, adapter, allocator>>

\* CollectorTAHttpsCheck looks three times for ca.crt ...
LookForCa ==
    /\ At("ca")
    /\ IF certs # "absent" THEN pc' = "ping" /\ UNCHANGED <<age, looks, removeHttps>>
       ELSE IF looks = 2 THEN removeHttps' = TRUE /\ pc' = "collector" /\ UNCHANGED <<age, looks>>
       ELSE looks' = looks + 1 /\ age' = age + 3 /\ UNCHANGED <<pc, removeHttps>>
    /\ UNCHANGED <<kind, mounted, changes, waited, tries, blocked, proven, tls, watching, seen,
                   procs, health>>

\* Fault: a certificate that cannot be read is only logged.
PingForgetsUnreadable ==
    /\ At("ping")
    /\ \/ /\ certs \in {"absent", "garbage"} /\ tries' = tries + 1
          /\ pc' = IF tries = 2 THEN "collector" ELSE pc
          /\ UNCHANGED removeHttps
       \/ /\ certs = "halfway" /\ removeHttps' = TRUE /\ pc' = "collector" /\ UNCHANGED tries
       \/ /\ certs = "good" /\ pc' = "asked" /\ UNCHANGED <<tries, removeHttps>>
    /\ UNCHANGED <<kind, mounted, changes, age, waited, looks, blocked, proven, tls, watching,
                   seen, procs, health>>

\* ... and asks the allocator three times.  A certificate that cannot be read
\* counts as a try without a sleep, a client certificate that cannot be loaded
\* ends the check.
PingAllocator ==
    /\ At("ping")
    /\ \/ /\ certs \in {"absent", "garbage"}
          /\ removeHttps' = TRUE /\ tries' = tries + 1
          /\ pc' = IF tries = 2 THEN "collector" ELSE pc
       \/ /\ certs = "halfway" /\ removeHttps' = TRUE /\ pc' = "collector" /\ UNCHANGED tries
       \/ /\ certs = "good" /\ pc' = "asked" /\ UNCHANGED <<tries, removeHttps>>
    /\ UNCHANGED <<kind, mounted, changes, age, waited, looks, blocked, proven, tls, watching,
                   seen, procs, health>>

\* The request goes out with the certificates that were read.  The client has no
\* timeout: main waits as long as nobody answers.
AwaitAllocator ==
    /\ At("asked")
    /\ \/ /\ allocator = "up" /\ removeHttps' = FALSE /\ proven' = TRUE /\ pc' = "collector"
          /\ UNCHANGED <<age, tries, blocked>>
       \/ /\ allocator = "down" /\ tries = 2 /\ removeHttps' = TRUE /\ pc' = "collector"
          /\ UNCHANGED <<age, tries, blocked, proven>>
       \/ /\ allocator = "down" /\ tries < 2 /\ tries' = tries + 1 /\ age' = age + 3
          /\ pc' = "ping"
          /\ UNCHANGED <<blocked, removeHttps, proven>>
       \/ /\ allocator = "silent" /\ age' = age + 1 /\ blocked' = blocked + 1
          /\ UNCHANGED <<pc, tries, removeHttps, proven>>
    /\ UNCHANGED <<kind, mounted, changes, waited, looks, tls, watching, seen, procs, health>>

\* The configuration of a cluster's replicaset is rewritten to HTTP when HTTPS is
\* off or could not be proven.
RewritesToHttp == kind.replicaset /\ (IF kind.https THEN removeHttps ELSE ~ kind.ccp)

\* Without the operator that configuration has no target_allocator section:
\* RemoveHTTPSSettingsInCollectorConfig writes to a nil map.
RewritePanics == At("collector") /\ RewritesToHttp /\ ~ kind.operator /\ Restart

\* How the collector talks to the allocator; kept: the rewriting failed, which
\* nobody looks at.
Transport(written) ==
    IF ~ kind.replicaset \/ ~ kind.operator THEN "none"
    ELSE IF RewritesToHttp THEN (IF written THEN "http" ELSE "kept")
    ELSE IF kind.ccp THEN "http" ELSE "https"

\* The collector loads certificates when it starts.  That it does not start is
\* logged.
StartCollector(ok, written) ==
    /\ At("collector") /\ (RewritesToHttp => kind.operator) /\ (written \/ RewritesToHttp)
    /\ tls' = Transport(written)
    /\ procs' = IF ok THEN procs \cup {"otel"} ELSE procs
    /\ seen' = [now EXCEPT !["settings"] = seen["settings"]]
    /\ pc' = IF UsesHttps THEN "watchClient" ELSE "rest"
    /\ changes' = IF ok /\ written THEN changes ELSE changes - 1
    /\ UNCHANGED <<kind, mounted, age, waited, checks, watching, health>>

\* The watch of the client certificates has the output file of the others.
WatchClient ==
    /\ At("watchClient")
    /\ Inotify("client")
    /\ pc' = "rest"
    /\ UNCHANGED <<kind, mounted, changes, age, waited, checks, tls, seen, procs, health>>

\* The rest: the user interface, fluent-bit in a cluster, the watch of
\* TokenConfig.json, which needs the file to be there, and /health.
Serve ==
    /\ At("rest")
    /\ procs' = IF kind.ccp THEN procs ELSE procs \cup {"fluentbit"}
    /\ watches' = IF Linux /\ ~ kind.otlp /\ token # 0 THEN watches \cup {"token"} ELSE watches
    /\ mdsdEvents' = FALSE
    /\ pc' = "serving"
    /\ UNCHANGED <<kind, mounted, changes, age, waited, checks, tls, events, since, hash,
                   winEvents, seen, health>>

\* What may fail has failed.
StartFails ==
    changes > 0 /\ (StartMdsd(FALSE) \/ StartMetricsExtension(FALSE)
                    \/ StartCollector(FALSE, TRUE) \/ StartCollector(TRUE, FALSE))

Start == WatchSettings \/ WatchCerts \/ ConfigureEnvironment \/ ReadSettings
         \/ WaitForTokenAdapter \/ StartMdsd(TRUE) \/ StartMetricsExtension(TRUE)
         \/ LookForCa \/ PingAllocator \/ AwaitAllocator \/ RewritePanics
         \/ StartCollector(TRUE, TRUE) \/ WatchClient \/ Serve

-----------------------------------------------------------------------------
(* The health endpoint and the kubelet. *)

IsProcessRunning(p) == p \in procs

NoConfiguration == ~ kind.otlp /\ token = 0

\* Fault: a missing configuration is tolerated for ever.
ProcessesHealthyWithoutLimit ==
    NoConfiguration \/ (IsProcessRunning("me") /\ (kind.otlp \/ IsProcessRunning("mdsd")))

\* Fault: the metrics extension is not looked at.
ProcessesHealthyWithoutMe ==
    IF NoConfiguration THEN minutes <= Grace ELSE kind.otlp \/ IsProcessRunning("mdsd")

\* Without a configuration the other processes are not looked at.
ProcessesHealthy ==
    IF NoConfiguration THEN minutes <= Grace
    ELSE IsProcessRunning("me") /\ (kind.otlp \/ IsProcessRunning("mdsd"))

HasConfigChanged == IF Linux THEN mdsdEvents \/ events ELSE winEvents

\* Fault: the probe that reports a change removes the line.
healthHandlerConsumes ==
    /\ pc = "serving" /\ probes < PerMinute[kind.os]
    /\ IF ~ Linux /\ ProcessesHealthy /\ ~ winEvents THEN CheckForFilesystemChanges
       ELSE UNCHANGED <<hash, winEvents>>
    /\ LET ok == ProcessesHealthy /\ ~ HasConfigChanged /\ ~ winEvents' /\ IsProcessRunning("otel")
       IN  fails' = IF ok THEN 0 ELSE fails + 1
    /\ fails' < Threshold
    /\ probes' = probes + 1 /\ events' = FALSE
    /\ UNCHANGED <<kind, mounted, changes, pc, age, waited, checks, tls, watches,
                   mdsdEvents, since, seen, procs, minutes>>

\* One probe.  On Windows the endpoint itself looks for changes, unless an earlier
\* check failed or a change was already found.
healthHandler ==
    /\ pc = "serving" /\ probes < PerMinute[kind.os]
    /\ IF ~ Linux /\ ProcessesHealthy /\ ~ winEvents THEN CheckForFilesystemChanges
       ELSE UNCHANGED <<hash, winEvents>>
    /\ LET ok == ProcessesHealthy /\ ~ HasConfigChanged /\ ~ winEvents' /\ IsProcessRunning("otel")
       IN  fails' = IF ok THEN 0 ELSE fails + 1
    /\ fails' < Threshold
    /\ probes' = probes + 1
    /\ UNCHANGED <<kind, mounted, changes, pc, age, waited, checks, tls, watches, events,
                   mdsdEvents, since, seen, procs, minutes>>

\* The last of Threshold failed probes in a row.
LastProbe ==
    /\ pc = "serving" /\ probes < PerMinute[kind.os] /\ fails = Threshold - 1
    /\ \/ ~ ProcessesHealthy \/ HasConfigChanged \/ ~ IsProcessRunning("otel")
       \/ ~ Linux /\ hash # [settings |-> now["settings"], token |-> token, set |-> TRUE]
    /\ Restart

\* No answer from a container that does not serve yet.
KilledStarting == pc # "serving" /\ age >= KillAt /\ Restart

\* A minute passes: the kubelet has done its probes.
Tick ==
    /\ pc = "serving" /\ probes = PerMinute[kind.os]
    /\ probes' = 0
    /\ minutes' = IF minutes <= Grace + Threshold THEN minutes + 1 ELSE minutes
    /\ UNCHANGED <<kind, mounted, changes, pc, age, waited, checks, tls, watching, seen, procs,
                   fails>>

Kubelet == healthHandler \/ LastProbe \/ KilledStarting \/ Tick

-----------------------------------------------------------------------------
(* The environment. *)

Spend == changes > 0 /\ changes' = changes - 1

\* A mounted file changes; a watch on it writes a line.
FileChanges(f) ==
    /\ Spend
    /\ now' = [now EXCEPT ![f] = @ + 1]
    /\ events' = (events \/ f \in watches)
    /\ IF f = "client" THEN certs' \in {"absent", "good", "garbage", "halfway"} \ {certs}
       ELSE UNCHANGED certs
    /\ UNCHANGED <<kind, token, adapter, allocator, pc, age, waited, checks, tls, watches,
                   mdsdEvents, since, hash, winEvents, seen, procs, health>>

\* mdsd fetches the configuration, and later a changed one.
TokenArrives ==
    /\ "mdsd" \in procs /\ token < 2
    /\ IF token = 0 THEN UNCHANGED changes ELSE Spend
    /\ token' = token + 1
    /\ mdsdEvents' = (mdsdEvents \/ "token" \in watches)
    /\ UNCHANGED <<kind, now, certs, adapter, allocator, pc, age, waited, checks, tls, watches,
                   events, since, hash, winEvents, seen, procs, health>>

PeerChanges ==
    /\ Spend
    /\ \/ adapter' \in {"healthy", "refusing", "answering"} \ {adapter} /\ UNCHANGED allocator
       \/ allocator' \in Answers \ {allocator} /\ UNCHANGED adapter
    /\ UNCHANGED <<kind, now, certs, token, pc, age, waited, checks, tls, watching, seen, procs,
                   health>>

ProcessDies(p) ==
    /\ Spend /\ p \in procs
    /\ procs' = procs \ {p}
    /\ UNCHANGED <<kind, mounted, pc, age, waited, checks, tls, watching, seen, health>>

\* SIGTERM: main exits at once.
handleShutdown ==
    /\ Spend
    /\ Fresh(kind, now)
    /\ UNCHANGED <<kind, now, certs, adapter, allocator>>

Environment ==
    \/ StartFails \/ (\E f \in Files : FileChanges(f)) \/ TokenArrives \/ PeerChanges
    \/ (\E p \in Process : ProcessDies(p)) \/ handleShutdown

Next == Start \/ Kubelet \/ Environment

\* main and the kubelet go on; the environment owes nothing.
Spec == Init /\ [][Next]_vars /\ WF_vars(Start \/ Kubelet)

-----------------------------------------------------------------------------
(* Properties. *)

Versions == [Files -> 0..MaxChanges]

\* Type correctness of the container's state.
TypeOK ==
    /\ kind \in Kind /\ now \in Versions /\ since \in Versions /\ seen \in Versions
    /\ certs \in {"absent", "good", "garbage", "halfway"} /\ token \in 0..2
    /\ adapter \in {"healthy", "refusing", "answering"} /\ allocator \in Answers
    /\ changes \in 0..MaxChanges
    /\ pc \in {"watchSettings", "watchCerts", "environment", "parse", "adapter", "mdsd", "me",
               "ca", "ping", "asked", "collector", "watchClient", "rest", "serving"}
    /\ age \in Nat /\ waited \in Nat /\ blocked \in Nat /\ looks \in 0..2 /\ tries \in 0..3
    /\ removeHttps \in BOOLEAN /\ proven \in BOOLEAN /\ tls \in {"none", "http", "https", "kept"}
    /\ watches \subseteq Files \cup {"token"}
    /\ events \in BOOLEAN /\ mdsdEvents \in BOOLEAN /\ winEvents \in BOOLEAN
    /\ hash \in [settings : 0..MaxChanges, token : 0..2, set : BOOLEAN]
    /\ procs \subseteq Process
    /\ minutes \in 0..(Grace + Threshold + 1) /\ probes \in 0..PerMinute[kind.os] /\ fails \in 0..Threshold

\* A serving Linux container that runs with other files than the mounted ones has
\* the line in its output file that will restart it, unless it uses HTTPS and the
\* file was truncated after they were read: the watch of the client certificates
\* does that, and nothing else.
Noticed ==
    pc = "serving" /\ Linux =>
        \A f \in Files \cap watches :
            seen[f] # now[f] => events \/ (UsesHttps /\ since[f] > seen[f])

\* The collector uses HTTPS only if the allocator has answered over HTTPS to this
\* container, whatever happened to the certificates between the tries.  The one
\* exception is kept apart (tls = "kept"): the file could not be rewritten.
HttpsProven == tls = "https" => proven

\* What a start can spend on others before the kubelet ends it: 50 s in a cluster,
\* less than the 60 s main is ready to wait for the token adapter, 20 s in the
\* control plane, six minutes on Windows.
Spare == IF ~ Linux THEN 36 ELSE IF kind.ccp THEN 2 ELSE 5

\* The kubelet ends a start only if the token adapter, the certificates and an
\* allocator that does not answer have together held it up for all it can spare:
\* its own sleeps, and the three tries to reach an allocator that refuses, fit.
StartsInTime ==
    pc # "serving" /\ age >= KillAt => waited + 3 * looks + blocked >= Spare

\* /health tolerates a missing configuration for the grace and then for fewer than
\* Threshold probes, however rare they are: on Windows there is one in a minute.
GraceBounded ==
    pc = "serving" /\ NoConfiguration /\ minutes > Grace =>
        (minutes - Grace - 1) * PerMinute[kind.os] + probes < Threshold

\* Once serving, a container that has anything to be restarted for is restarted: a
\* dead process, a line in a watch's file, a Windows hash that differs.
Due ==
    \/ \E p \in {"otel", "me"} \cup (IF kind.otlp THEN {} ELSE {"mdsd"}) : p \notin procs
    \/ HasConfigChanged
    \/ ~ Linux /\ hash # [settings |-> now["settings"], token |-> token, set |-> TRUE]
RestartedWhenDue == (pc = "serving" /\ Due) ~> (pc # "serving")

\* What stops main before it serves, at every start.
Stops == kind.proxy = "bare" \/ (kind.replicaset /\ ~ kind.ccp /\ ~ kind.operator)

\* In a Linux container without HTTPS every change of the settings is in force in
\* the end, if the token adapter is healthy in the end and nothing stops main.
EventuallyApplied ==
    Linux /\ ~ UsesHttps /\ ~ Stops /\ <>[](adapter = "healthy") =>
        [](seen["settings"] # now["settings"] => <>(pc = "serving" /\ seen["settings"] = now["settings"]))

\* main.go without the operator: "Starting otelcollector with only default scrape
\* configs enabled".  A cluster's replicaset that is deployed so, as the chart
\* provides for, serves in the end.
ServesWithoutOperator ==
    <>[](adapter = "healthy") /\ kind.replicaset /\ ~ kind.operator => <>(pc = "serving")
=============================================================================
