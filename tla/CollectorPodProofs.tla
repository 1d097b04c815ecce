-------------------------- MODULE CollectorPodProofs --------------------------
(***************************************************************************)
(* Proofs about CollectorPod: for any containers, any number of changes    *)
(* and any grace period, the safety properties of the supervisor.          *)
(***************************************************************************)
EXTENDS CollectorPod, TLAPS

-----------------------------------------------------------------------------
(* The inductive invariant. *)

\* main has not read the settings yet.
Unread == {"watchSettings", "watchCerts", "environment", "parse"}

\* What is left of the budget bounds the versions; nobody is ahead of them.
Bounded ==
    /\ kind \in Kinds
    /\ \A f \in Files : now[f] + changes <= MaxChanges /\ since[f] <= now[f] /\ seen[f] <= now[f]
    /\ hash.settings <= now["settings"]
    /\ pc \in {"ping", "asked"} => tries <= 2
    /\ pc \in Unread \cup {"adapter", "mdsd", "me", "ca"} => tries = 0
    /\ pc \in {"ca", "ping", "asked", "watchClient"} => UsesHttps

\* An empty output file means that no watched file changed since it was made.
Recorded == ~ events => \A f \in Files \cap watches : now[f] = since[f]

\* After the settings were read, and after the collector has loaded the rest, only
\* the watch of the client certificates truncates the output file.
Started == {"rest", "serving"}
ReadAfterWatch ==
    ~ UsesHttps =>
        /\ pc \notin Unread => since["settings"] <= seen["settings"]
        /\ pc \in Started => \A f \in Files : since[f] <= seen[f]

\* The check ends with the answer or without HTTPS.
Proven ==
    /\ tls = "https" => proven
    /\ pc = "collector" /\ UsesHttps => removeHttps \/ proven

\* How long main has slept, apart from what others have held it up.
HeldUp == waited + 3 * looks + blocked
AtParse == IF kind.ccp THEN 3 ELSE 0
AtMe == AtParse + (IF kind.otlp THEN 1 ELSE IF Linux THEN 4 ELSE 6)
Slept ==
    /\ pc \in Unread => age = 0
    /\ pc \in {"adapter", "mdsd"} => age <= AtParse + HeldUp
    /\ pc \in {"me", "ca"} => age <= AtMe + HeldUp
    /\ pc \in {"ping", "asked"} => age <= AtMe + 3 * tries + HeldUp
    /\ pc \in {"collector", "watchClient", "rest"} =>
          age <= AtMe + (IF UsesHttps THEN 6 ELSE 0) + HeldUp

\* Past the grace every probe has failed.
Overdue == (minutes - Grace - 1) * PerMinute[kind.os] + probes
Patience ==
    /\ fails < Threshold
    /\ NoConfiguration /\ minutes > Grace => Overdue <= fails

IInv == TypeOK /\ Bounded /\ Recorded /\ ReadAfterWatch /\ Proven /\ Slept /\ Patience

-----------------------------------------------------------------------------
(* A container begins, or main takes a step. *)

\* Every container is probed.
LEMMA Probed ==
    ASSUME TypeOK
    PROVE  PerMinute[kind.os] \in Nat /\ PerMinute[kind.os] > 0
BY CollectorAssumption DEF TypeOK, Kind

\* A new container has seen and watched nothing, whatever the old one left.
LEMMA Begins ==
    ASSUME IInv, Fresh(kind, now), UNCHANGED <<kind, now, certs, adapter, allocator>>,
           changes' \in Nat, changes' <= changes
    PROVE  IInv'
<1>1. hash' \in [settings : 0..MaxChanges, token : 0..2, set : BOOLEAN]
  BY CollectorAssumption DEF Fresh, NoHash
<1>2. /\ watches' \subseteq Files \cup {"token"} /\ procs' \subseteq Process
  BY DEF Fresh
<1>3. /\ removeHttps' \in BOOLEAN /\ proven' \in BOOLEAN
      /\ events' \in BOOLEAN /\ mdsdEvents' \in BOOLEAN /\ winEvents' \in BOOLEAN
  BY DEF Fresh
<1>3a. minutes' \in 0..(Grace + Threshold + 1) /\ probes' \in 0..PerMinute[kind'.os] /\ fails' \in 0..Threshold
  BY Probed, CollectorAssumption DEF IInv, Fresh
<1>4. TypeOK'
  BY <1>1, <1>2, <1>3, <1>3a, CollectorAssumption DEF IInv, TypeOK, Versions, Fresh, NoHash, Linux, mounted, checks, watching, health
<1>5. Bounded'
  BY CollectorAssumption DEF IInv, TypeOK, Versions, Files, Bounded, UsesHttps, Unread, Fresh, NoHash, Linux,
         mounted, checks, watching, health
<1>6. Recorded'
  BY DEF IInv, TypeOK, Versions, Files, Recorded, Fresh, NoHash, Linux, mounted, checks,
         watching, health
<1>7. ReadAfterWatch'
  BY DEF IInv, TypeOK, Versions, Files, Bounded, ReadAfterWatch, Unread, Started, UsesHttps,
         Fresh, NoHash, Linux, mounted, checks, watching, health
<1>8. Proven'
  BY DEF IInv, TypeOK, Proven, UsesHttps, Fresh, NoHash, Linux, mounted, checks, watching,
         health
<1>9. Slept'
  BY CollectorAssumption DEF IInv, TypeOK, Slept, HeldUp, AtMe, AtParse, Unread, Linux, UsesHttps, Bounded, Fresh,
         NoHash, mounted, checks, watching, health
<1>10. Patience'
  BY CollectorAssumption DEF IInv, TypeOK, Patience, Overdue, NoConfiguration, Fresh, NoHash, Linux, mounted, checks,
         watching, health
<1> QED
  BY <1>4, <1>5, <1>6, <1>7, <1>8, <1>9, <1>10 DEF IInv

\* The first watches, before anything was read.
LEMMA Watches ==
    ASSUME IInv, WatchSettings \/ WatchCerts
    PROVE  IInv'
<1>1. watches' \subseteq Files \cup {"token"}
  BY DEF IInv, TypeOK, WatchSettings, WatchCerts, Inotify, Files
<1>2. events' \in BOOLEAN
  BY DEF WatchSettings, WatchCerts, Inotify
<1>3. TypeOK'
  BY <1>1, <1>2, CollectorAssumption DEF IInv, TypeOK, Versions, WatchSettings, WatchCerts, Inotify, At, mounted, checks,
         watching, health
<1>4. Bounded'
  BY CollectorAssumption DEF IInv, TypeOK, Versions, Files, Bounded, UsesHttps, Unread, WatchSettings,
         WatchCerts, Inotify, At, mounted, checks, watching, health
<1>5. Recorded'
  BY DEF IInv, TypeOK, Versions, Files, Recorded, WatchSettings, WatchCerts, Inotify, At,
         mounted, checks, watching, health
<1>6. ReadAfterWatch'
  BY DEF IInv, TypeOK, Versions, Files, Bounded, ReadAfterWatch, Unread, Started, UsesHttps,
         WatchSettings, WatchCerts, Inotify, At, mounted, checks, watching, health
<1>7. Proven'
  BY DEF IInv, TypeOK, Proven, UsesHttps, WatchSettings, WatchCerts, Inotify, At, mounted,
         checks, watching, health
<1>8. Slept'
  BY CollectorAssumption DEF IInv, TypeOK, Slept, HeldUp, AtMe, AtParse, Unread, Linux, UsesHttps, Bounded,
         WatchSettings, WatchCerts, Inotify, At, mounted, checks, watching, health
<1>9. Patience'
  BY CollectorAssumption DEF IInv, TypeOK, Patience, Overdue, NoConfiguration, WatchSettings, WatchCerts, Inotify, At,
         mounted, checks, watching, health
<1> QED
  BY <1>3, <1>4, <1>5, <1>6, <1>7, <1>8, <1>9 DEF IInv

\* Reading the settings catches up with them.
LEMMA Reads ==
    ASSUME IInv, ReadSettings
    PROVE  IInv'
<1>1. seen' \in Versions
  BY DEF IInv, TypeOK, Versions, ReadSettings, Files
<1>2. TypeOK'
  BY <1>1, CollectorAssumption DEF IInv, TypeOK, Versions, ReadSettings, At, mounted, checks, watching, health
<1>3. Bounded'
  BY CollectorAssumption DEF IInv, TypeOK, Versions, Files, Bounded, UsesHttps, Unread, ReadSettings, At,
         mounted, checks, watching, health
<1>4. Recorded'
  BY DEF IInv, TypeOK, Versions, Files, Recorded, ReadSettings, At, mounted, checks,
         watching, health
<1>5. ReadAfterWatch'
  BY DEF IInv, TypeOK, Versions, Files, Bounded, ReadAfterWatch, Unread, Started, UsesHttps,
         ReadSettings, At, mounted, checks, watching, health
<1>6. Proven'
  BY DEF IInv, TypeOK, Proven, UsesHttps, ReadSettings, At, mounted, checks, watching, health
<1>7. Slept'
  BY CollectorAssumption DEF IInv, TypeOK, Slept, HeldUp, AtMe, AtParse, Unread, Linux, UsesHttps, Bounded, ReadSettings,
         At, mounted, checks, watching, health
<1>8. Patience'
  BY CollectorAssumption DEF IInv, TypeOK, Patience, Overdue, NoConfiguration, ReadSettings, At, mounted, checks,
         watching, health
<1> QED
  BY <1>2, <1>3, <1>4, <1>5, <1>6, <1>7, <1>8 DEF IInv

\* A wait for the adapter is counted.
LEMMA Waits ==
    ASSUME IInv, WaitForTokenAdapter
    PROVE  IInv'
<1>1. TypeOK'
  BY CollectorAssumption DEF IInv, TypeOK, Versions, WaitForTokenAdapter, AdapterLimit, At, mounted, checks,
         watching, health
<1>2. Bounded'
  BY CollectorAssumption DEF IInv, TypeOK, Versions, Files, Bounded, UsesHttps, Unread, WaitForTokenAdapter,
         AdapterLimit, At, mounted, checks, watching, health
<1>3. Recorded'
  BY DEF IInv, TypeOK, Versions, Files, Recorded, WaitForTokenAdapter, AdapterLimit, At,
         mounted, checks, watching, health
<1>4. ReadAfterWatch'
  BY DEF IInv, TypeOK, Versions, Files, Bounded, ReadAfterWatch, Unread, Started, UsesHttps,
         WaitForTokenAdapter, AdapterLimit, At, mounted, checks, watching, health
<1>5. Proven'
  BY DEF IInv, TypeOK, Proven, UsesHttps, WaitForTokenAdapter, AdapterLimit, At, mounted,
         checks, watching, health
<1>6. Slept'
  BY CollectorAssumption DEF IInv, TypeOK, Slept, HeldUp, AtMe, AtParse, Unread, Linux, UsesHttps, Bounded,
         WaitForTokenAdapter, AdapterLimit, At, mounted, checks, watching, health
<1>7. Patience'
  BY CollectorAssumption DEF IInv, TypeOK, Patience, Overdue, NoConfiguration, WaitForTokenAdapter, AdapterLimit, At,
         mounted, checks, watching, health
<1> QED
  BY <1>1, <1>2, <1>3, <1>4, <1>5, <1>6, <1>7 DEF IInv

\* mdsd and its sleep.
LEMMA StartsMdsd ==
    ASSUME IInv, NEW ok \in BOOLEAN, ok \/ changes > 0, StartMdsd(ok)
    PROVE  IInv'
<1>1. procs' \subseteq Process
  BY DEF IInv, TypeOK, StartMdsd, Process
<1>2. TypeOK'
  BY <1>1, CollectorAssumption DEF IInv, TypeOK, Versions, StartMdsd, At, mounted, checks, watching, health
<1>3. Bounded'
  BY CollectorAssumption DEF IInv, TypeOK, Versions, Files, Bounded, UsesHttps, Unread, StartMdsd, At, mounted,
         checks, watching, health
<1>4. Recorded'
  BY DEF IInv, TypeOK, Versions, Files, Recorded, StartMdsd, At, mounted, checks, watching,
         health
<1>5. ReadAfterWatch'
  BY DEF IInv, TypeOK, Versions, Files, Bounded, ReadAfterWatch, Unread, Started, UsesHttps,
         StartMdsd, At, mounted, checks, watching, health
<1>6. Proven'
  BY DEF IInv, TypeOK, Proven, UsesHttps, StartMdsd, At, mounted, checks, watching, health
<1>7. Slept'
  BY CollectorAssumption DEF IInv, TypeOK, Slept, HeldUp, AtMe, AtParse, Unread, Linux, UsesHttps, Bounded, StartMdsd,
         At, mounted, checks, watching, health
<1>8. Patience'
  BY CollectorAssumption DEF IInv, TypeOK, Patience, Overdue, NoConfiguration, StartMdsd, At, mounted, checks, watching,
         health
<1> QED
  BY <1>2, <1>3, <1>4, <1>5, <1>6, <1>7, <1>8 DEF IInv

\* The look for the certificate authority.
LEMMA LooksForCa ==
    ASSUME IInv, LookForCa
    PROVE  IInv'
<1>1. removeHttps' \in BOOLEAN
  BY DEF IInv, TypeOK, LookForCa
<1>2. TypeOK'
  BY <1>1, CollectorAssumption DEF IInv, TypeOK, Versions, LookForCa, At, mounted, checks, watching, health
<1>3. Bounded'
  BY CollectorAssumption DEF IInv, TypeOK, Versions, Files, Bounded, UsesHttps, Unread, LookForCa, At, mounted,
         checks, watching, health
<1>4. Recorded'
  BY DEF IInv, TypeOK, Versions, Files, Recorded, LookForCa, At, mounted, checks, watching,
         health
<1>5. ReadAfterWatch'
  BY DEF IInv, TypeOK, Versions, Files, Bounded, ReadAfterWatch, Unread, Started, UsesHttps,
         LookForCa, At, mounted, checks, watching, health
<1>6. Proven'
  BY DEF IInv, TypeOK, Proven, UsesHttps, LookForCa, At, mounted, checks, watching, health
<1>7. Slept'
  BY CollectorAssumption DEF IInv, TypeOK, Slept, HeldUp, AtMe, AtParse, Unread, Linux, UsesHttps, Bounded, LookForCa,
         At, mounted, checks, watching, health
<1>8. Patience'
  BY CollectorAssumption DEF IInv, TypeOK, Patience, Overdue, NoConfiguration, LookForCa, At, mounted, checks, watching,
         health
<1> QED
  BY <1>2, <1>3, <1>4, <1>5, <1>6, <1>7, <1>8 DEF IInv

\* A try to reach the allocator.
LEMMA Pings ==
    ASSUME IInv, PingAllocator
    PROVE  IInv'
<1>1. removeHttps' \in BOOLEAN /\ proven' \in BOOLEAN
  BY DEF IInv, TypeOK, PingAllocator
<1>2. TypeOK'
  BY <1>1, CollectorAssumption DEF IInv, TypeOK, Versions, PingAllocator, At, Bounded, mounted, checks, watching,
         health
<1>3. Bounded'
  BY CollectorAssumption DEF IInv, TypeOK, Versions, Files, Bounded, UsesHttps, Unread, PingAllocator, At,
         mounted, checks, watching, health
<1>4. Recorded'
  BY DEF IInv, TypeOK, Versions, Files, Recorded, PingAllocator, At, mounted, checks,
         watching, health
<1>5. ReadAfterWatch'
  BY DEF IInv, TypeOK, Versions, Files, Bounded, ReadAfterWatch, Unread, Started, UsesHttps,
         PingAllocator, At, mounted, checks, watching, health
<1>6. Proven'
  BY DEF IInv, TypeOK, Proven, UsesHttps, PingAllocator, At, mounted, checks, watching,
         health
<1>7. Slept'
  BY CollectorAssumption DEF IInv, TypeOK, Slept, HeldUp, AtMe, AtParse, Unread, Linux, UsesHttps, Bounded,
         PingAllocator, At, mounted, checks, watching, health
<1>8. Patience'
  BY CollectorAssumption DEF IInv, TypeOK, Patience, Overdue, NoConfiguration, PingAllocator, At, mounted, checks,
         watching, health
<1> QED
  BY <1>2, <1>3, <1>4, <1>5, <1>6, <1>7, <1>8 DEF IInv

\* The answer of the allocator, or none.
LEMMA Awaits ==
    ASSUME IInv, AwaitAllocator
    PROVE  IInv'
<1>1. removeHttps' \in BOOLEAN /\ proven' \in BOOLEAN
  BY DEF IInv, TypeOK, AwaitAllocator
<1>2. TypeOK'
  BY <1>1, CollectorAssumption DEF IInv, TypeOK, Versions, AwaitAllocator, At, Bounded, mounted, checks, watching,
         health
<1>3. Bounded'
  BY CollectorAssumption DEF IInv, TypeOK, Versions, Files, Bounded, UsesHttps, Unread, AwaitAllocator, At,
         mounted, checks, watching, health
<1>4. Recorded'
  BY DEF IInv, TypeOK, Versions, Files, Recorded, AwaitAllocator, At, mounted, checks,
         watching, health
<1>5. ReadAfterWatch'
  BY DEF IInv, TypeOK, Versions, Files, Bounded, ReadAfterWatch, Unread, Started, UsesHttps,
         AwaitAllocator, At, mounted, checks, watching, health
<1>6. Proven'
  BY DEF IInv, TypeOK, Proven, UsesHttps, AwaitAllocator, At, mounted, checks, watching,
         health
<1>7. Slept'
  BY CollectorAssumption DEF IInv, TypeOK, Slept, HeldUp, AtMe, AtParse, Unread, Linux, UsesHttps, Bounded,
         AwaitAllocator, At, mounted, checks, watching, health
<1>8. Patience'
  BY CollectorAssumption DEF IInv, TypeOK, Patience, Overdue, NoConfiguration, AwaitAllocator, At, mounted, checks,
         watching, health
<1> QED
  BY <1>2, <1>3, <1>4, <1>5, <1>6, <1>7, <1>8 DEF IInv

\* The collector catches up with everything but the settings.
LEMMA StartsCollector ==
    ASSUME IInv, NEW ok \in BOOLEAN, NEW written \in BOOLEAN,
           (ok /\ written) \/ changes > 0, StartCollector(ok, written)
    PROVE  IInv'
<1>1. procs' \subseteq Process
  BY DEF IInv, TypeOK, StartCollector, Process
<1>2. seen' \in Versions
  BY DEF IInv, TypeOK, Versions, StartCollector, Files
<1>0. tls' \in {"none", "http", "https", "kept"}
  BY DEF StartCollector, Transport
<1>3. TypeOK'
  BY <1>0, <1>1, <1>2, CollectorAssumption DEF IInv, TypeOK, Versions, StartCollector, At, mounted, checks, watching, health
<1>4. Bounded'
  BY CollectorAssumption DEF IInv, TypeOK, Versions, Files, Bounded, UsesHttps, Unread, StartCollector, At,
         mounted, checks, watching, health
<1>5. Recorded'
  BY DEF IInv, TypeOK, Versions, Files, Recorded, StartCollector, At, mounted, checks,
         watching, health
<1>6. ReadAfterWatch'
  BY DEF IInv, TypeOK, Versions, Files, Bounded, ReadAfterWatch, Unread, Started, UsesHttps,
         StartCollector, At, mounted, checks, watching, health
<1>7. Proven'
  BY DEF IInv, TypeOK, Proven, UsesHttps, StartCollector, Transport, RewritesToHttp, At, mounted, checks, watching,
         health
<1>8. Slept'
  BY CollectorAssumption DEF IInv, TypeOK, Slept, HeldUp, AtMe, AtParse, Unread, Linux, UsesHttps, Bounded,
         StartCollector, At, mounted, checks, watching, health
<1>9. Patience'
  BY CollectorAssumption DEF IInv, TypeOK, Patience, Overdue, NoConfiguration, StartCollector, At, mounted, checks,
         watching, health
<1> QED
  BY <1>3, <1>4, <1>5, <1>6, <1>7, <1>8, <1>9 DEF IInv

\* The watch of the client certificates truncates the output file.
LEMMA WatchesClient ==
    ASSUME IInv, WatchClient
    PROVE  IInv'
<1>1. watches' \subseteq Files \cup {"token"}
  BY DEF IInv, TypeOK, WatchClient, Inotify, Files
<1>2. events' \in BOOLEAN
  BY DEF WatchClient, Inotify
<1>3. TypeOK'
  BY <1>1, <1>2, CollectorAssumption DEF IInv, TypeOK, Versions, WatchClient, Inotify, At, mounted, checks, watching, health
<1>4. Bounded'
  BY CollectorAssumption DEF IInv, TypeOK, Versions, Files, Bounded, UsesHttps, Unread, WatchClient, Inotify, At,
         mounted, checks, watching, health
<1>5. Recorded'
  BY DEF IInv, TypeOK, Versions, Files, Recorded, WatchClient, Inotify, At, mounted, checks,
         watching, health
<1>6. ReadAfterWatch'
  BY DEF IInv, TypeOK, Versions, Files, Bounded, ReadAfterWatch, Unread, Started, UsesHttps,
         WatchClient, Inotify, At, mounted, checks, watching, health
<1>7. Proven'
  BY DEF IInv, TypeOK, Proven, UsesHttps, WatchClient, Inotify, At, mounted, checks,
         watching, health
<1>8. Slept'
  BY CollectorAssumption DEF IInv, TypeOK, Slept, HeldUp, AtMe, AtParse, Unread, Linux, UsesHttps, Bounded, WatchClient,
         Inotify, At, mounted, checks, watching, health
<1>9. Patience'
  BY CollectorAssumption DEF IInv, TypeOK, Patience, Overdue, NoConfiguration, WatchClient, Inotify, At, mounted, checks,
         watching, health
<1> QED
  BY <1>3, <1>4, <1>5, <1>6, <1>7, <1>8, <1>9 DEF IInv

\* The end of the start.
LEMMA Serves ==
    ASSUME IInv, Serve
    PROVE  IInv'
<1>1. procs' \subseteq Process
  BY DEF IInv, TypeOK, Serve, Process
<1>2. watches' \subseteq Files \cup {"token"}
  BY DEF IInv, TypeOK, Serve, watching
<1>2a. mdsdEvents' \in BOOLEAN /\ pc' = "serving"
  BY DEF Serve
<1>3. TypeOK'
  BY <1>1, <1>2, <1>2a, CollectorAssumption DEF IInv, TypeOK, Versions, Serve, mounted, checks, watching, health
<1>4. Bounded'
  BY CollectorAssumption DEF IInv, TypeOK, Versions, Files, Bounded, UsesHttps, Unread, Serve, At, mounted,
         checks, watching, health
<1>5. Recorded'
  BY DEF IInv, TypeOK, Versions, Files, Recorded, Serve, At, mounted, checks, watching,
         health
<1>6. ReadAfterWatch'
  BY DEF IInv, TypeOK, Versions, Files, Bounded, ReadAfterWatch, Unread, Started, UsesHttps,
         Serve, At, mounted, checks, watching, health
<1>7. Proven'
  BY DEF IInv, TypeOK, Proven, UsesHttps, Serve, At, mounted, checks, watching, health
<1>8. Slept'
  BY CollectorAssumption DEF IInv, TypeOK, Slept, HeldUp, AtMe, AtParse, Unread, Linux, UsesHttps, Bounded, Serve, At,
         mounted, checks, watching, health
<1>9. Patience'
  BY CollectorAssumption DEF IInv, TypeOK, Patience, Overdue, NoConfiguration, Serve, At, mounted, checks, watching,
         health
<1> QED
  BY <1>3, <1>4, <1>5, <1>6, <1>7, <1>8, <1>9 DEF IInv

\* The Windows watcher stores a hash of what is mounted.
LEMMA HashType ==
    ASSUME TypeOK, CheckForFilesystemChanges
    PROVE  hash' \in [settings : 0..MaxChanges, token : 0..2, set : BOOLEAN]
<1>1. now["settings"] \in 0..MaxChanges /\ token \in 0..2
  BY DEF TypeOK, Versions, Files
<1>2. TRUE \in BOOLEAN
  OBVIOUS
<1> QED
  BY <1>1, <1>2, Zenon DEF CheckForFilesystemChanges

\* The metrics extension, which may end main.
LEMMA StartsMetricsExtension ==
    ASSUME IInv, NEW ok \in BOOLEAN, ok \/ changes > 0, StartMetricsExtension(ok)
    PROVE  IInv'
<1>1. CASE ok \/ kind.ccp
  <2>1. procs' \subseteq Process
    BY <1>1 DEF IInv, TypeOK, StartMetricsExtension, Process
  <2>2. hash' \in [settings : 0..MaxChanges, token : 0..2, set : BOOLEAN]
    BY <1>1, HashType DEF IInv, TypeOK, StartMetricsExtension
  <2>3. winEvents' \in BOOLEAN
    BY <1>1 DEF IInv, TypeOK, StartMetricsExtension, CheckForFilesystemChanges
  <2>4. TypeOK'
    BY <1>1, <2>1, <2>2, <2>3, CollectorAssumption DEF IInv, TypeOK, Versions, StartMetricsExtension, CheckForFilesystemChanges, At, Linux,
         mounted, checks, watching, health
  <2>5. Bounded'
    BY <1>1, CollectorAssumption DEF IInv, TypeOK, Versions, Files, Bounded, UsesHttps, Unread, StartMetricsExtension,
         CheckForFilesystemChanges, At, Linux, mounted, checks, watching, health
  <2>6. Recorded'
    BY <1>1 DEF IInv, TypeOK, Versions, Files, Recorded, StartMetricsExtension,
         CheckForFilesystemChanges, At, Linux, mounted, checks, watching, health
  <2>7. ReadAfterWatch'
    BY <1>1 DEF IInv, TypeOK, Versions, Files, Bounded, ReadAfterWatch, Unread, Started, UsesHttps,
         StartMetricsExtension, CheckForFilesystemChanges, At, Linux, mounted, checks,
         watching, health
  <2>8. Proven'
    BY <1>1 DEF IInv, TypeOK, Proven, UsesHttps, StartMetricsExtension, CheckForFilesystemChanges,
         At, Linux, mounted, checks, watching, health
  <2>9. Slept'
    BY <1>1, CollectorAssumption DEF IInv, TypeOK, Slept, HeldUp, AtMe, AtParse, Unread, Linux, UsesHttps, Bounded,
         StartMetricsExtension, CheckForFilesystemChanges, At, mounted, checks, watching,
         health
  <2>10. Patience'
    BY <1>1, CollectorAssumption DEF IInv, TypeOK, Patience, Overdue, NoConfiguration, StartMetricsExtension,
         CheckForFilesystemChanges, At, Linux, mounted, checks, watching, health
  <2> QED
    BY <2>4, <2>5, <2>6, <2>7, <2>8, <2>9, <2>10 DEF IInv
<1>2. CASE ~ (ok \/ kind.ccp)
  <2>1. changes' \in Nat /\ changes' <= changes
    BY <1>2 DEF IInv, TypeOK, StartMetricsExtension
  <2> QED
    BY <1>2, <2>1, Begins DEF StartMetricsExtension
<1> QED
  BY <1>1, <1>2

-----------------------------------------------------------------------------
(* The kubelet and the environment. *)

\* A probe that does not end the container.
LEMMA Probes ==
    ASSUME IInv, healthHandler
    PROVE  IInv'
<1>1. hash' \in [settings : 0..MaxChanges, token : 0..2, set : BOOLEAN]
  BY HashType DEF IInv, TypeOK, healthHandler
<1>2. winEvents' \in BOOLEAN
  BY DEF IInv, TypeOK, healthHandler, CheckForFilesystemChanges
<1>3. fails' \in 0..Threshold
  BY CollectorAssumption DEF IInv, TypeOK, healthHandler
<1>3a. probes' \in 0..PerMinute[kind'.os]
  BY Probed DEF IInv, TypeOK, healthHandler
<1>4. TypeOK'
  BY <1>1, <1>2, <1>3, <1>3a, CollectorAssumption DEF IInv, TypeOK, Versions, healthHandler, CheckForFilesystemChanges, mounted, checks,
         watching, health
<1>5. Bounded'
  BY CollectorAssumption DEF IInv, TypeOK, Versions, Files, Bounded, UsesHttps, Unread, healthHandler,
         CheckForFilesystemChanges, mounted, checks, watching, health
<1>6. Recorded'
  BY DEF IInv, TypeOK, Versions, Files, Recorded, healthHandler, CheckForFilesystemChanges,
         mounted, checks, watching, health
<1>7. ReadAfterWatch'
  BY DEF IInv, TypeOK, Versions, Files, Bounded, ReadAfterWatch, Unread, Started, UsesHttps,
         healthHandler, CheckForFilesystemChanges, mounted, checks, watching, health
<1>8. Proven'
  BY DEF IInv, TypeOK, Proven, UsesHttps, healthHandler, CheckForFilesystemChanges, mounted,
         checks, watching, health
<1>9. Slept'
  BY CollectorAssumption DEF IInv, TypeOK, Slept, HeldUp, AtMe, AtParse, Unread, Linux, UsesHttps, Bounded,
         healthHandler, CheckForFilesystemChanges, mounted, checks, watching, health
<1>10. Patience'
  <2>1. fails' < Threshold
    BY DEF healthHandler
  <2>2. ASSUME NoConfiguration', minutes' > Grace PROVE Overdue' <= fails'
    <3>1. NoConfiguration /\ minutes > Grace /\ ~ ProcessesHealthy
      <4>1. token' = token /\ kind' = kind /\ minutes' = minutes
        BY DEF healthHandler, mounted
      <4>2. NoConfiguration /\ minutes > Grace
        BY <2>2, <4>1 DEF NoConfiguration
      <4> QED
        BY <4>2, CollectorAssumption DEF IInv, TypeOK, ProcessesHealthy
    <3>2. fails' = fails + 1
      <4> DEFINE ok == ProcessesHealthy /\ ~ HasConfigChanged /\ ~ winEvents' /\ IsProcessRunning("otel")
      <4>1. fails' = IF ok THEN 0 ELSE fails + 1
        BY DEF healthHandler
      <4>2. ~ ok
        BY <3>1
      <4> HIDE DEF ok
      <4> QED
        BY <4>1, <4>2
    <3>3. Overdue' = Overdue + 1
      <4> DEFINE base == (minutes - Grace - 1) * PerMinute[kind.os]
      <4>1. base \in Int
        BY Probed, CollectorAssumption DEF IInv, TypeOK
      <4>2. Overdue = base + probes /\ Overdue' = base + probes'
        BY DEF Overdue, healthHandler
      <4>3. probes \in Nat /\ probes' = probes + 1
        BY Probed DEF IInv, TypeOK, healthHandler
      <4> HIDE DEF base
      <4> QED
        BY <4>1, <4>2, <4>3
    <3>4. Overdue \in Int /\ Overdue <= fails /\ fails \in Nat
      BY <3>1, Probed, CollectorAssumption DEF IInv, TypeOK, Patience, Overdue
    <3> QED
      BY <3>2, <3>3, <3>4
  <2> QED
    BY <2>1, <2>2 DEF Patience
<1> QED
  BY <1>4, <1>5, <1>6, <1>7, <1>8, <1>9, <1>10 DEF IInv

\* A minute passes.
LEMMA Ticks ==
    ASSUME IInv, Tick
    PROVE  IInv'
<1>1. TypeOK'
  BY CollectorAssumption DEF IInv, TypeOK, Versions, Tick, mounted, checks, watching, health
<1>2. Bounded'
  BY CollectorAssumption DEF IInv, TypeOK, Versions, Files, Bounded, UsesHttps, Unread, Tick, mounted, checks,
         watching, health
<1>3. Recorded'
  BY DEF IInv, TypeOK, Versions, Files, Recorded, Tick, mounted, checks, watching, health
<1>4. ReadAfterWatch'
  BY DEF IInv, TypeOK, Versions, Files, Bounded, ReadAfterWatch, Unread, Started, UsesHttps,
         Tick, mounted, checks, watching, health
<1>5. Proven'
  BY DEF IInv, TypeOK, Proven, UsesHttps, Tick, mounted, checks, watching, health
<1>6. Slept'
  BY CollectorAssumption DEF IInv, TypeOK, Slept, HeldUp, AtMe, AtParse, Unread, Linux, UsesHttps, Bounded, Tick,
         mounted, checks, watching, health
<1>7. Patience'
  BY CollectorAssumption DEF IInv, TypeOK, Patience, Overdue, NoConfiguration, Tick, mounted, checks, watching, health
<1> QED
  BY <1>1, <1>2, <1>3, <1>4, <1>5, <1>6, <1>7 DEF IInv

\* A mounted file changes.
LEMMA FilesChange ==
    ASSUME IInv, NEW f \in Files, FileChanges(f)
    PROVE  IInv'
<1>1. now' \in Versions
  <2>1. now[f] \in Nat /\ now[f] + 1 \in 0..MaxChanges
    BY CollectorAssumption DEF IInv, TypeOK, Bounded, Versions, FileChanges, Spend
  <2> QED
    BY <2>1 DEF IInv, TypeOK, Versions, FileChanges
<1>2. events' \in BOOLEAN
  BY DEF IInv, TypeOK, FileChanges
<1>3. TypeOK'
  BY <1>1, <1>2, CollectorAssumption DEF IInv, TypeOK, Versions, FileChanges, Spend, mounted, checks, watching, health
<1>4. Bounded'
  BY CollectorAssumption DEF IInv, TypeOK, Versions, Files, Bounded, UsesHttps, Unread, FileChanges, Spend,
         mounted, checks, watching, health
<1>5. Recorded'
  BY DEF IInv, TypeOK, Versions, Files, Recorded, FileChanges, Spend, mounted, checks,
         watching, health
<1>6. ReadAfterWatch'
  BY DEF IInv, TypeOK, Versions, Files, Bounded, ReadAfterWatch, Unread, Started, UsesHttps,
         FileChanges, Spend, mounted, checks, watching, health
<1>7. Proven'
  BY DEF IInv, TypeOK, Proven, UsesHttps, FileChanges, Spend, mounted, checks, watching,
         health
<1>8. Slept'
  BY CollectorAssumption DEF IInv, TypeOK, Slept, HeldUp, AtMe, AtParse, Unread, Linux, UsesHttps, Bounded, FileChanges,
         Spend, mounted, checks, watching, health
<1>9. Patience'
  BY CollectorAssumption DEF IInv, TypeOK, Patience, Overdue, NoConfiguration, FileChanges, Spend, mounted, checks,
         watching, health
<1> QED
  BY <1>3, <1>4, <1>5, <1>6, <1>7, <1>8, <1>9 DEF IInv

\* TokenConfig.json appears or changes.
LEMMA TokenComes ==
    ASSUME IInv, TokenArrives
    PROVE  IInv'
<1>1. mdsdEvents' \in BOOLEAN
  BY DEF IInv, TypeOK, TokenArrives
<1>2. TypeOK'
  BY <1>1, CollectorAssumption DEF IInv, TypeOK, Versions, TokenArrives, Spend, mounted, checks, watching, health
<1>3. Bounded'
  BY CollectorAssumption DEF IInv, TypeOK, Versions, Files, Bounded, UsesHttps, Unread, TokenArrives, Spend,
         mounted, checks, watching, health
<1>4. Recorded'
  BY DEF IInv, TypeOK, Versions, Files, Recorded, TokenArrives, Spend, mounted, checks,
         watching, health
<1>5. ReadAfterWatch'
  BY DEF IInv, TypeOK, Versions, Files, Bounded, ReadAfterWatch, Unread, Started, UsesHttps,
         TokenArrives, Spend, mounted, checks, watching, health
<1>6. Proven'
  BY DEF IInv, TypeOK, Proven, UsesHttps, TokenArrives, Spend, mounted, checks, watching,
         health
<1>7. Slept'
  BY CollectorAssumption DEF IInv, TypeOK, Slept, HeldUp, AtMe, AtParse, Unread, Linux, UsesHttps, Bounded, TokenArrives,
         Spend, mounted, checks, watching, health
<1>8. Patience'
  BY CollectorAssumption DEF IInv, TypeOK, Patience, Overdue, NoConfiguration, TokenArrives, Spend, mounted, checks,
         watching, health
<1> QED
  BY <1>2, <1>3, <1>4, <1>5, <1>6, <1>7, <1>8 DEF IInv

\* The adapter and the allocator come and go.
LEMMA PeersChange ==
    ASSUME IInv, PeerChanges
    PROVE  IInv'
<1>1. allocator' \in Answers
  BY DEF IInv, TypeOK, PeerChanges
<1>2. TypeOK'
  BY <1>1, CollectorAssumption DEF IInv, TypeOK, Versions, PeerChanges, Spend, mounted, checks, watching, health
<1>3. Bounded'
  BY CollectorAssumption DEF IInv, TypeOK, Versions, Files, Bounded, UsesHttps, Unread, PeerChanges, Spend,
         mounted, checks, watching, health
<1>4. Recorded'
  BY DEF IInv, TypeOK, Versions, Files, Recorded, PeerChanges, Spend, mounted, checks,
         watching, health
<1>5. ReadAfterWatch'
  BY DEF IInv, TypeOK, Versions, Files, Bounded, ReadAfterWatch, Unread, Started, UsesHttps,
         PeerChanges, Spend, mounted, checks, watching, health
<1>6. Proven'
  BY DEF IInv, TypeOK, Proven, UsesHttps, PeerChanges, Spend, mounted, checks, watching,
         health
<1>7. Slept'
  BY CollectorAssumption DEF IInv, TypeOK, Slept, HeldUp, AtMe, AtParse, Unread, Linux, UsesHttps, Bounded, PeerChanges,
         Spend, mounted, checks, watching, health
<1>8. Patience'
  BY CollectorAssumption DEF IInv, TypeOK, Patience, Overdue, NoConfiguration, PeerChanges, Spend, mounted, checks,
         watching, health
<1> QED
  BY <1>2, <1>3, <1>4, <1>5, <1>6, <1>7, <1>8 DEF IInv

\* A process dies.
LEMMA ProcessesDie ==
    ASSUME IInv, NEW p \in Process, ProcessDies(p)
    PROVE  IInv'
<1>1. TypeOK'
  BY CollectorAssumption DEF IInv, TypeOK, Versions, ProcessDies, Spend, mounted, checks, watching, health
<1>2. Bounded'
  BY CollectorAssumption DEF IInv, TypeOK, Versions, Files, Bounded, UsesHttps, Unread, ProcessDies, Spend,
         mounted, checks, watching, health
<1>3. Recorded'
  BY DEF IInv, TypeOK, Versions, Files, Recorded, ProcessDies, Spend, mounted, checks,
         watching, health
<1>4. ReadAfterWatch'
  BY DEF IInv, TypeOK, Versions, Files, Bounded, ReadAfterWatch, Unread, Started, UsesHttps,
         ProcessDies, Spend, mounted, checks, watching, health
<1>5. Proven'
  BY DEF IInv, TypeOK, Proven, UsesHttps, ProcessDies, Spend, mounted, checks, watching,
         health
<1>6. Slept'
  BY CollectorAssumption DEF IInv, TypeOK, Slept, HeldUp, AtMe, AtParse, Unread, Linux, UsesHttps, Bounded, ProcessDies,
         Spend, mounted, checks, watching, health
<1>7. Patience'
  BY CollectorAssumption DEF IInv, TypeOK, Patience, Overdue, NoConfiguration, ProcessDies, Spend, mounted, checks,
         watching, health
<1> QED
  BY <1>1, <1>2, <1>3, <1>4, <1>5, <1>6, <1>7 DEF IInv

\* A step of somebody else.
LEMMA Stutters ==
    ASSUME IInv, UNCHANGED vars
    PROVE  IInv'
<1>1. TypeOK'
  BY CollectorAssumption DEF IInv, TypeOK, Versions, vars, mounted, checks, watching, health
<1>2. Bounded'
  BY CollectorAssumption DEF IInv, TypeOK, Versions, Files, Bounded, UsesHttps, Unread, vars, mounted, checks,
         watching, health
<1>3. Recorded'
  BY DEF IInv, TypeOK, Versions, Files, Recorded, vars, mounted, checks, watching, health
<1>4. ReadAfterWatch'
  BY DEF IInv, TypeOK, Versions, Files, Bounded, ReadAfterWatch, Unread, Started, UsesHttps,
         vars, mounted, checks, watching, health
<1>5. Proven'
  BY DEF IInv, TypeOK, Proven, UsesHttps, vars, mounted, checks, watching, health
<1>6. Slept'
  BY CollectorAssumption DEF IInv, TypeOK, Slept, HeldUp, AtMe, AtParse, Unread, Linux, UsesHttps, Bounded, vars,
         mounted, checks, watching, health
<1>7. Patience'
  BY CollectorAssumption DEF IInv, TypeOK, Patience, Overdue, NoConfiguration, vars, mounted, checks, watching, health
<1> QED
  BY <1>1, <1>2, <1>3, <1>4, <1>5, <1>6, <1>7 DEF IInv

-----------------------------------------------------------------------------
(* The theorems. *)

\* A spent change leaves the budget a natural number.
LEMMA Spending ==
    ASSUME TypeOK, changes > 0, changes' = changes - 1
    PROVE  changes' \in Nat /\ changes' <= changes
BY DEF TypeOK

\* The inductive invariant, step by step.
LEMMA InvariantStep ==
    ASSUME IInv, [Next]_vars
    PROVE  IInv'
<1>1. CASE WatchSettings \/ WatchCerts
  BY <1>1, Watches
<1>2. CASE ConfigureEnvironment
  <2>1. CASE ~ kind.ccp /\ kind.proxy = "bare"
    BY <1>2, <2>1, Begins DEF ConfigureEnvironment, Restart, IInv, TypeOK
  <2>2. CASE ~ (~ kind.ccp /\ kind.proxy = "bare")
    <3>1. TypeOK'
      BY <1>2, <2>2, CollectorAssumption DEF IInv, TypeOK, Versions, ConfigureEnvironment, At, mounted, checks, watching, health
    <3>2. Bounded'
      BY <1>2, <2>2, CollectorAssumption DEF IInv, TypeOK, Versions, Files, Bounded, UsesHttps, Unread, ConfigureEnvironment, At,
         mounted, checks, watching, health
    <3>3. Recorded'
      BY <1>2, <2>2 DEF IInv, TypeOK, Versions, Files, Recorded, ConfigureEnvironment, At, mounted, checks,
         watching, health
    <3>4. ReadAfterWatch'
      BY <1>2, <2>2 DEF IInv, TypeOK, Versions, Files, Bounded, ReadAfterWatch, Unread, Started, UsesHttps,
         ConfigureEnvironment, At, mounted, checks, watching, health
    <3>5. Proven'
      BY <1>2, <2>2 DEF IInv, TypeOK, Proven, UsesHttps, ConfigureEnvironment, At, mounted, checks,
         watching, health
    <3>6. Slept'
      BY <1>2, <2>2, CollectorAssumption DEF IInv, TypeOK, Slept, HeldUp, AtMe, AtParse, Unread, Linux, UsesHttps, Bounded,
         ConfigureEnvironment, At, mounted, checks, watching, health
    <3>7. Patience'
      BY <1>2, <2>2, CollectorAssumption DEF IInv, TypeOK, Patience, Overdue, NoConfiguration, ConfigureEnvironment, At, mounted, checks,
         watching, health
    <3> QED
      BY <3>1, <3>2, <3>3, <3>4, <3>5, <3>6, <3>7 DEF IInv
  <2> QED
    BY <2>1, <2>2
<1>3. CASE ReadSettings
  BY <1>3, Reads
<1>4. CASE WaitForTokenAdapter
  BY <1>4, Waits
<1>5. CASE StartMdsd(TRUE)
  BY <1>5, StartsMdsd
<1>6. CASE StartMetricsExtension(TRUE)
  BY <1>6, StartsMetricsExtension
<1>7. CASE LookForCa
  BY <1>7, LooksForCa
<1>8. CASE PingAllocator
  BY <1>8, Pings
<1>8a. CASE AwaitAllocator
  BY <1>8a, Awaits
<1>9. CASE StartCollector(TRUE, TRUE)
  BY <1>9, StartsCollector
<1>10. CASE WatchClient
  BY <1>10, WatchesClient
<1>11. CASE Serve
  BY <1>11, Serves
<1>12. CASE healthHandler
  BY <1>12, Probes
<1>13. CASE LastProbe \/ KilledStarting \/ RewritePanics
  BY <1>13, Begins DEF LastProbe, KilledStarting, RewritePanics, Restart, IInv, TypeOK
<1>14. CASE Tick
  BY <1>14, Ticks
<1>15. CASE StartFails
  BY <1>15, StartsMdsd, StartsMetricsExtension, StartsCollector DEF StartFails
<1>16. CASE \E f \in Files : FileChanges(f)
  BY <1>16, FilesChange
<1>17. CASE TokenArrives
  BY <1>17, TokenComes
<1>18. CASE PeerChanges
  BY <1>18, PeersChange
<1>19. CASE \E p \in Process : ProcessDies(p)
  BY <1>19, ProcessesDie
<1>20. CASE handleShutdown
  BY <1>20, Begins, Spending DEF handleShutdown, Spend, IInv
<1>21. CASE UNCHANGED vars
  BY <1>21, Stutters
<1> QED
  BY <1>1, <1>2, <1>3, <1>4, <1>5, <1>6, <1>7, <1>8, <1>8a, <1>9, <1>10, <1>11, <1>12, <1>13, <1>14,
     <1>15, <1>16, <1>17, <1>18, <1>19, <1>20, <1>21 DEF Next, Start, Kubelet, Environment

\* Whatever main, the kubelet and the environment do, the inductive invariant of the
\* supervisor holds.
THEOREM Inductive == Spec => []IInv
<1>1. Init => IInv
  <2> SUFFICES ASSUME Init PROVE IInv
    OBVIOUS
  <2>1. hash \in [settings : 0..MaxChanges, token : 0..2, set : BOOLEAN]
    BY CollectorAssumption DEF Init, NoHash
  <2>2. now \in Versions
    BY CollectorAssumption DEF Init, Versions
  <2>3. /\ removeHttps \in BOOLEAN /\ proven \in BOOLEAN
        /\ events \in BOOLEAN /\ mdsdEvents \in BOOLEAN /\ winEvents \in BOOLEAN
    BY DEF Init
  <2>3a. minutes \in 0..(Grace + Threshold + 1) /\ probes \in 0..PerMinute[kind.os] /\ fails \in 0..Threshold
    BY CollectorAssumption DEF Init, Kind
  <2>4. TypeOK
    BY <2>1, <2>2, <2>3, <2>3a, CollectorAssumption DEF Init, TypeOK, Linux
  <2>5. Bounded /\ Recorded
    BY CollectorAssumption DEF Init, Bounded, Recorded, NoHash, Unread, Linux, Files, UsesHttps
  <2>6. ReadAfterWatch /\ Proven /\ Slept /\ Patience
    BY CollectorAssumption
    DEF Init, ReadAfterWatch, Proven, Slept, Patience, Unread, Started, Linux, NoConfiguration
  <2> QED
    BY <2>4, <2>5, <2>6 DEF IInv
<1>2. IInv /\ [Next]_vars => IInv'
  BY InvariantStep
<1> QED
  BY <1>1, <1>2, PTL DEF Spec

\* Type correctness of the supervisor for every choice of containers and bounds.
THEOREM TypeCorrect == Spec => []TypeOK
<1>1. IInv => TypeOK
  BY DEF IInv
<1> QED
  BY <1>1, Inductive, PTL

\* A serving container that runs with files other than the mounted ones has the line
\* that restarts it, unless it uses HTTPS and the output file was truncated after
\* they were read.
THEOREM ChangesAreNoticed == Spec => []Noticed
<1>1. IInv => Noticed
  <2> SUFFICES ASSUME IInv, pc = "serving", Linux, NEW f \in Files \cap watches,
                      seen[f] # now[f], ~ events
               PROVE  UsesHttps /\ since[f] > seen[f]
    BY DEF Noticed
  <2>1. now[f] = since[f]
    BY DEF IInv, Recorded
  <2>2. since[f] > seen[f]
    BY <2>1 DEF IInv, TypeOK, Versions, Files, Bounded
  <2>3. UsesHttps
    BY <2>2 DEF IInv, TypeOK, Versions, Files, ReadAfterWatch, Started
  <2> QED
    BY <2>2, <2>3
<1> QED
  BY <1>1, Inductive, PTL

\* The collector uses HTTPS only after the allocator has answered over HTTPS.
THEOREM HttpsIsProven == Spec => []HttpsProven
<1>1. IInv => HttpsProven
  BY DEF IInv, Proven, HttpsProven
<1> QED
  BY <1>1, Inductive, PTL

\* The kubelet never ends a start that others have held up for less than the time
\* its kind of container can spare.
THEOREM SleepsFit == Spec => []StartsInTime
<1>1. IInv => StartsInTime
  BY CollectorAssumption
  DEF IInv, TypeOK, Kind, OS, Bounded, Slept, HeldUp, AtMe, AtParse, Unread, Linux, UsesHttps,
      KillAt, ReplicasetPatience, DaemonsetPatience, WindowsPatience, CcpPatience, Spare, StartsInTime
<1> QED
  BY <1>1, Inductive, PTL

\* Past the grace a missing configuration survives fewer than Threshold probes, at
\* any rate of probes.
THEOREM GraceIsBounded == Spec => []GraceBounded
<1>1. IInv => GraceBounded
  BY CollectorAssumption DEF IInv, TypeOK, Kind, Patience, Overdue, GraceBounded
<1> QED
  BY <1>1, Inductive, PTL
=============================================================================
