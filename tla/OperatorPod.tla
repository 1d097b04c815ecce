------------------------------ MODULE OperatorPod ------------------------------
(***************************************************************************)
(* The operator-targets pod: the configuration reader                      *)
(* (configuration-reader-builder/main.go) and the target allocator beside  *)
(* it.  Neither signals the other.  A changed configmap makes the reader's *)
(* /health fail until the kubelet restarts the reader, which parses the    *)
(* settings and rewrites targetallocator.yaml; then the reader makes the   *)
(* allocator's /health-ta fail for a window of 60 s, and the kubelet       *)
(* restarts the allocator, which reads the file when it starts.            *)
(*                                                                         *)
(* Whether a change arrives is a matter of time, so time is modelled.  One *)
(* tick is the 15 s period of both liveness probes; every container whose  *)
(* initial delay is over is probed once per tick, in any order with the    *)
(* other steps of that instant.                                            *)
(***************************************************************************)
EXTENDS Integers

CONSTANTS
    Https,        \* AZMON_OPERATOR_HTTPS_ENABLED
    Window,       \* how long /health-ta fails after a write: 60 s, 4 ticks
    CertSleep,    \* the sleep before the certificate watches: 90 s, 6 ticks
    TADelay,      \* the allocator's initialDelaySeconds: 60 s, 4 ticks
    ReaderDelay,  \* the reader's initialDelaySeconds: 120 s, 8 ticks
    Threshold,    \* the failureThreshold of both probes
    MaxLag,       \* bound: ticks until a written secret is in the pod's volume
    MaxVersion,   \* bound: versions of the settings
    MaxUpsets     \* bound: crashes, failures, stalls and unanswered calls

ASSUME OperatorPodAssumption ==
    /\ Https \in BOOLEAN
    /\ {Window, CertSleep, TADelay, ReaderDelay, Threshold, MaxVersion} \subseteq Nat \ {0}
    /\ Threshold < Window /\ Window <= CertSleep /\ Window <= TADelay
    /\ MaxLag \in Nat /\ MaxLag < CertSleep
    /\ MaxUpsets \in Nat

NoFile == 0       \* targetallocator.yaml does not exist
Truncated == -1   \* os.WriteFile has emptied it and not written it yet
None == -1        \* no time: the zero time.Time, or nothing under way

VARIABLES
    settings,  \* the version of the configmaps mounted in the pod
    reader,    \* the reader container
    tls,       \* httpsEnabled in the reader's main
    old,       \* the reader has run for more than five months
    inotify,   \* the reader's inotify daemons that watch, and output files not empty
    since,     \* taLivenessStartTime, in ticks ago; None: taConfigUpdated is FALSE
    file,      \* the version in targetallocator.yaml, which both containers mount
    fileTls,   \* the file enables HTTPS
    lag,       \* ticks since the secrets were written, None: the volumes are current
    mounted,   \* the certificates are in the volumes
    ta,        \* the allocator container
    probed,    \* the containers the kubelet has probed in this tick
    upsets,
    history    \* why the allocator may keep an old configuration, and whether it
               \* started after the last write

secrets == <<lag, mounted>>
files == <<file, fileTls>>
vars == <<settings, reader, tls, old, inotify, since, files, secrets, ta, probed, upsets,
          history>>

Starting == {"parse", "certs", "retry", "truncate", "fill"}

TypeOK ==
    /\ settings \in 1..MaxVersion
    /\ reader \in [phase : {"down", "sleep", "serve"} \cup Starting, parsed : 0..MaxVersion,
                   slept : 0..CertSleep, age : 0..ReaderDelay, fails : 0..(Threshold - 1)]
    /\ tls \in BOOLEAN /\ old \in BOOLEAN
    /\ inotify \subseteq {"watch", "changed", "taCertWatch", "taCertChanged",
                          "certWatch", "certChanged"}
    /\ since \in None..Window
    /\ file \in Truncated..MaxVersion /\ fileTls \in BOOLEAN
    /\ lag \in None..MaxLag /\ mounted \in BOOLEAN
    /\ ta \in [phase : {"down", "start", "run"}, conf : Truncated..MaxVersion,
               age : 0..TADelay, fails : 0..(Threshold - 1)]
    /\ probed \subseteq {"reader", "ta"}
    /\ upsets \in 0..MaxUpsets
    /\ history \subseteq {"unwatched", "missed", "after"}

Init ==
    /\ settings = 1
    /\ reader = [phase |-> "down", parsed |-> 0, slept |-> 0, age |-> 0, fails |-> 0]
    /\ tls = TRUE /\ old = FALSE
    /\ inotify = {}
    /\ since = None
    /\ file = NoFile /\ fileTls = FALSE
    /\ lag = None /\ mounted = FALSE
    /\ ta = [phase |-> "down", conf |-> NoFile, age |-> 0, fails |-> 0]
    /\ probed = {}
    /\ upsets = 0
    /\ history = {}

Upset == upsets < MaxUpsets /\ upsets' = upsets + 1

(***************************************************************************)
(* The configuration reader.                                               *)
(***************************************************************************)

\* A new container: an empty inotify output file, globals at their zero values,
\* and the inotify daemon started but not yet watching.
ReaderStart ==
    /\ reader.phase = "down"
    /\ reader' = [phase |-> "parse", parsed |-> 0, slept |-> 0, age |-> 0, fails |-> 0]
    /\ tls' = TRUE /\ old' = FALSE
    /\ inotify' = {}
    /\ since' = None
    /\ history' = history \ {"unwatched"}
    /\ UNCHANGED <<settings, files, secrets, ta, probed, upsets>>

\* The daemon sets up its watch, concurrently with the rest of main.
WatchSettings ==
    /\ reader.phase # "down" /\ "watch" \notin inotify
    /\ inotify' = inotify \cup {"watch"}
    /\ UNCHANGED <<settings, reader, tls, old, since, files, secrets, ta, probed, upsets,
                   history>>

Configmapparser ==
    /\ reader.phase = "parse"
    /\ reader' = [reader EXCEPT !.parsed = settings,
                                !.phase = IF Https THEN "certs" ELSE "truncate"]
    /\ UNCHANGED <<settings, tls, old, inotify, since, files, secrets, ta, probed, upsets,
                   history>>

\* Creating or updating both secrets.  An attempt that fails may have written one.
GenerateSecrets(ok) ==
    IF ok THEN lag' = 0 /\ UNCHANGED upsets
          ELSE lag' \in {lag, 0} /\ Upset

\* The certificates and their secrets, with one retry; then main goes on without TLS.
CreateTLSCertificatesAndSecret(ok) ==
    /\ reader.phase \in {"certs", "retry"}
    /\ reader' = [reader EXCEPT
         !.phase = IF ok \/ reader.phase = "retry" THEN "truncate" ELSE "retry"]
    /\ tls' = (ok \/ reader.phase = "certs")
    /\ GenerateSecrets(ok)
    /\ UNCHANGED <<settings, old, inotify, since, files, mounted, ta, probed, history>>

\* updateTAConfigFile: os.WriteFile first empties the file...
TruncateTAConfig ==
    /\ reader.phase = "truncate"
    /\ reader' = [reader EXCEPT !.phase = "fill"]
    /\ file' = Truncated /\ fileTls' = FALSE
    /\ UNCHANGED <<settings, tls, old, inotify, since, secrets, ta, probed, upsets, history>>

\* TRUE: the running allocator is so young that the probes which must fail for
\* it to be restarted are not all due before /health-ta recovers, or does not
\* serve /metrics yet, which /health-ta reports as healthy.
StartedTooLate(withTls) ==
    /\ ta.phase # "down"
    /\ \/ ta.age < TADelay + Threshold - (IF withTls THEN CertSleep ELSE Window)
       \/ ta.phase = "start" /\ ~withTls

\* ...and then writes it, and the window in which /health-ta fails begins.
\* With TLS, the watch of the server certificate for the allocator starts here
\* and the sleep begins, before anything listens on the probes' port.
UpdateTAConfigFile ==
    /\ reader.phase = "fill"
    /\ file' = reader.parsed /\ fileTls' = (Https /\ tls)
    /\ reader' = [reader EXCEPT !.phase = IF fileTls' THEN "sleep" ELSE "serve"]
    /\ inotify' = inotify \cup (IF fileTls' THEN {"taCertWatch"} ELSE {})
    /\ since' = 0
    /\ history' = (history \ {"missed", "after"})
                    \cup (IF StartedTooLate(fileTls') THEN {"missed"} ELSE {})
    /\ UNCHANGED <<settings, tls, old, secrets, ta, probed, upsets>>

\* Fault: sleeps the 10 seconds of the comment beside it.
ListenAndServeEarly ==
    /\ reader.phase = "sleep" /\ reader.slept = 1
    /\ reader' = [reader EXCEPT !.phase = "serve"]
    /\ inotify' = inotify \cup {"certWatch"}
    /\ UNCHANGED <<settings, tls, old, since, files, secrets, ta, probed, upsets, history>>

\* After the sleep the certificate watches of the reader itself start.
ListenAndServe ==
    /\ reader.phase = "sleep" /\ reader.slept = CertSleep
    /\ reader' = [reader EXCEPT !.phase = "serve"]
    /\ inotify' = inotify \cup {"certWatch"}
    /\ UNCHANGED <<settings, tls, old, since, files, secrets, ta, probed, upsets, history>>

\* log.Fatal, or the container is killed from outside.
ReaderCrash ==
    /\ reader.phase # "down" /\ Upset
    /\ reader' = [reader EXCEPT !.phase = "down"]
    /\ UNCHANGED <<settings, tls, old, inotify, since, files, secrets, ta, probed, history>>

\* The container has run for more than five months.
ReaderAges ==
    /\ Https /\ reader.phase = "serve" /\ ~old /\ Upset
    /\ old' = TRUE
    /\ UNCHANGED <<settings, reader, tls, inotify, since, files, secrets, ta, probed, history>>

(***************************************************************************)
(* The target allocator.                                                   *)
(***************************************************************************)

\* It exits at once without a file, or without the certificates the file names.
\* An emptied file is a valid one: the CR watcher is enabled by a flag.
TAStart ==
    /\ ta.phase = "down" /\ file # NoFile
    /\ fileTls => mounted
    /\ ta' = [phase |-> "start", conf |-> file, age |-> 0, fails |-> 0]
    /\ history' = (history \ {"missed"}) \cup {"after"}
    /\ UNCHANGED <<settings, reader, tls, old, inotify, since, files, secrets, probed, upsets>>

TAServe ==
    /\ ta.phase = "start"
    /\ ta' = [ta EXCEPT !.phase = "run"]
    /\ UNCHANGED <<settings, reader, tls, old, inotify, since, files, secrets, probed, upsets,
                   history>>

TACrash ==
    /\ ta.phase # "down" /\ Upset
    /\ ta' = [ta EXCEPT !.phase = "down"]
    /\ UNCHANGED <<settings, reader, tls, old, inotify, since, files, secrets, probed,
                   history>>

(***************************************************************************)
(* The cluster and the kubelet.                                            *)
(***************************************************************************)

\* An event of the watched directory: its daemon, if any, writes a line.
Notified(daemon, output) == IF daemon \in inotify THEN {output} ELSE {}

\* New settings in the volume.  Without a watch they are noticed only if they
\* have not been parsed yet.
ChangeSettings ==
    /\ settings < MaxVersion
    /\ settings' = settings + 1
    /\ inotify' = inotify \cup Notified("watch", "changed")
    /\ history' = IF "watch" \in inotify \/ reader.phase \in {"down", "parse"}
                  THEN history ELSE history \cup {"unwatched"}
    /\ UNCHANGED <<reader, tls, old, since, files, secrets, ta, probed, upsets>>

MountSecrets ==
    /\ lag # None
    /\ lag' = None /\ mounted' = TRUE
    /\ inotify' = inotify \cup Notified("taCertWatch", "taCertChanged")
                          \cup Notified("certWatch", "certChanged")
    /\ UNCHANGED <<settings, reader, tls, old, since, files, ta, probed, upsets, history>>

\* The container after a probe: the kubelet kills it at the threshold.
Probe(c, healthy) ==
    IF healthy THEN [c EXCEPT !.fails = 0]
    ELSE IF c.fails + 1 < Threshold THEN [c EXCEPT !.fails = c.fails + 1]
    ELSE [c EXCEPT !.phase = "down"]

ReaderDue == reader.phase # "down" /\ reader.age = ReaderDelay /\ "reader" \notin probed

\* Fault: empties the output file once reported, as /health-ta does with its own.
HealthHandlerClears ==
    /\ ReaderDue
    /\ reader' = Probe(reader, /\ reader.phase = "serve" /\ ~old
                               /\ inotify \cap {"changed", "certChanged"} = {})
    /\ inotify' = inotify \ {"changed"}
    /\ probed' = probed \cup {"reader"}
    /\ UNCHANGED <<settings, tls, old, since, files, secrets, ta, upsets, history>>

\* /health
HealthHandler ==
    /\ ReaderDue
    /\ reader' = Probe(reader, /\ reader.phase = "serve" /\ ~old
                               /\ inotify \cap {"changed", "certChanged"} = {})
    /\ probed' = probed \cup {"reader"}
    /\ UNCHANGED <<settings, tls, old, inotify, since, files, secrets, ta, upsets, history>>

TADue == ta.phase # "down" /\ ta.age = TADelay /\ "ta" \notin probed

\* Fault: fails for 30 seconds only.
ConfigUpdatedShort == since \in 0..(Window - 3)

\* Fault: never recovers.
ConfigUpdatedForEver == since # None

\* The window in which /health-ta reports the new configuration.
ConfigUpdated == since \in 0..(Window - 1)

\* /health-ta when the allocator's /metrics replies within two seconds.
Answered ==
    /\ reader.phase = "serve" /\ ta.phase = "run"
    /\ ta' = Probe(ta, ~ConfigUpdated /\ "taCertChanged" \notin inotify)
    /\ since' = IF ConfigUpdated THEN since ELSE None
    /\ inotify' = inotify \ {"taCertChanged"}
    /\ UNCHANGED <<history, upsets>>

\* It does not reply: the handler writes nothing, which is a 200.
Unanswered ==
    /\ reader.phase = "serve"
    /\ IF ta.phase = "run" THEN Upset ELSE UNCHANGED upsets
    /\ ta' = Probe(ta, TRUE)
    /\ history' = history \cup (IF ConfigUpdated THEN {"missed"} ELSE {})
    /\ UNCHANGED <<inotify, since>>

\* Nothing listens while the reader is down, starts or sleeps.
Refused ==
    /\ reader.phase # "serve"
    /\ ta' = Probe(ta, FALSE)
    /\ UNCHANGED <<inotify, since, history, upsets>>

TAHealthHandler ==
    /\ TADue
    /\ Answered \/ Unanswered \/ Refused
    /\ probed' = probed \cup {"ta"}
    /\ UNCHANGED <<settings, reader, tls, old, files, secrets>>

AtMost(n, limit) == IF n < limit THEN n ELSE limit

\* Time passes for the containers, the window and the mount.
Elapse ==
    /\ reader' = [reader EXCEPT !.age = AtMost(reader.age + 1, ReaderDelay),
                                !.slept = IF reader.phase = "sleep" THEN reader.slept + 1
                                                                    ELSE reader.slept]
    /\ ta' = [ta EXCEPT !.age = AtMost(ta.age + 1, TADelay)]
    /\ since' = IF since = None THEN None ELSE AtMost(since + 1, Window)
    /\ lag' = IF lag = None THEN None ELSE lag + 1
    /\ probed' = {}
    /\ UNCHANGED <<settings, tls, old, inotify, files, mounted, history>>

\* A period passes, once all probes due have been made and neither the sleep nor
\* the mount is overdue.  The reader's startup takes no time unless it stalls.
Tick ==
    /\ ~ReaderDue /\ ~TADue
    /\ lag < MaxLag
    /\ reader.phase = "sleep" => reader.slept < CertSleep
    /\ IF reader.phase \in Starting THEN Upset ELSE UNCHANGED upsets
    /\ Elapse

ReaderNext ==
    \/ ReaderStart \/ WatchSettings \/ Configmapparser
    \/ \E ok \in BOOLEAN : CreateTLSCertificatesAndSecret(ok)
    \/ TruncateTAConfig \/ UpdateTAConfigFile \/ ListenAndServe
    \/ ReaderCrash \/ ReaderAges

TANext == TAStart \/ TAServe \/ TACrash

KubeNext ==
    \/ ChangeSettings \/ MountSecrets \/ HealthHandler
    \/ TAHealthHandler \/ Tick

Next == ReaderNext \/ TANext \/ KubeNext

Spec == Init /\ [][Next]_vars

\* Programs and the kubelet go on; nothing is assumed of changes and upsets.
FairSpec ==
    /\ Spec
    /\ WF_vars(ReaderStart) /\ WF_vars(WatchSettings) /\ WF_vars(Configmapparser)
    /\ WF_vars(\E ok \in BOOLEAN : CreateTLSCertificatesAndSecret(ok))
    /\ WF_vars(TruncateTAConfig) /\ WF_vars(UpdateTAConfigFile) /\ WF_vars(ListenAndServe)
    /\ WF_vars(TAStart) /\ WF_vars(TAServe)
    /\ WF_vars(MountSecrets) /\ WF_vars(HealthHandler)
    /\ WF_vars(TAHealthHandler) /\ WF_vars(Tick)

(***************************************************************************)
(* Properties.                                                             *)
(***************************************************************************)

\* The allocator runs another configuration than the one in the file.
Stale == ta.phase # "down" /\ ta.conf # file

\* When /health-ta has recovered from reporting a new file (taHealthHandler), no
\* allocator is left with an older one: the probes that failed in the window
\* were enough to restart it, unless it had started too late before the write
\* for that or did not answer one of them.
PickedUp ==
    reader.phase = "serve" /\ ~ConfigUpdated /\ Stale => "missed" \in history

\* The certificates the reader creates when it starts never make it restart:
\* they are mounted before its own watches of them begin, main's sleep
\* outlasting the mount.
OwnCertificatesQuiet == "certChanged" \notin inotify

\* Without TLS, a probe never kills an allocator that started after the last
\* write: its initial delay is no shorter than the window.
FreshIsSpared ==
    []["after" \in history /\ ~fileTls /\ reader.phase = "serve" /\ ta.phase = "run"
         /\ ta'.phase = "down" => upsets' # upsets]_vars

\* In the end the allocator runs the settings that are mounted, unless they
\* changed between their parsing and the start of the watch, or the allocator
\* missed its window.
EventuallyApplied ==
    <>[](\/ ta.phase = "run" /\ ta.conf = settings
         \/ history \cap {"unwatched", "missed"} # {})

\* In the end the allocator runs the file the reader wrote for it ("Updated file
\* - targetallocator.yaml for the TargetAllocator to pick up new config changes",
\* updateTAConfigFile).  An allocator that read the emptied file is left aside.
EventuallyPickedUp ==
    <>[](ta.phase = "run" /\ ta.conf \in {file, Truncated})
=============================================================================
