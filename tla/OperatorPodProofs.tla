-------------------------- MODULE OperatorPodProofs --------------------------
(***************************************************************************)
(* Proofs about OperatorPod: for all delays, windows and thresholds that   *)
(* satisfy OperatorPodAssumption, an allocator that had time to be probed  *)
(* is restarted before /health-ta recovers, and the reader's own           *)
(* certificates do not restart it.                                         *)
(***************************************************************************)
EXTENDS OperatorPod, TLAPS

\* The assumption on the constants, one fact per constant.
LEMMA Constants ==
    /\ Https \in BOOLEAN
    /\ Window \in Nat /\ CertSleep \in Nat /\ TADelay \in Nat
    /\ ReaderDelay \in Nat /\ Threshold \in Nat /\ MaxVersion \in Nat
    /\ MaxLag \in Nat /\ MaxUpsets \in Nat
    /\ 1 <= Threshold /\ 1 <= MaxVersion
    /\ Threshold < Window /\ Window <= CertSleep /\ Window <= TADelay /\ MaxLag < CertSleep
BY OperatorPodAssumption

\* Every state variable stays in its range: the counters of the probes, of the
\* window, of the sleep and of the mount never pass their limits.
THEOREM TypeCorrect == Spec => []TypeOK
<1> USE Constants DEF Starting, NoFile, Truncated, None, files, secrets
<1>1. Init => TypeOK
  <2> SUFFICES ASSUME Init PROVE TypeOK
    OBVIOUS
  <2>1. tls \in BOOLEAN /\ old \in BOOLEAN /\ fileTls \in BOOLEAN /\ mounted \in BOOLEAN
    BY Zenon DEF Init
  <2> QED
    BY <2>1 DEF Init, TypeOK
<1>2. TypeOK /\ [Next]_vars => TypeOK'
  <2> SUFFICES ASSUME TypeOK, [Next]_vars PROVE TypeOK'
    OBVIOUS
  <2> USE DEF TypeOK
  <2>1. CASE ReaderStart
    <3>1. tls' \in BOOLEAN /\ old' \in BOOLEAN /\ fileTls' \in BOOLEAN /\ mounted' \in BOOLEAN
      BY <2>1, Zenon DEF ReaderStart
    <3> QED
      BY <2>1, <3>1 DEF ReaderStart
  <2>2. CASE WatchSettings
    BY <2>2 DEF WatchSettings
  <2>3. CASE Configmapparser
    <3>1. reader'.parsed = settings /\ reader'.phase \in {"certs", "truncate"}
      BY <2>3 DEF Configmapparser
    <3>2. reader' = [phase |-> reader'.phase, parsed |-> settings, slept |-> reader.slept,
                     age |-> reader.age, fails |-> reader.fails]
      BY <2>3 DEF Configmapparser
    <3> HIDE DEF TypeOK
    <3> QED
      BY <2>3, <3>1, <3>2 DEF Configmapparser, TypeOK
  <2>4. ASSUME NEW ok \in BOOLEAN, CreateTLSCertificatesAndSecret(ok) PROVE TypeOK'
    BY <2>4 DEF CreateTLSCertificatesAndSecret, GenerateSecrets, Upset
  <2>5. CASE TruncateTAConfig
    <3>1. tls' \in BOOLEAN /\ old' \in BOOLEAN /\ fileTls' \in BOOLEAN /\ mounted' \in BOOLEAN
      BY <2>5, Zenon DEF TruncateTAConfig
    <3> QED
      BY <2>5, <3>1 DEF TruncateTAConfig
  <2>6. CASE UpdateTAConfigFile
    BY <2>6 DEF UpdateTAConfigFile, StartedTooLate
  <2>7. CASE ListenAndServe
    BY <2>7 DEF ListenAndServe
  <2>8. CASE ReaderCrash
    BY <2>8 DEF ReaderCrash, Upset
  <2>9. CASE ReaderAges
    BY <2>9 DEF ReaderAges, Upset
  <2>10. CASE TAStart
    BY <2>10 DEF TAStart
  <2>11. CASE TAServe
    BY <2>11 DEF TAServe
  <2>12. CASE TACrash
    BY <2>12 DEF TACrash, Upset
  <2>13. CASE ChangeSettings
    BY <2>13 DEF ChangeSettings, Notified
  <2>14. CASE MountSecrets
    BY <2>14 DEF MountSecrets, Notified
  <2>15. CASE HealthHandler
    BY <2>15 DEF HealthHandler, Probe
  <2>16. CASE TAHealthHandler
    BY <2>16 DEF TAHealthHandler, Answered, Unanswered, Refused, Probe, Upset, ConfigUpdated
  <2>17. CASE Tick
    <3>1. /\ AtMost(reader.age + 1, ReaderDelay) \in 0..ReaderDelay
          /\ AtMost(ta.age + 1, TADelay) \in 0..TADelay
          /\ since' \in None..Window /\ lag' \in None..MaxLag
      BY <2>17 DEF Tick, Elapse, AtMost
    <3> DEFINE slept == IF reader.phase = "sleep" THEN reader.slept + 1 ELSE reader.slept
    <3>4. slept \in 0..CertSleep
      BY <2>17 DEF Tick
    <3> HIDE DEF slept
    <3>2. reader' = [phase |-> reader.phase, parsed |-> reader.parsed, slept |-> slept,
                     age |-> AtMost(reader.age + 1, ReaderDelay), fails |-> reader.fails]
      <4>1. reader' = [reader EXCEPT !.age = AtMost(reader.age + 1, ReaderDelay),
                                     !.slept = slept]
        BY <2>17 DEF Tick, Elapse, slept
      <4> QED
        BY <4>1
    <3>3. ta' = [phase |-> ta.phase, conf |-> ta.conf, age |-> AtMost(ta.age + 1, TADelay),
                 fails |-> ta.fails]
      BY <2>17 DEF Tick, Elapse
    <3> QED
      BY <2>17, <3>1, <3>2, <3>3, <3>4 DEF Tick, Elapse, Upset
  <2>18. CASE UNCHANGED vars
    BY <2>18 DEF vars
  <2> QED
    BY <2>1, <2>2, <2>3, <2>4, <2>5, <2>6, <2>7, <2>8, <2>9, <2>10, <2>11, <2>12,
       <2>13, <2>14, <2>15, <2>16, <2>17, <2>18
       DEF Next, ReaderNext, TANext, KubeNext
<1> QED
  BY <1>1, <1>2, PTL DEF Spec
\* Before the window opens nothing of it is left over, and in the sleep it runs
\* with it.
Phases ==
    /\ reader.phase \in Starting =>
         reader.slept = 0 /\ inotify \cap {"taCertWatch", "taCertChanged"} = {}
    /\ reader.phase = "sleep" => fileTls /\ since = AtMost(reader.slept, Window)

\* The probes of the allocator that must fail from now on, and those that have,
\* when they fail until limit ticks have passed, of which spent are over.
Failures(limit, spent) ==
    ta.fails + limit - spent + ta.age - TADelay
      - (IF ta.age = TADelay /\ "ta" \in probed THEN 1 ELSE 0)

\* An allocator with an old file and no excuse has enough failures before it.
Enough ==
    Stale /\ "missed" \notin history =>
      /\ reader.phase = "sleep" => Threshold <= Failures(CertSleep, reader.slept)
      /\ reader.phase = "serve" => /\ ConfigUpdated /\ ta.phase = "run"
                                   /\ Threshold <= Failures(Window, since)

\* The certificates are mounted before the reader's own watch of them starts.
Certificates ==
    /\ "certChanged" \notin inotify
    /\ "certWatch" \in inotify => lag = None /\ reader.phase \in {"serve", "down"}
    /\ reader.phase = "sleep" /\ lag # None => reader.slept <= lag

\* Without TLS, an allocator that started after the write has not failed, and is
\* not older than the window.
Fresh ==
    reader.phase = "serve" /\ ~fileTls =>
      /\ inotify \cap {"taCertWatch", "taCertChanged"} = {}
      /\ "after" \in history /\ ta.phase # "down" =>
           ta.fails = 0 /\ (ConfigUpdated => ta.age <= since)

IInv == TypeOK /\ Phases /\ Enough /\ Certificates /\ Fresh

\* What the theorems rest on: the window leaves room for the probes, and the
\* sleep for the mount, in every reachable state.
LEMMA Inductive == Spec => []IInv
<1> USE Constants DEF Starting, NoFile, Truncated, None, files, secrets
<1>1. Init => Phases /\ Enough /\ Certificates /\ Fresh
  BY DEF Init, Phases, Enough, Stale, Certificates, Fresh
<1>2. IInv /\ TypeOK' /\ [Next]_vars => Phases' /\ Enough' /\ Certificates' /\ Fresh'
  <2> SUFFICES ASSUME TypeOK, TypeOK', Phases, Enough, Certificates, Fresh, [Next]_vars
               PROVE  Phases' /\ Enough' /\ Certificates' /\ Fresh'
    BY DEF IInv
  <2> USE DEF TypeOK
  <2>1. CASE ReaderStart
    <3>1. Phases'
      BY <2>1 DEF ReaderStart, Phases, AtMost
    <3>2. Enough'
      BY <2>1 DEF ReaderStart, Enough, Failures, Stale, ConfigUpdated
    <3>3. Certificates'
      BY <2>1 DEF ReaderStart, Certificates
    <3>4. Fresh'
      BY <2>1 DEF ReaderStart, Fresh, ConfigUpdated
    <3> QED
      BY <3>1, <3>2, <3>3, <3>4
  <2>2. CASE WatchSettings
    <3>1. Phases'
      BY <2>2 DEF WatchSettings, Phases, AtMost
    <3>2. Enough'
      BY <2>2 DEF WatchSettings, Enough, Failures, Stale, ConfigUpdated
    <3>3. Certificates'
      BY <2>2 DEF WatchSettings, Certificates
    <3>4. Fresh'
      BY <2>2 DEF WatchSettings, Fresh, ConfigUpdated
    <3> QED
      BY <3>1, <3>2, <3>3, <3>4
  <2>3. CASE Configmapparser
    <3>1. Phases'
      BY <2>3 DEF Configmapparser, Phases, AtMost
    <3>2. Enough'
      BY <2>3 DEF Configmapparser, Enough, Failures, Stale, ConfigUpdated
    <3>3. Certificates'
      BY <2>3 DEF Configmapparser, Certificates
    <3>4. Fresh'
      BY <2>3 DEF Configmapparser, Fresh, ConfigUpdated
    <3> QED
      BY <3>1, <3>2, <3>3, <3>4
  <2>4. ASSUME NEW ok \in BOOLEAN, CreateTLSCertificatesAndSecret(ok)
        PROVE  Phases' /\ Enough' /\ Certificates' /\ Fresh'
    <3>1. Phases'
      BY <2>4 DEF CreateTLSCertificatesAndSecret, GenerateSecrets, Upset, Phases, AtMost
    <3>2. Enough'
      BY <2>4 DEF CreateTLSCertificatesAndSecret, GenerateSecrets, Upset, Enough,
         Failures, Stale, ConfigUpdated
    <3>3. Certificates'
      BY <2>4 DEF CreateTLSCertificatesAndSecret, GenerateSecrets, Upset, Certificates
    <3>4. Fresh'
      BY <2>4 DEF CreateTLSCertificatesAndSecret, GenerateSecrets, Upset, Fresh,
         ConfigUpdated
    <3> QED
      BY <3>1, <3>2, <3>3, <3>4
  <2>5. CASE TruncateTAConfig
    <3>1. Phases'
      BY <2>5 DEF TruncateTAConfig, Phases, AtMost
    <3>2. Enough'
      BY <2>5 DEF TruncateTAConfig, Enough, Failures, Stale, ConfigUpdated
    <3>3. Certificates'
      BY <2>5 DEF TruncateTAConfig, Certificates
    <3>4. Fresh'
      BY <2>5 DEF TruncateTAConfig, Fresh, ConfigUpdated
    <3> QED
      BY <3>1, <3>2, <3>3, <3>4
  <2>6. CASE UpdateTAConfigFile
    <3>1. Phases'
      BY <2>6 DEF UpdateTAConfigFile, StartedTooLate, Phases, AtMost
    <3>2. Enough'
      BY <2>6 DEF UpdateTAConfigFile, StartedTooLate, Enough, Failures, Stale,
         ConfigUpdated, Phases
    <3>3. Certificates'
      BY <2>6 DEF UpdateTAConfigFile, Certificates, Phases
    <3>4. Fresh'
      BY <2>6 DEF UpdateTAConfigFile, StartedTooLate, Fresh, ConfigUpdated, Phases
    <3> QED
      BY <3>1, <3>2, <3>3, <3>4
  <2>7. CASE ListenAndServe
    <3>1. Phases'
      BY <2>7 DEF ListenAndServe, Phases, AtMost
    <3>2. Enough'
      BY <2>7 DEF ListenAndServe, Enough, Failures, Stale, ConfigUpdated, AtMost, Phases
    <3>3. Certificates'
      BY <2>7 DEF ListenAndServe, Certificates
    <3>4. Fresh'
      BY <2>7 DEF ListenAndServe, Fresh, ConfigUpdated, Phases
    <3> QED
      BY <3>1, <3>2, <3>3, <3>4
  <2>8. CASE ReaderCrash
    <3>1. Phases'
      BY <2>8 DEF ReaderCrash, Phases, AtMost
    <3>2. Enough'
      BY <2>8 DEF ReaderCrash, Enough, Failures, Stale, ConfigUpdated
    <3>3. Certificates'
      BY <2>8 DEF ReaderCrash, Certificates
    <3>4. Fresh'
      BY <2>8 DEF ReaderCrash, Fresh, ConfigUpdated
    <3> QED
      BY <3>1, <3>2, <3>3, <3>4
  <2>9. CASE ReaderAges
    <3>1. Phases'
      BY <2>9 DEF ReaderAges, Phases, AtMost
    <3>2. Enough'
      BY <2>9 DEF ReaderAges, Enough, Failures, Stale, ConfigUpdated
    <3>3. Certificates'
      BY <2>9 DEF ReaderAges, Certificates
    <3>4. Fresh'
      BY <2>9 DEF ReaderAges, Fresh, ConfigUpdated
    <3> QED
      BY <3>1, <3>2, <3>3, <3>4
  <2>10. CASE TAStart
    <3>1. Phases'
      BY <2>10 DEF TAStart, Phases, AtMost
    <3>2. Enough'
      BY <2>10 DEF TAStart, Enough, Failures, Stale, ConfigUpdated
    <3>3. Certificates'
      BY <2>10 DEF TAStart, Certificates
    <3>4. Fresh'
      BY <2>10 DEF TAStart, Fresh, ConfigUpdated
    <3> QED
      BY <3>1, <3>2, <3>3, <3>4
  <2>11. CASE TAServe
    <3>1. Phases'
      BY <2>11 DEF TAServe, Phases, AtMost
    <3>2. Enough'
      BY <2>11 DEF TAServe, Enough, Failures, Stale, ConfigUpdated
    <3>3. Certificates'
      BY <2>11 DEF TAServe, Certificates
    <3>4. Fresh'
      BY <2>11 DEF TAServe, Fresh, ConfigUpdated
    <3> QED
      BY <3>1, <3>2, <3>3, <3>4
  <2>12. CASE TACrash
    <3>1. Phases'
      BY <2>12 DEF TACrash, Phases, AtMost
    <3>2. Enough'
      BY <2>12 DEF TACrash, Enough, Failures, Stale, ConfigUpdated
    <3>3. Certificates'
      BY <2>12 DEF TACrash, Certificates
    <3>4. Fresh'
      BY <2>12 DEF TACrash, Fresh, ConfigUpdated
    <3> QED
      BY <3>1, <3>2, <3>3, <3>4
  <2>13. CASE ChangeSettings
    <3>1. Phases'
      BY <2>13 DEF ChangeSettings, Notified, Phases, AtMost
    <3>2. Enough'
      BY <2>13 DEF ChangeSettings, Notified, Enough, Failures, Stale, ConfigUpdated
    <3>3. Certificates'
      BY <2>13 DEF ChangeSettings, Notified, Certificates
    <3>4. Fresh'
      BY <2>13 DEF ChangeSettings, Notified, Fresh, ConfigUpdated
    <3> QED
      BY <3>1, <3>2, <3>3, <3>4
  <2>14. CASE MountSecrets
    <3>1. Phases'
      BY <2>14 DEF MountSecrets, Notified, Phases, AtMost
    <3>2. Enough'
      BY <2>14 DEF MountSecrets, Notified, Enough, Failures, Stale, ConfigUpdated
    <3>3. Certificates'
      BY <2>14 DEF MountSecrets, Notified, Certificates
    <3>4. Fresh'
      BY <2>14 DEF MountSecrets, Notified, Fresh, ConfigUpdated
    <3> QED
      BY <3>1, <3>2, <3>3, <3>4
  <2>15. CASE HealthHandler
    <3>1. Phases'
      BY <2>15 DEF HealthHandler, Probe, Phases, AtMost
    <3>2. Enough'
      BY <2>15 DEF HealthHandler, Probe, Enough, Failures, Stale, ConfigUpdated
    <3>3. Certificates'
      BY <2>15 DEF HealthHandler, Probe, Certificates
    <3>4. Fresh'
      BY <2>15 DEF HealthHandler, Probe, Fresh, ConfigUpdated
    <3> QED
      BY <3>1, <3>2, <3>3, <3>4
  <2>16. CASE TAHealthHandler
    <3>1. Phases'
      BY <2>16 DEF TAHealthHandler, Answered, Unanswered, Refused, Probe, TADue, Phases,
         AtMost
    <3>2. Enough'
      BY <2>16 DEF TAHealthHandler, Answered, Unanswered, Refused, Probe, TADue, Enough,
         Failures, Stale, ConfigUpdated
    <3>3. Certificates'
      BY <2>16 DEF TAHealthHandler, Answered, Unanswered, Refused, Probe, TADue,
         Certificates
    <3>4. Fresh'
      BY <2>16 DEF TAHealthHandler, Answered, Unanswered, Refused, Probe, TADue, Fresh,
         ConfigUpdated
    <3> QED
      BY <3>1, <3>2, <3>3, <3>4
  <2>17. CASE Tick
    <3>1. Phases'
      BY <2>17 DEF Tick, Elapse, TADue, Phases, AtMost
    <3>2. Enough'
      BY <2>17 DEF Tick, Elapse, TADue, Enough, Failures, Stale, ConfigUpdated, AtMost,
         Phases
    <3>3. Certificates'
      BY <2>17 DEF Tick, Elapse, TADue, Certificates
    <3>4. Fresh'
      BY <2>17 DEF Tick, Elapse, TADue, Fresh, ConfigUpdated, AtMost
    <3> QED
      BY <3>1, <3>2, <3>3, <3>4
  <2>18. CASE UNCHANGED vars
    <3>1. Phases'
      BY <2>18 DEF vars, Phases, AtMost
    <3>2. Enough'
      BY <2>18 DEF vars, Enough, Failures, Stale, ConfigUpdated
    <3>3. Certificates'
      BY <2>18 DEF vars, Certificates
    <3>4. Fresh'
      BY <2>18 DEF vars, Fresh, ConfigUpdated
    <3> QED
      BY <3>1, <3>2, <3>3, <3>4
  <2> QED
    BY <2>1, <2>2, <2>3, <2>4, <2>5, <2>6, <2>7, <2>8, <2>9, <2>10, <2>11, <2>12,
       <2>13, <2>14, <2>15, <2>16, <2>17, <2>18
       DEF Next, ReaderNext, TANext, KubeNext
<1>3. TypeOK /\ Phases /\ Enough /\ Certificates /\ Fresh <=> IInv
  BY DEF IInv
<1> QED
  BY <1>1, <1>2, <1>3, TypeCorrect, PTL DEF Spec

\* When /health-ta has recovered, no allocator that had time to be probed runs an
\* older file than the one the reader wrote (updateTAConfigFile, taHealthHandler).
THEOREM EveryUpdateIsPickedUp == Spec => []PickedUp
<1>1. IInv => PickedUp
  BY DEF IInv, Enough, PickedUp
<1> QED
  BY <1>1, Inductive, PTL

\* The certificates the reader creates never restart it: the sleep of main
\* outlasts their mount.
THEOREM CertificatesDoNotRestart == Spec => []OwnCertificatesQuiet
<1>1. IInv => OwnCertificatesQuiet
  BY DEF IInv, Certificates, OwnCertificatesQuiet
<1> QED
  BY <1>1, Inductive, PTL

\* Without TLS no probe kills an allocator that started after the last write.
THEOREM FreshAllocatorsAreSpared == Spec => FreshIsSpared
<1> DEFINE Killed == /\ "after" \in history /\ ~fileTls /\ reader.phase = "serve"
                     /\ ta.phase = "run" /\ ta'.phase = "down"
<1>1. IInv /\ [Next]_vars => [Killed => upsets' # upsets]_vars
  <2> SUFFICES ASSUME IInv, Next, Killed PROVE upsets' # upsets
    OBVIOUS
  <2>1. TypeOK /\ Fresh
    BY DEF IInv
  <2>2. CASE TACrash
    BY <2>2, <2>1 DEF TACrash, Upset, TypeOK
  <2>3. CASE TAHealthHandler
    <3>1. ta.age = TADelay /\ ta.fails = 0 /\ "taCertChanged" \notin inotify /\ ~ConfigUpdated
      BY <2>1, <2>3, Constants DEF TAHealthHandler, TADue, Fresh, TypeOK, ConfigUpdated
    <3>2. ta' = Probe(ta, TRUE)
      BY <3>1, <2>3 DEF TAHealthHandler, Answered, Unanswered, Refused
    <3> QED
      BY <3>2, <2>1 DEF Probe, TypeOK
  <2>4. CASE Tick
    BY <2>4, <2>1 DEF Tick, Elapse, TypeOK
  <2>5. CASE TAStart \/ TAServe
    BY <2>5, <2>1 DEF TAStart, TAServe, TypeOK
  <2>6. CASE UNCHANGED ta
    BY <2>6
  <2>7. CASE ReaderNext \/ ChangeSettings \/ MountSecrets \/ HealthHandler
    BY <2>6, <2>7 DEF ReaderNext, ReaderStart, WatchSettings, Configmapparser,
       CreateTLSCertificatesAndSecret, TruncateTAConfig, UpdateTAConfigFile, ListenAndServe,
       ReaderCrash, ReaderAges, ChangeSettings, MountSecrets, HealthHandler
  <2> QED
    BY <2>2, <2>3, <2>4, <2>5, <2>7 DEF Next, TANext, KubeNext
<1> QED
  BY <1>1, Inductive, PTL DEF Spec, FreshIsSpared
=============================================================================
