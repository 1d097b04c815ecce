--------------------------- MODULE DiscoveryProofs ---------------------------
(***************************************************************************)
(* Proofs about Discovery: no update is lost between the two callers of    *)
(* ApplyConfig, the run loop and the reloader, and a call that runs alone  *)
(* brings every part to the same configuration.                            *)
(***************************************************************************)
EXTENDS Discovery, TLAPS

-----------------------------------------------------------------------------
(* Types.                                                                   *)

\* The state of all four goroutines keeps to its type.
THEOREM TypeCorrect == Spec => []TypeOK
<1>1. Init => TypeOK
  <2> SUFFICES ASSUME Init PROVE TypeOK
    OBVIOUS
  <2>1. Nothing \in Config /\ Empty \in Groups
    BY DEF Nothing, Config, Empty, Groups
  <2>2. failures \in 0..MaxFailures /\ events \in [Source -> Nat]
    BY BoundsAssumption DEF Init
  <2>3. step \in [Source -> ApplySteps] /\ alone \in [Source -> BOOLEAN] /\ reloader \in ReloadSteps
    BY DEF Init, ApplySteps, ReloadSteps
  <2> QED
    BY <2>1, <2>2, <2>3 DEF Init, TypeOK
<1>2. TypeOK /\ [Next]_vars => TypeOK'
  <2> SUFFICES ASSUME TypeOK, [Next]_vars PROVE TypeOK'
    OBVIOUS
  <2> USE BoundsAssumption DEF TypeOK, Config, Groups, ApplySteps, ReloadSteps, Nothing, Empty,
          applying, manager, reloading
  <2>1. ASSUME NEW s \in Source, StartApply(s) PROVE TypeOK'
    <3>1. step' \in [Source -> ApplySteps] /\ events' \in [Source -> Nat]
      BY <2>1 DEF StartApply
    <3>2. version' \in Config
      BY <2>1 DEF StartApply
    <3>3. alone' \in [Source -> BOOLEAN]
      BY <2>1, Zenon DEF StartApply, Busy
    <3> QED
      BY <2>1, <3>1, <3>2, <3>3 DEF StartApply
  <2>2. ASSUME NEW s \in Source, StoreConfig(s) PROVE TypeOK'
    BY <2>2 DEF StoreConfig, Advance, After
  <2>3. ASSUME NEW s \in Source, BuildConfig(s) PROVE TypeOK'
    BY <2>3 DEF BuildConfig, Advance, After
  <2>4. ASSUME NEW s \in Source, Respond(s) PROVE TypeOK'
    BY <2>4 DEF Respond, Advance, After
  <2>5. ASSUME NEW s \in Source, RespondFails(s) PROVE TypeOK'
    <3>1. failures' \in 0..MaxFailures
      BY <2>5 DEF RespondFails
    <3>2. step' \in [Source -> ApplySteps]
      BY <2>5 DEF RespondFails
    <3> QED
      BY <2>5, <3>1, <3>2 DEF RespondFails
  <2>6. ASSUME NEW s \in Source, SetHook(s) PROVE TypeOK'
    BY <2>6 DEF SetHook, Advance, After
  <2>7. ASSUME NEW s \in Source, ApplyToManager(s) PROVE TypeOK'
    BY <2>7 DEF ApplyToManager, Advance, After
  <2>8. CASE Discover
    BY <2>8 DEF Discover
  <2>9. CASE StartRun
    BY <2>9 DEF StartRun
  <2>10. CASE ReceiveTsets
    BY <2>10 DEF ReceiveTsets
  <2>11. CASE NotifyReload
    BY <2>11 DEF NotifyReload
  <2>12. CASE Tick
    BY <2>12 DEF Tick
  <2>13. CASE TakeTrigger
    BY <2>13 DEF TakeTrigger
  <2>14. CASE Reload
    BY <2>14 DEF Reload
  <2>15. CASE ApplyFilter
    BY <2>15 DEF ApplyFilter
  <2>16. CASE SetTargets
    BY <2>16 DEF SetTargets
  <2>17. CASE UNCHANGED vars
    BY <2>17 DEF vars
  <2> QED
    BY <2>1, <2>2, <2>3, <2>4, <2>5, <2>6, <2>7, <2>8, <2>9, <2>10, <2>11, <2>12, <2>13, <2>14,
       <2>15, <2>16, <2>17 DEF Next
<1> QED
  BY <1>1, <1>2, PTL DEF Spec

-----------------------------------------------------------------------------
(* No update is lost.                                                       *)

\* The newest target state is on its way along syncPending, runner, trigger and
\* the reloader, or it has arrived.
Coming ==
    /\ ~ syncPending => targetSets = [config |-> sdConfig, world |-> world]
    /\ runner # "notify" /\ ~ trigger =>
          /\ reloader \in {"filter", "set"} => snapshot = targetSets
          /\ reloader \in {"sleep", "armed"} => allocated.groups = targetSets

\* So is the newest relabel configuration: the manager is told after the filter
\* and sends its state again.
FilterComing ==
    /\ reloader \in {"sleep", "armed", "reload"} => filtered = {}
    /\ (/\ \A s \in Source : step[s] # "manager"
        /\ ~ syncPending /\ runner # "notify" /\ ~ trigger /\ reloader # "reload")
       => /\ reloader = "filter" => filtered \subseteq {relabelCfg}
          /\ reloader = "set" => filtered = {relabelCfg}
          /\ reloader \in {"sleep", "armed"} => allocated.relabel = {relabelCfg}

\* Both hold in every reachable state.
LEMMA ComingHolds == Spec => [](Coming /\ FilterComing)
<1>1. Init => Coming /\ FilterComing
  BY DEF Init, Coming, FilterComing, Empty
<1>2. TypeOK /\ Coming /\ [Next]_vars => Coming'
  <2> SUFFICES ASSUME TypeOK, Coming, [Next]_vars PROVE Coming'
    OBVIOUS
  <2> USE DEF TypeOK, Coming, ReloadSteps, applying, manager, reloading
  <2>1. ASSUME NEW s \in Source, StartApply(s) PROVE Coming'
    BY <2>1 DEF StartApply
  <2>2. ASSUME NEW s \in Source, StoreConfig(s) PROVE Coming'
    BY <2>2 DEF StoreConfig, Advance, After
  <2>3. ASSUME NEW s \in Source, BuildConfig(s) PROVE Coming'
    BY <2>3 DEF BuildConfig, Advance, After
  <2>4. ASSUME NEW s \in Source, Respond(s) PROVE Coming'
    BY <2>4 DEF Respond, Advance, After
  <2>5. ASSUME NEW s \in Source, RespondFails(s) PROVE Coming'
    BY <2>5 DEF RespondFails
  <2>6. ASSUME NEW s \in Source, SetHook(s) PROVE Coming'
    BY <2>6 DEF SetHook, Advance, After
  <2>7. ASSUME NEW s \in Source, ApplyToManager(s) PROVE Coming'
    BY <2>7 DEF ApplyToManager, Advance, After
  <2>8. CASE Discover
    BY <2>8 DEF Discover
  <2>9. CASE StartRun
    BY <2>9 DEF StartRun
  <2>10. CASE ReceiveTsets
    BY <2>10 DEF ReceiveTsets
  <2>11. CASE NotifyReload
    BY <2>11 DEF NotifyReload
  <2>12. CASE Tick
    BY <2>12 DEF Tick
  <2>13. CASE TakeTrigger
    BY <2>13 DEF TakeTrigger
  <2>14. CASE Reload
    BY <2>14 DEF Reload
  <2>15. CASE ApplyFilter
    BY <2>15 DEF ApplyFilter
  <2>16. CASE SetTargets
    BY <2>16 DEF SetTargets
  <2>17. CASE UNCHANGED vars
    BY <2>17 DEF vars
  <2> QED
    BY <2>1, <2>2, <2>3, <2>4, <2>5, <2>6, <2>7, <2>8, <2>9, <2>10, <2>11, <2>12, <2>13, <2>14,
       <2>15, <2>16, <2>17 DEF Next
<1>3. TypeOK /\ FilterComing /\ [Next]_vars => FilterComing'
  <2> SUFFICES ASSUME TypeOK, FilterComing, [Next]_vars PROVE FilterComing'
    OBVIOUS
  <2> USE DEF TypeOK, FilterComing, ApplySteps, ReloadSteps, applying, manager, reloading
  <2>1. ASSUME NEW s \in Source, StartApply(s) PROVE FilterComing'
    BY <2>1 DEF StartApply
  <2>2. ASSUME NEW s \in Source, StoreConfig(s) PROVE FilterComing'
    BY <2>2 DEF StoreConfig, Advance, After
  <2>3. ASSUME NEW s \in Source, BuildConfig(s) PROVE FilterComing'
    BY <2>3 DEF BuildConfig, Advance, After
  <2>4. ASSUME NEW s \in Source, Respond(s) PROVE FilterComing'
    BY <2>4 DEF Respond, Advance, After
  <2>5. ASSUME NEW s \in Source, RespondFails(s) PROVE FilterComing'
    BY <2>5 DEF RespondFails
  <2>6. ASSUME NEW s \in Source, SetHook(s) PROVE FilterComing'
    BY <2>6 DEF SetHook, Advance, After
  <2>7. ASSUME NEW s \in Source, ApplyToManager(s) PROVE FilterComing'
    BY <2>7 DEF ApplyToManager, Advance, After
  <2>8. CASE Discover
    BY <2>8 DEF Discover
  <2>9. CASE StartRun
    BY <2>9 DEF StartRun
  <2>10. CASE ReceiveTsets
    BY <2>10 DEF ReceiveTsets
  <2>11. CASE NotifyReload
    BY <2>11 DEF NotifyReload
  <2>12. CASE Tick
    BY <2>12 DEF Tick
  <2>13. CASE TakeTrigger
    BY <2>13 DEF TakeTrigger
  <2>14. CASE Reload
    BY <2>14 DEF Reload
  <2>15. CASE ApplyFilter
    BY <2>15 DEF ApplyFilter
  <2>16. CASE SetTargets
    BY <2>16 DEF SetTargets
  <2>17. CASE UNCHANGED vars
    BY <2>17 DEF vars
  <2> QED
    BY <2>1, <2>2, <2>3, <2>4, <2>5, <2>6, <2>7, <2>8, <2>9, <2>10, <2>11, <2>12, <2>13, <2>14,
       <2>15, <2>16, <2>17 DEF Next
<1> QED
  BY <1>1, <1>2, <1>3, TypeCorrect, PTL DEF Spec

\* When nothing is under way the allocator has the newest target state: neither
\* the one-place trigger nor the reloader's ticker loses an update, however the
\* callers of ApplyConfig overlap and fail.
THEOREM UpdatesArrive == Spec => []NothingStale
<1>1. TypeOK /\ Coming => (~ InFlight => allocated.groups = Latest.groups)
  BY DEF TypeOK, Coming, InFlight, Latest, ReloadSteps
<1>2. TypeOK /\ FilterComing => (~ InFlight => allocated.relabel = Latest.relabel)
  BY DEF TypeOK, FilterComing, InFlight, Latest, Applying, ReloadSteps
<1>3. TypeOK /\ Coming /\ FilterComing => NothingStale
  BY <1>1, <1>2 DEF TypeOK, NothingStale, Latest
<1> QED
  BY <1>3, ComingHolds, TypeCorrect, PTL

-----------------------------------------------------------------------------
(* Convergence.                                                             *)

\* A source's entry of configsMap is the version its goroutine was last given,
\* from the first step of ApplyConfig on.
Stored == \A s \in Source : step[s] # "store" => configsMap[s] = version[s]

\* A call that is alone has the present configsMap and has brought it to every
\* part before its present step.
Alone ==
    \A s \in Source : alone[s] /\ step[s] # "idle" =>
        /\ \A o \in Others(s) : step[o] = "idle"
        /\ step[s] \notin {"store", "build"} => built[s] = configsMap
        /\ step[s] \in {"respondSecret", "hook", "manager"} => response.plain = configsMap
        /\ step[s] \in {"hook", "manager"} => response.secret = configsMap
        /\ step[s] = "manager" => relabelCfg = configsMap

Parts == Stored /\ Alone /\ Converged

\* If the last ApplyConfig call to end ran alone and without error, both
\* responses, the filter and the discovery manager have every source's last
\* configuration, whatever overlapping or failing calls left behind before.
THEOREM CleanCallConverges == Spec => []Converged
<1>1. Init => Parts
  BY DEF Init, Parts, Stored, Alone, Converged, Applying, Nothing
<1>2. TypeOK /\ Parts /\ [Next]_vars => Parts'
  <2> SUFFICES ASSUME TypeOK, Parts, [Next]_vars PROVE Parts'
    OBVIOUS
  <2> USE DEF TypeOK, Config, Parts, Stored, Alone, Converged, Applying, Others, ApplySteps, applying, manager,
          reloading
  <2>1. ASSUME NEW s \in Source, StartApply(s) PROVE Parts'
    <3>1. Stored'
      BY <2>1 DEF StartApply
    <3>2. Alone'
      <4> SUFFICES ASSUME NEW o \in Source, alone'[o], step'[o] # "idle"
                   PROVE  /\ \A q \in Others(o) : step'[q] = "idle"
                          /\ step'[o] \notin {"store", "build"} => built'[o] = configsMap'
                          /\ step'[o] \in {"respondSecret", "hook", "manager"} =>
                                response'.plain = configsMap'
                          /\ step'[o] \in {"hook", "manager"} => response'.secret = configsMap'
                          /\ step'[o] = "manager" => relabelCfg' = configsMap'
        BY DEF Alone
      <4>1. o = s
        BY <2>1 DEF StartApply
      <4>2. step'[s] = "store" /\ ~ Busy(s)
        BY <2>1, <4>1 DEF StartApply
      <4> QED
        BY <2>1, <4>1, <4>2 DEF StartApply, Busy
    <3>3. Converged'
      BY <2>1 DEF StartApply
    <3> QED
      BY <3>1, <3>2, <3>3
  <2>2. ASSUME NEW s \in Source, StoreConfig(s) PROVE Parts'
    BY <2>2 DEF StoreConfig, Advance, After
  <2>3. ASSUME NEW s \in Source, BuildConfig(s) PROVE Parts'
    BY <2>3 DEF BuildConfig, Advance, After
  <2>4. ASSUME NEW s \in Source, Respond(s) PROVE Parts'
    BY <2>4 DEF Respond, Advance, After
  <2>5. ASSUME NEW s \in Source, RespondFails(s) PROVE Parts'
    BY <2>5 DEF RespondFails
  <2>6. ASSUME NEW s \in Source, SetHook(s) PROVE Parts'
    BY <2>6 DEF SetHook, Advance, After
  <2>7. ASSUME NEW s \in Source, ApplyToManager(s) PROVE Parts'
    <3>1. step'[s] = "idle" /\ \A o \in Others(s) : step'[o] = step[o]
      BY <2>7 DEF ApplyToManager, Advance, After
    <3>2. Stored'
      BY <2>7, <3>1 DEF ApplyToManager
    <3>3. Alone'
      BY <2>7, <3>1 DEF ApplyToManager
    <3>4. Converged'
      <4> SUFFICES ASSUME clean', ~ Applying'
                   PROVE  /\ response' = [plain |-> configsMap', secret |-> configsMap']
                          /\ relabelCfg' = configsMap'
                          /\ sdConfig' = configsMap'
                          /\ configsMap' = version'
        BY DEF Converged
      <4>1. alone[s] /\ step[s] = "manager"
        BY <2>7 DEF ApplyToManager
      <4>2. response.plain = configsMap /\ response.secret = configsMap
            /\ relabelCfg = configsMap /\ built[s] = configsMap
        BY <4>1
      <4>3. response = [plain |-> configsMap, secret |-> configsMap]
        BY <4>2
      <4>4. configsMap = version
        <5>1. \A o \in Source : configsMap[o] = version[o]
          BY <4>1
        <5> QED
          BY <5>1
      <4> QED
        BY <2>7, <4>2, <4>3, <4>4 DEF ApplyToManager
    <3> QED
      BY <3>2, <3>3, <3>4
  <2>8. CASE Discover
    BY <2>8 DEF Discover
  <2>9. CASE StartRun
    BY <2>9 DEF StartRun
  <2>10. CASE ReceiveTsets
    BY <2>10 DEF ReceiveTsets
  <2>11. CASE NotifyReload
    BY <2>11 DEF NotifyReload
  <2>12. CASE Tick
    BY <2>12 DEF Tick
  <2>13. CASE TakeTrigger
    BY <2>13 DEF TakeTrigger
  <2>14. CASE Reload
    BY <2>14 DEF Reload
  <2>15. CASE ApplyFilter
    BY <2>15 DEF ApplyFilter
  <2>16. CASE SetTargets
    BY <2>16 DEF SetTargets
  <2>17. CASE UNCHANGED vars
    BY <2>17 DEF vars
  <2> QED
    BY <2>1, <2>2, <2>3, <2>4, <2>5, <2>6, <2>7, <2>8, <2>9, <2>10, <2>11, <2>12, <2>13, <2>14,
       <2>15, <2>16, <2>17 DEF Next
<1>3. Parts => Converged
  BY DEF Parts
<1> QED
  BY <1>1, <1>2, <1>3, TypeCorrect, PTL DEF Spec
=============================================================================
