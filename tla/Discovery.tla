------------------------------ MODULE Discovery ------------------------------
(***************************************************************************)
(* The path from a scrape configuration to the targets the allocator is    *)
(* given: Discoverer (otel-allocator/internal/target/discovery.go), the    *)
(* relabel-config filter, and the server's stored responses.               *)
(*                                                                         *)
(* Four goroutines meet here.  Two call ApplyConfig: the event loop of     *)
(* main.go (source PrometheusCR) and, once, the discoverer's actor (source *)
(* ConfigMap).  The run loop stores each full target state the Prometheus  *)
(* discovery manager sends and raises triggerReload; the reloader, paced   *)
(* by a ticker, turns the stored state into items, filters them with the   *)
(* relabel configuration of the moment and hands them to SetTargets.       *)
(*                                                                         *)
(* A configuration is a content number per source; a target state is the   *)
(* pair of the configuration the manager ran with and the state of the     *)
(* world it saw; the allocator's targets also remember the relabel         *)
(* configurations they went through.  What is checked is whether a part is *)
(* left with an old version.  Configurations have at least one job: how    *)
(* the discovery manager reacts to an empty set is not claimed here.       *)
(***************************************************************************)
EXTENDS Naturals

CONSTANTS
    Version,      \* contents a source's configuration can have
    MaxEvents,    \* bound: reloads of the Prometheus CRs' configuration
    MaxWorld,     \* bound: changes of the discovered world
    MaxFailures   \* bound: failing UpdateScrapeConfigResponse calls

ASSUME BoundsAssumption ==
    /\ Version \subseteq Nat \ {0}
    /\ MaxEvents \in Nat /\ MaxWorld \in Nat /\ MaxFailures \in Nat

Source == {"ConfigMap", "PrometheusCR"}
Config == [Source -> Nat]
Nothing == [s \in Source |-> 0]
Groups == [config : Config, world : Nat]

VARIABLES
    configsMap,  \* Discoverer.configsMap
    step,        \* [Source -> where the ApplyConfig call of that goroutine is]
    version,     \* [Source -> the version that call was given]
    built,       \* [Source -> what it read from configsMap]
    response,    \* the server's two /scrape_configs responses
    relabelCfg,  \* the filter's configuration
    sdConfig,    \* the discovery manager's configuration
    world,       \* what there is to discover
    syncPending, \* the manager has a state to send on SyncCh
    runner,      \* the discoverer's actor: "start", then the run loop
    targetSets,  \* Discoverer.targetSets
    trigger,     \* triggerReload, a channel of capacity 1
    reloader,    \* where the reloader is
    snapshot,    \* the items Reload is working on
    filtered,    \* the relabel configurations they were filtered with
    allocated,   \* what SetTargets was last given
    events, failures,
    alone,       \* history: [Source -> no other call overlapped this one]
    clean        \* history: the last call to end ran alone and succeeded

applying == <<configsMap, step, version, built, response, relabelCfg,
              events, failures, alone, clean>>
manager == <<sdConfig, world, syncPending>>
reloading == <<runner, targetSets, trigger, reloader, snapshot, filtered, allocated>>
vars == <<applying, manager, reloading>>

ApplySteps == {"idle", "store", "build", "respond", "respondSecret", "hook", "manager"}
ReloadSteps == {"sleep", "armed", "reload", "filter", "set"}

TypeOK ==
    /\ configsMap \in Config
    /\ step \in [Source -> ApplySteps]
    /\ version \in Config
    /\ built \in [Source -> Config]
    /\ response \in [plain : Config, secret : Config]
    /\ relabelCfg \in Config
    /\ sdConfig \in Config /\ world \in Nat /\ syncPending \in BOOLEAN
    /\ runner \in {"start", "receive", "notify"}
    /\ targetSets \in Groups
    /\ trigger \in BOOLEAN
    /\ reloader \in ReloadSteps
    /\ snapshot \in Groups
    /\ filtered \subseteq Config
    /\ allocated \in [groups : Groups, relabel : SUBSET Config]
    /\ events \in [Source -> Nat] /\ failures \in 0..MaxFailures
    /\ alone \in [Source -> BOOLEAN] /\ clean \in BOOLEAN

Empty == [config |-> Nothing, world |-> 0]

Init ==
    /\ configsMap = Nothing
    /\ step = [s \in Source |-> "idle"]
    /\ version = Nothing
    /\ built = [s \in Source |-> Nothing]
    /\ response = [plain |-> Nothing, secret |-> Nothing]
    /\ relabelCfg = Nothing
    /\ sdConfig = Nothing /\ world = 0 /\ syncPending = FALSE
    /\ runner = "start"
    /\ targetSets = Empty
    /\ trigger = FALSE
    /\ reloader = "sleep"
    /\ snapshot = Empty
    /\ filtered = {}
    /\ allocated = [groups |-> Empty, relabel |-> {Nothing}]
    /\ events = [s \in Source |-> 0] /\ failures = 0
    /\ alone = [s \in Source |-> TRUE] /\ clean = TRUE

-----------------------------------------------------------------------------
(* ApplyConfig, by the goroutine of source s.  Nothing makes the two calls  *)
(* exclusive.                                                               *)

Others(s) == Source \ {s}
Busy(s) == \E o \in Others(s) : step[o] # "idle"

\* Fault: the manager is told before the filter.
AfterManagerFirst(at) ==
    CASE at = "store" -> "build" [] at = "build" -> "respond"
      [] at = "respond" -> "respondSecret" [] at = "respondSecret" -> "manager"
      [] at = "manager" -> "hook" [] at = "hook" -> "idle"

\* Fault: only one of the two responses is refreshed.
AfterOneResponse(at) ==
    CASE at = "store" -> "build" [] at = "build" -> "respond"
      [] at = "respond" -> "hook" [] at = "hook" -> "manager"
      [] at \in {"respondSecret", "manager"} -> "idle"

\* The order of the effects of ApplyConfig.
After(at) ==
    CASE at = "store" -> "build" [] at = "build" -> "respond"
      [] at = "respond" -> "respondSecret" [] at = "respondSecret" -> "hook"
      [] at = "hook" -> "manager" [] at = "manager" -> "idle"

Advance(s) == step' = [step EXCEPT ![s] = After(@)]

\* main loads and applies the Prometheus CRs before it starts the actors.
Started ==
    \/ events["PrometheusCR"] > 1
    \/ events["PrometheusCR"] = 1 /\ step["PrometheusCR"] = "idle"

\* After that, the discoverer's actor applies the ConfigMap's configuration
\* once, if there is one, and the event loop the Prometheus CRs' again for
\* every event.
StartApply(s) ==
    /\ step[s] = "idle"
    /\ IF s = "ConfigMap"
       THEN Started /\ runner = "start" /\ events[s] = 0
       ELSE events[s] < MaxEvents
    /\ events' = [events EXCEPT ![s] = @ + 1]
    /\ \E v \in Version : version' = [version EXCEPT ![s] = v]
    /\ step' = [step EXCEPT ![s] = "store"]
    /\ alone' = [o \in Source |-> IF o = s THEN ~ Busy(s)
                                  ELSE alone[o] /\ step[o] = "idle"]
    /\ UNCHANGED <<configsMap, built, response, relabelCfg, failures, clean,
                   manager, reloading>>

StoreConfig(s) ==
    /\ step[s] = "store"
    /\ configsMap' = [configsMap EXCEPT ![s] = version[s]]
    /\ Advance(s)
    /\ UNCHANGED <<version, built, response, relabelCfg, events, failures, alone, clean,
                   manager, reloading>>

BuildConfig(s) ==
    /\ step[s] = "build"
    /\ built' = [built EXCEPT ![s] = configsMap]
    /\ Advance(s)
    /\ UNCHANGED <<configsMap, version, response, relabelCfg, events, failures, alone, clean,
                   manager, reloading>>

\* UpdateScrapeConfigResponse renders and stores the two responses in two
\* critical sections.  The stored hash is a fresh pointer on every call, so the
\* "hash has changed" test always succeeds.
Respond(s) ==
    /\ \/ step[s] = "respond" /\ response' = [response EXCEPT !.plain = built[s]]
       \/ step[s] = "respondSecret" /\ response' = [response EXCEPT !.secret = built[s]]
    /\ Advance(s)
    /\ UNCHANGED <<configsMap, version, built, relabelCfg, events, failures, alone, clean,
                   manager, reloading>>

\* An error ends the call: configsMap keeps the new version and the event loop
\* does not retry.  (An error of the two initial calls ends the process.)
RespondFails(s) ==
    /\ s = "PrometheusCR" /\ events[s] > 1
    /\ step[s] \in {"respond", "respondSecret"}
    /\ failures < MaxFailures
    /\ failures' = failures + 1
    /\ step' = [step EXCEPT ![s] = "idle"]
    /\ clean' = FALSE
    /\ UNCHANGED <<configsMap, version, built, response, relabelCfg, events, alone,
                   manager, reloading>>

SetHook(s) ==
    /\ step[s] = "hook"
    /\ relabelCfg' = built[s]
    /\ Advance(s)
    /\ UNCHANGED <<configsMap, version, built, response, events, failures, alone, clean,
                   manager, reloading>>

\* The discovery manager always sends its full state after a reconfiguration.
ApplyToManager(s) ==
    /\ step[s] = "manager"
    /\ sdConfig' = built[s]
    /\ syncPending' = TRUE
    /\ Advance(s)
    /\ clean' = alone[s]
    /\ UNCHANGED <<configsMap, version, built, response, relabelCfg, events, failures, alone,
                   world, reloading>>

-----------------------------------------------------------------------------
(* Discovery, the run loop and the reloader.                                *)

\* A provider reports a change.
Discover ==
    /\ world < MaxWorld
    /\ world' = world + 1
    /\ syncPending' = TRUE
    /\ UNCHANGED <<applying, sdConfig, reloading>>

\* The ConfigMap's configuration is applied or empty: Run starts the reloader
\* and the run loop.
StartRun ==
    /\ Started /\ runner = "start" /\ step["ConfigMap"] = "idle"
    /\ runner' = "receive"
    /\ UNCHANGED <<applying, manager, targetSets, trigger, reloader, snapshot, filtered, allocated>>

\* The run loop receives the manager's full state: UpdateTsets.
ReceiveTsets ==
    /\ runner = "receive" /\ syncPending
    /\ syncPending' = FALSE
    /\ targetSets' = [config |-> sdConfig, world |-> world]
    /\ runner' = "notify"
    /\ UNCHANGED <<applying, sdConfig, world, trigger, reloader, snapshot, filtered, allocated>>

\* Fault: triggerReload has no buffer, the send is dropped unless the reloader
\* is waiting for it.
NotifyReloadUnbuffered ==
    /\ runner = "notify"
    /\ trigger' = (trigger \/ reloader = "armed")
    /\ runner' = "receive"
    /\ UNCHANGED <<applying, manager, targetSets, reloader, snapshot, filtered, allocated>>

\* The non-blocking send on triggerReload.
NotifyReload ==
    /\ runner = "notify"
    /\ trigger' = TRUE
    /\ runner' = "receive"
    /\ UNCHANGED <<applying, manager, targetSets, reloader, snapshot, filtered, allocated>>

Tick ==
    /\ runner # "start" /\ reloader = "sleep"
    /\ reloader' = "armed"
    /\ UNCHANGED <<applying, manager, runner, targetSets, trigger, snapshot, filtered, allocated>>

TakeTrigger ==
    /\ reloader = "armed" /\ trigger
    /\ trigger' = FALSE
    /\ reloader' = "reload"
    /\ UNCHANGED <<applying, manager, runner, targetSets, snapshot, filtered, allocated>>

\* Under mtxScrape the worker goroutines get the stored groups.
Reload ==
    /\ reloader = "reload"
    /\ snapshot' = targetSets
    /\ reloader' = "filter"
    /\ UNCHANGED <<applying, manager, runner, targetSets, trigger, filtered, allocated>>

\* SetTargets applies the filter before it takes the allocator's lock.  Nothing
\* keeps SetConfig out, and the field is read again for every item: the items
\* may go through different configurations.
ApplyFilter ==
    /\ reloader = "filter"
    /\ filtered' = filtered \cup {relabelCfg}
    /\ reloader' \in {"filter", "set"}
    /\ UNCHANGED <<applying, manager, runner, targetSets, trigger, snapshot, allocated>>

SetTargets ==
    /\ reloader = "set"
    /\ allocated' = [groups |-> snapshot, relabel |-> filtered]
    /\ reloader' = "sleep"
    /\ snapshot' = Empty /\ filtered' = {}
    /\ UNCHANGED <<applying, manager, runner, targetSets, trigger>>

Apply(s) == StoreConfig(s) \/ BuildConfig(s) \/ Respond(s) \/ SetHook(s) \/ ApplyToManager(s)

Next ==
    \/ \E s \in Source : StartApply(s)
    \/ \E s \in Source : StoreConfig(s)
    \/ \E s \in Source : BuildConfig(s)
    \/ \E s \in Source : Respond(s)
    \/ \E s \in Source : RespondFails(s)
    \/ \E s \in Source : SetHook(s)
    \/ \E s \in Source : ApplyToManager(s)
    \/ Discover
    \/ StartRun \/ ReceiveTsets \/ NotifyReload
    \/ Tick \/ TakeTrigger \/ Reload \/ ApplyFilter \/ SetTargets

\* main makes the initial call, and every goroutine that can go on does: the
\* ticker fires for ever, the calls end, the manager offers its state again
\* until it is taken.
Fairness ==
    /\ WF_vars(events["PrometheusCR"] = 0 /\ StartApply("PrometheusCR"))
    /\ \A s \in Source : WF_vars(Apply(s) \/ RespondFails(s))
    /\ WF_vars(StartRun) /\ WF_vars(ReceiveTsets) /\ WF_vars(NotifyReload)
    /\ WF_vars(Tick) /\ WF_vars(TakeTrigger)
    /\ WF_vars(Reload) /\ WF_vars(ApplyFilter) /\ WF_vars(SetTargets)

Spec == Init /\ [][Next]_vars
FairSpec == Spec /\ Fairness

-----------------------------------------------------------------------------
(* Properties.                                                              *)

\* What the allocator would hold if every part had caught up.
Latest == [groups |-> [config |-> sdConfig, world |-> world], relabel |-> {relabelCfg}]

Applying == \E s \in Source : step[s] # "idle"

\* Something will still happen without a new configuration or discovery.
InFlight ==
    \/ syncPending
    \/ runner \in {"start", "notify"}
    \/ trigger
    \/ reloader \in {"reload", "filter", "set"}
    \/ Applying

\* No update is lost: when no goroutine has anything left to do, the allocator
\* holds the discovery manager's newest target state, however its updates fell
\* between the run loop, the one-place trigger and the reloader's ticks.
\* Nor was any item of it filtered with an old relabel configuration: SetConfig
\* comes before the manager's ApplyConfig, whose reaction makes the reloader
\* run once more.  Overlapping ApplyConfig calls are allowed, and so is one that
\* fails before it reaches the hook.
NothingStale == ~ InFlight => allocated = Latest

\* When the last ApplyConfig call to end ran alone and without error, both
\* responses, the filter and the manager all have the configurations of all
\* sources, whatever failures and overlaps came before.
Converged ==
    clean /\ ~ Applying =>
        /\ response = [plain |-> configsMap, secret |-> configsMap]
        /\ relabelCfg = configsMap
        /\ sdConfig = configsMap
        /\ configsMap = version

\* Once configurations and the world stop changing, the allocator gets, and
\* keeps, targets that reflect all of them.
EventuallyFresh == <>[](allocated = Latest)
=============================================================================
