----------------------------- MODULE ReceiverSync -----------------------------
(***************************************************************************)
(* The receiver's side of the target allocator protocol                    *)
(* (prometheusreceiver/internal/targetallocator/manager.go): Start applies *)
(* the collector's own scrape configs, repeats a first sync until it       *)
(* succeeds, and then syncs on every tick.                                 *)
(*                                                                         *)
(* A sync fetches /scrape_configs and, unless its hash is the saved one,   *)
(* rebuilds and validates every job, replaces the shared configuration,    *)
(* and applies it to the scrape manager and then to the discovery manager. *)
(* Any step can fail; what the steps before it did stays.                  *)
(*                                                                         *)
(* A response is a version; hashes are taken to be injective.              *)
(***************************************************************************)
EXTENDS Naturals

CONSTANTS
    Version,       \* the responses the target allocator can give
    Invalid,       \* those with a job that does not pass Validate
    MaxFailures    \* bound: failing requests and applies

ASSUME ReceiverAssumption ==
    /\ Invalid \subseteq Version /\ {"initial", "none"} \cap Version = {}
    /\ MaxFailures \in Nat

Initial == "initial"    \* only the collector's own scrape configs
NoHash == "none"        \* savedHash is 0
Running == Version \cup {Initial}

VARIABLES
    served,        \* the target allocator's response
    phase,         \* "apply": Start; "first": its Retry; "tick"; "failed"; "stopped"
    step,          \* where sync is, "idle" between two calls
    response,      \* the response sync works on
    savedHash,
    promCfg,       \* the configuration shared with the API server
    scrapeCfg,     \* the scrape manager's
    sdCfg,         \* the discovery manager's
    scraping,      \* configLoaded is closed, the scrape manager runs
    failures

configs == <<promCfg, scrapeCfg, sdCfg>>
syncVars == <<served, phase, step, response, savedHash, configs, scraping, failures>>

Steps == {"idle", "compare", "mutate", "scrape", "discovery"}

SyncTypeOK ==
    /\ served \in Version
    /\ phase \in {"apply", "first", "tick", "failed", "stopped"}
    /\ step \in Steps
    /\ response \in Version
    /\ savedHash \in Version \cup {NoHash}
    /\ promCfg \in Running /\ scrapeCfg \in Running \cup {NoHash}
    /\ sdCfg \in Running \cup {NoHash}
    /\ scraping \in BOOLEAN /\ failures \in 0..MaxFailures

SyncInit ==
    /\ served \in Version
    /\ phase = "apply" /\ step = "idle" /\ response = served
    /\ savedHash = NoHash
    /\ promCfg = Initial /\ scrapeCfg = NoHash /\ sdCfg = NoHash
    /\ scraping = FALSE /\ failures = 0

Fail == failures < MaxFailures /\ failures' = failures + 1

-----------------------------------------------------------------------------

\* The target allocator's configuration changes, to a new response or back to
\* one it has served before.
Serve(v) ==
    /\ v # served
    /\ served' = v
    /\ UNCHANGED <<phase, step, response, savedHash, configs, scraping, failures>>

\* Start applies the collector's own configuration; an error ends Start.
ApplyInitial ==
    /\ phase = "apply"
    /\ \/ /\ scrapeCfg' = Initial /\ sdCfg' = Initial
          /\ phase' = "first"
          /\ UNCHANGED failures
       \/ /\ Fail
          /\ scrapeCfg' \in {scrapeCfg, Initial}
          /\ phase' = "failed"
          /\ UNCHANGED sdCfg
    /\ UNCHANGED <<served, step, response, savedHash, promCfg, scraping>>

Fetch ==
    /\ phase \in {"first", "tick"} /\ step = "idle"
    /\ response' = served
    /\ step' = "compare"
    /\ UNCHANGED <<served, phase, savedHash, configs, scraping, failures>>

\* The allocator cannot be reached, or its answer cannot be read.
FetchFails ==
    /\ phase \in {"first", "tick"} /\ step = "idle"
    /\ Fail
    /\ UNCHANGED <<served, phase, step, response, savedHash, configs, scraping>>

\* "no update needed": the hash is the saved one.
NoUpdate ==
    /\ step = "compare" /\ response = savedHash
    /\ step' = "idle"
    /\ UNCHANGED <<served, phase, response, savedHash, configs, scraping, failures>>

\* Fault: an invalid job is not noticed.
BuildUnvalidated ==
    /\ step = "compare" /\ response # savedHash
    /\ step' = "mutate"
    /\ UNCHANGED <<served, phase, response, savedHash, configs, scraping, failures>>

\* Every job gets its HTTP service discovery and is validated; the first
\* invalid one ends the sync.
Build ==
    /\ step = "compare" /\ response # savedHash
    /\ step' = IF response \in Invalid THEN "idle" ELSE "mutate"
    /\ UNCHANGED <<served, phase, response, savedHash, configs, scraping, failures>>

Mutate ==
    /\ step = "mutate"
    /\ promCfg' = response
    /\ step' = "scrape"
    /\ UNCHANGED <<served, phase, response, savedHash, scrapeCfg, sdCfg, scraping, failures>>

ApplyScrape ==
    /\ step = "scrape"
    /\ scrapeCfg' = promCfg
    /\ step' = "discovery"
    /\ UNCHANGED <<served, phase, response, savedHash, promCfg, sdCfg, scraping, failures>>

\* The scrape manager refuses the configuration (or a job name occurs twice),
\* having taken over all of it or nothing.
ApplyScrapeFails ==
    /\ step = "scrape"
    /\ Fail
    /\ scrapeCfg' \in {scrapeCfg, promCfg}
    /\ step' = "idle"
    /\ UNCHANGED <<served, phase, response, savedHash, promCfg, sdCfg, scraping>>

\* Fault: the hash is saved although applying failed.
ApplyDiscoveryFailsSaved ==
    /\ step = "discovery"
    /\ Fail
    /\ step' = "idle" /\ savedHash' = response
    /\ UNCHANGED <<served, phase, response, configs, scraping>>

ApplyDiscoveryFails ==
    /\ step = "discovery"
    /\ Fail
    /\ step' = "idle"
    /\ UNCHANGED <<served, phase, response, savedHash, configs, scraping>>

\* The last step: the caller saves the hash.  The first success ends Start,
\* which lets the scrape manager run.
ApplyDiscovery ==
    /\ step = "discovery"
    /\ sdCfg' = promCfg
    /\ savedHash' = response
    /\ step' = "idle"
    /\ phase' = "tick" /\ scraping' = TRUE
    /\ UNCHANGED <<served, response, promCfg, scrapeCfg, failures>>

\* Retry gives up: Start, and with it the collector, fails.
GiveUp ==
    /\ phase = "first" /\ step = "idle" /\ (failures > 0 \/ response \in Invalid)
    /\ phase' = "failed"
    /\ UNCHANGED <<served, step, response, savedHash, configs, scraping, failures>>

\* Shutdown waits for the sync that is running.
Shutdown ==
    /\ phase = "tick" /\ step = "idle"
    /\ phase' = "stopped" /\ scraping' = FALSE
    /\ UNCHANGED <<served, step, response, savedHash, configs, failures>>

Sync ==
    \/ Fetch \/ NoUpdate \/ Build
    \/ Mutate \/ ApplyScrape \/ ApplyDiscovery
    \/ ApplyScrapeFails \/ ApplyDiscoveryFails

SyncNext ==
    \/ \E v \in Version : Serve(v)
    \/ ApplyInitial \/ FetchFails \/ Sync
    \/ GiveUp \/ Shutdown

\* The ticker fires for ever and a sync that was begun ends.
Fairness == WF_syncVars(ApplyInitial) /\ WF_syncVars(Sync)

SyncSpec == SyncInit /\ [][SyncNext]_syncVars
FairSpec == SyncSpec /\ Fairness

-----------------------------------------------------------------------------
(* Properties.                                                              *)

AllHave(v) == promCfg = v /\ scrapeCfg = v /\ sdCfg = v

\* manager.go, sync, on equal hashes: "no update needed".  All three holders of
\* the configuration then have the response, however many syncs failed half
\* way before.  Not so: a response that failed to apply is in force, and the
\* allocator has gone back to the saved one.
NoUpdateNeeded == step = "compare" /\ response = savedHash => AllHave(response)

\* What the saved hash does stand for: as long as the shared configuration is
\* the saved one, scrape manager and discovery manager have it as well, so a
\* sync that stopped half way never leaves them behind under a hash that says
\* they are up to date.
SavedMeansApplied == promCfg = savedHash => AllHave(savedHash)

\* A response with an invalid job is never adopted, not even in part: the
\* receiver goes on with the last good configuration.
InvalidIsHarmless == Invalid \cap {promCfg, scrapeCfg, sdCfg, savedHash} = {}

\* A response that failed to apply is in force, but the one that is served has
\* the saved hash: sync finds nothing to do (see NoUpdateNeeded).
Overlooked == served = savedHash /\ promCfg # savedHash

\* Whenever the allocator's response settles on a valid one, the receiver ends
\* up with it everywhere, after any failures and any detours; the one way to
\* miss it is a detour that failed to apply and led back to the saved response.
EventuallyInSync ==
    \A v \in Version \ Invalid :
        <>[](served = v) => <>[](phase \in {"failed", "stopped"} \/ AllHave(v) \/ Overlooked)
=============================================================================
