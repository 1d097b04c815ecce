# Verification of the Azure Monitor managed Prometheus collector

TLA+ models of the parts of this repository that decide, together and
concurrently, *which collector scrapes which target with which configuration*,
and what becomes of the samples: the target allocator, the receiver that polls
it, the pods that restart their containers when the configuration changes, the
pipeline that makes that configuration, and the receiver's appender. Every module is translated from the
Go source; `PROJECT.json` maps each definition to the lines it stands for, names
the runs, the faults each property is tried against, and the hazards of the code
that the properties are for.

Paths below are relative to `otelcollector/` of the repository.

## 1. The system

| Component | State it keeps | Operations | Hard behaviour | What makes it correct |
|---|---|---|---|---|
| Allocator and strategies (`otel-allocator/internal/allocation`) | collectors with their counters, items with their owner, an index per collector and job, a strategy with a ring or a node index | `SetTargets`, `SetCollectors`, read access for HTTP | two writers; walks over Go maps in arbitrary order; placements that fail item by item; counters adjusted in several places | the three records of an assignment agree; every target has exactly one collector; assignments are stable |
| Discoverer, filter, server (`internal/target`, `internal/prehook`, `internal/server`) | configurations per source, target groups, a one-place trigger, relabel configuration, two rendered responses | `ApplyConfig`, run loop, reloader, `SetConfig`, `UpdateScrapeConfigResponse` | four goroutines; partial failure of `ApplyConfig`; filter read while it is replaced | no update lost on the way to the allocator; all parts end with the same configuration |
| Prometheus CR watcher and event loop (`internal/watcher`, `main.go`) | informer stores, a token, an asset store of secrets | `Watch`, handlers, rate limiter, `LoadConfig`, the loop in `main` | informers that sync late or never; non-blocking sends; secrets read while they change; errors that are only logged | no change forgotten; what has no event of its own is healed by the resync |
| Collector watcher (`internal/collector`) | pod store, a token, the last collectors | `Watch`, rate-limited handler, health test, `Close` | a pod becomes unhealthy by time alone | the allocator ends with the present healthy pods |
| Receiver's target allocator manager (`prometheusreceiver/internal/targetallocator`) | saved hash, shared configuration, those of the scrape and discovery managers | `Start`, `sync`, `Shutdown` | any step of a sync can fail after earlier ones took effect | no invalid configuration; what the saved hash stands for is in force everywhere |
| Configuration reader (`configuration-reader-builder`) | `taConfigUpdated`, `taLivenessStartTime`, inotify output files, the allocator's file, two secrets | start-up, `/health`, `/health-ta` | restarts driven by liveness probes, delays and sleeps; crashes between steps; a file emptied before it is filled | every new configuration reaches the allocator, and nothing is restarted for ever |
| Supervisor (`main/main.go`, `shared`) | inotify output files, child processes, start time, the Windows hash | start-up per kind of container, `/health`, shutdown | an output file shared by two watches; fixed sleeps against the kubelet's patience; certificates that come late; nobody waits for the children | a change of the settings restarts the container; so does a dead process; starts fit into the probe's patience |
| Configmap parser, merger, validator (`shared/configmap`, `prom-config-validator-builder`) | environment and generated files | parse, filter, time, merge, validate, fall back | stages that talk through files, so that a missing file is read as a setting; containers that decide alone which targets are theirs | enabled default targets are scraped, by one kind of container; custom jobs and filters are taken whole or not at all; what is chosen loads |
| Receiver's appender (`prometheusreceiver/internal`) | resources, scopes, metric families and groups of one scrape | append, exemplars, infos, commit, rollback | samples that belong together come in any order, recognised by names, labels and metadata only | each sample in the point it belongs to; stale series marked; buckets right |
| Health metrics, fluent-bit plugin (`shared`, `fluent-bit`) | counters and maps shared by tickers and tailers | count, export, reset | read and reset interleave with counting | no count is lost or reported twice |

How they interact:

```
configmaps --> configuration reader --file--> target allocator main
                     |  /health-ta                 |
                     v                             v
                  kubelet --restart-->   CR watcher --event--> event loop --ApplyConfig--+
                                                                                         v
 pods --> collector watcher --SetCollectors--> Allocator <--SetTargets-- reloader <-- Discoverer
                                                  |                                      |
                                                  v  /jobs/{job}/targets                 v  /scrape_configs
                                            receivers' discovery <-- target allocator manager (sync)
                                                  |
 configmaps --> ConfigPipeline (in every          v
                container's start) --> CollectorPod: collector --> Appender --> exporters
                                              ^ /health
                                              kubelet
```

The remaining parts (API types, test harnesses, UI, component registration,
deployment templates) have no behaviour of their own; all are listed in
`PROJECT.json` with the reason they are left out.

## 2. Modules

Each component has a module with its state, actions, fairness and properties,
an `MC` module with instances for TLC, and its proofs in a `Proofs` module
(ReceiverProofs is the one of both ReceiverSync and Appender, ConfigProofs the one
of the four modules of the pipeline). Definitions keep the names of the code. A definition that begins with the comment "Fault:" is a
plausible bug in the definition after it; it takes no part in the specification
and serves to show that a property would notice the bug.

**Allocator** (abstract specification: **Placement**). `SetTargets` and
`SetCollectors` take the lock and compute the diff; each tracked item is then
handled in a step of its own, in any order, because the code walks maps and the
order decides the outcome through the counters; `Unlock` publishes what readers
see. `AddTargetToTargetItems` is the placement with its error path, `Move` the
changes of counters and index the code always makes together. Least-weighted
and per-node are written out; the ring of the hashing library is an arbitrary
function of members and key. A hash stands for an item; its node and URL are
attributes that may differ between two items with the same hash, as in the code.
Placement says what readers may rely on, with atomic calls and nothing of
strategies or locks.

**Discovery.** `ApplyConfig` in its steps (store, build, two responses, hook,
manager) for the event loop and for the discoverer's actor, the run loop with
its one-place trigger, the reloader with its tick, and the filter, which reads
the relabel configuration afresh per item. Configurations are version numbers
per source.

**CRWatcher.** `Watch` with informers that sync or not in time, the handlers of
objects, namespaces and secrets (with their asymmetries: no handler for a skipped
informer, namespaces react to updates only, a secret not in the asset store is
ignored), the rate limiter that puts its token back, `LoadConfig` kind by kind
with the secret read last, and the event loop that logs errors and goes on.

**CollectorWatcher.** Pods as node, phase, Ready condition and whether the grace
period of each has run out; time passing is an action without an event.

**ReceiverSync.** `Start` with the collector's own configuration, the first sync
repeated until it succeeds, the steps of `sync` with the failure of each, and
`Shutdown`. A response is a version, and the allocator may go back to an earlier one
at any time (`Serve`); hashes are taken to be injective.

**OperatorPod.** The reader and the allocator container beside it under the
kubelet's liveness probes. Here the question is one of time, so time is modelled
in ticks of 15 s, the period of both probes in the chart
(`deploy/addon-chart/azure-monitor-metrics-addon/templates/ama-metrics-targetallocator.yaml`);
the windows, sleeps and initial delays are constants in ticks. `history` holds
the two reasons for which the code may leave the allocator with an old
configuration, so that the properties can say that there are no others.

**DefaultTargets, ConfigPipeline, ControlPlaneConfig, ConfigStartup.** One start
of one container, from the mounted ConfigMaps to the configuration the collector
is given. DefaultTargets is the pure part: the forty-odd blocks of
`populateDefaultPrometheusConfig` and its operator variant as sets of targets,
one definition per group of blocks. ConfigPipeline has one action per stage, in
the code's order, over the environment and the files the stages leave for each
other: versions and sections, pod annotations, scrape settings, debug, OTLP and
kube-state-metrics sections, keep lists, intervals, the merger with its working
copies, the validator with its two tries, and `main`'s choice. The kinds of custom
configurations are those the code tells apart (`CustomKind`), among them a list of
jobs with an item that is no mapping, which ends the process (`SetLabelLimitsPanics`);
a configuration loads only if it has a job (`Loads`: the receiver's `Validate` and
the validator). ControlPlaneConfig
is the pipeline of the control plane, which repeats the structure but not the
error handling, with the two readers of the settings, of which v1's skips a file it
cannot read (`CcpParseV1Config`) and v2's fails (`CcpParseMetricsFiles`);
ConfigStartup is the choice between the two. `Belongs` states which container a target is meant for, independently of the blocks.

**CollectorPod.** The supervisor from its first watch to serving `/health`, for
each kind of container the charts deploy, with the files it watches as versions,
the sleeps in units of 10 s (`age`, `KillAt` from the probe of each chart), the token
adapter, the certificate check with its retries, its request without a timeout
(`AwaitAllocator`; `blocked` counts the time nobody answers) and its fallback to HTTP,
the rewriting of the configuration, which may fail unnoticed (`tls = "kept"`) and
panics without the operator (`RewritePanics`), the Windows hash, the processes, and
the kubelet that kills and restarts, with as many probes in a minute as the system's
chart has (`PerMinute`). `since` is
the version at which a watch began with an empty output file, `seen` the version
in force.

**Appender.** One transaction: `Append` with its label checks, the first-sample
initialisation of a resource (which fails without job or instance), scopes, families found by name and metadata,
groups, native histograms with exponential and custom buckets, staleness
detection, exemplars, target and scope infos, then `Commit` with the points it
builds, or `Rollback`, or a cancelled context. A metric name is a stem with
suffixes. `appended` records where each sample went, for the properties.
Infos are samples without exemplars, as OpenMetrics has it (`AppenderAssumption`).
`Displaced` is the one way the code loses a family: a name that finds neither its
own family nor the one of its trimmed name makes a new family and stores it under
the name in its metadata, where another may be (`Collides`).

## 3. What is checked

All passing runs explore their whole state space. Bounds are named `Max...` in
the modules. Deadlock is checked where the system never stops (Allocator,
OperatorPod, CollectorPod, the configuration pipeline, which idles when it is
done); the other models stop when their bounded number of changes is used up,
after `Close` and `Shutdown`, or after `Commit` and `Rollback`.

| Run | Instance | States | Shows |
|---|---|---|---|
| `allocator_least_weighted` | 3 collectors, 4 targets of 2 jobs | 71 461 | `Sticky`: a target leaves a collector only with that collector; `GainersStayLevel`: whoever gains a target ends at most one above anybody; `ImplementsPlacement` |
| `allocator_per_node` | 3 collectors on 2 nodes, 3 targets, consistent hashing as fallback | 296 573 | failing placements never corrupt the tables; `Bookkeeping` at every step of every call; `NodeLocal` even in the middle of a re-allocation; `HistoryIndependent`: a hashed placement depends on members and URL only; `EveryTargetPlaced` |
| `discovery` | 2 versions, 3 events, 1 failure | 710 534 | `NothingStale`, `Converged`, `EventuallyFresh` |
| `crwatcher` | 2 kinds, 2 changes, 1 failure | 867 164 | `NothingForgotten` (objects and secrets), `EventuallyCurrent` |
| `collector_watcher` | 2 pods, 2 nodes, 2 changes | 269 991 | `UpToDate`, `SharesFollowHealth` |
| `receiver_sync` | 3 valid responses and an invalid one, changing to any other at any time, 3 failures | 4 920 | `SavedMeansApplied`: while the shared configuration is the saved one every holder has it; `InvalidIsHarmless`; `EventuallyInSync`, but for a detour that failed and led back to the saved response |
| `operator_pod` | delays of the chart, HTTPS, 2 versions, 3 upsets | 894 406 | `PickedUp`, `OwnCertificatesQuiet`, `FreshIsSpared`, `EventuallyApplied` |
| `config_pipeline` | 4 kinds of clusters with all their containers, 290 settings, 8 kinds of custom configuration; 4050 settings of the control plane | 236 500 | `DefaultsSurvive`, `ScrapedOnce`, `CustomAllOrNothing`, `FiltersWhole`, `ConfigLoads`, `CcpAsAsked` |
| `collector_pod` | 8 kinds of containers, 2 changes, grace of 1 minute, threshold 2 with 2 probes a minute on Linux and 1 on Windows | 1 195 927 | `Noticed`, `HttpsProven`, `StartsInTime`, `GraceBounded`, `RestartedWhenDue`, `EventuallyApplied` |
| `appender` | 5 targets with 9 to 11 samples each, scrapes of up to 4 | 2 912 680 | `NothingLost`, `OneTimestamp`, `StaleSeen`, `BucketsRight`, `ExemplarsFollow`, `InfoReachesAll` |
| `operator_pod_missed`, `config_defaults_lost` | | | violations: findings 1 and 2 of section 6 |

Why the bounds are enough. Three collectors let one leave, one join and one stay
in a single call, and four targets of two jobs reach every level of the
least-weighted comparison. Per-node needs two collectors that can share a node
and one elsewhere. In the pipelines a race needs one thing on the way and another
behind it: a change being handled and one that follows. Two changes (three
events, where two goroutines apply) give that, and one failure between them
gives the partial effects. In OperatorPod two versions are an old and a new
configuration, and three upsets let a crash, a stall and an unanswered probe fall
into one window; the delays are the real ones. The settings of the pipeline have,
section by section, an absent, a good, a bad and an empty value, in all
combinations; the clusters are the addon with and without the operator and the
legacy chart in both modes. In CollectorPod two changes are one that is on its way
and one that falls into the restart, or a change and a failing peer; the sleeps
and the probes' delays are the charts', only the fifteen minutes are shortened,
which `GraceBounded` is proved for in general, and the threshold of three, which is still
more than Windows' one probe a minute. Four samples make a classic
histogram with two buckets, a count and a sample of another time, or a marker
among native histograms of both kinds. The receiver's three valid responses are the saved
one, one that fails and a third, and it may go back to each.

Fairness. Weak fairness is assumed of what the program or the kubelet does by
itself: goroutines and loops that can go on (the Go scheduler), tickers and
resync timers, informers' handlers, probes and the clock. Where a step can
succeed or fail, fairness is of the disjunction, never of success; eventual
success follows from the bound on failures, which reads "failures stop in the
end". In CollectorPod it is of `Start \/ Kubelet`: `main` goes on or, when it
serves, the kubelet probes; `EventuallyApplied` needs a token adapter that is
healthy in the end, which it states. Nothing is assumed of changes of the cluster, of failures or of crashes.

## 4. What is proved

TLAPS checks the proofs for every value of the constants that the named
assumptions allow. The type invariants (`TypeCorrect`, `SyncTyped`) and the
strategies' contract (`StrategyContractKept`) are proved here and not repeated in
the runs; the Appender's, which says that families are kept under their own names
and never without their resource, is also checked by TLC.

| Module | Theorem | States |
|---|---|---|
| AllocatorProofs | `TypeCorrect`, `RecordsAgree`, `StrategyContractKept`, `NoTargetLeftOut`, `PerNodeIsLocal`, `HashingHasNoMemory` | the invariants of section 3, for all strategies and any finite set of targets |
| | `Refinement` | the allocator implements Placement |
| | `NoNeedlessMove`, `GainersLevelled` | the action properties `Sticky` and `GainersStayLevel`, for least-weighted |
| DiscoveryProofs | `TypeCorrect`, `UpdatesArrive`, `CleanCallConverges` | `NothingStale`, `Converged` |
| CRWatcherProofs | `TypeCorrect`, `ChangesArrive` | `NothingForgotten` for any set of kinds |
| CollectorWatcherProofs | `TypeCorrect`, `EventsArrive` | `UpToDate` for any pods and nodes |
| ReceiverProofs | `SyncTyped`, `NothingInvalid`, `SavedIsInForce` | ReceiverSync: `InvalidIsHarmless` and `SavedMeansApplied`, for any set of responses in any order |
| | `AppenderTyped`, `NoMixedTimes`, `ExemplarsKept`, `InfoEverywhere`, `StaleMarkersSeen`, `NoSampleLost`, `BucketsAdd` | Appender: `TypeOK`, `OneTimestamp`, `ExemplarsFollow`, `InfoReachesAll`, `StaleSeen`, `NothingLost` and `BucketsRight`, for any targets, any metadata and any number of samples; `NothingLost` without displaced families, `BucketsRight` without float custom buckets in several spans, which the findings are about |
| OperatorPodProofs | `TypeCorrect`, `EveryUpdateIsPickedUp`, `CertificatesDoNotRestart`, `FreshAllocatorsAreSpared` | for all delays with threshold < window <= initial delay, window <= sleep, and mounting faster than the sleep |
| CollectorPodProofs | `TypeCorrect`, `ChangesAreNoticed`, `HttpsIsProven`, `SleepsFit`, `GraceIsBounded` | all invariants of `collector_pod`, for any set of kinds, any grace, threshold, number of changes and of probes in a minute |
| ConfigProofs | `TypeCorrect`, `LoadsOrReported`, `CustomTakenWhole`, `FiltersTogether`, `CcpSettingsInForce`, `DefaultsAlwaysScraped`, `EveryTargetOnce` | all invariants of `config_pipeline`, for any settings and any clusters the charts deploy; the properties name the custom configurations and the unreadable v1 file that the code does not survive or report |

The arguments:

- *Allocator.* `Bookkeeping` is not inductive. When a placement fails during a
  re-allocation, the code blanks the owner without giving the counters back.
  That is harmless only because such an item never has an owner: with
  least-weighted and hashing a placement cannot fail while there is a collector
  (`LeastWeightedTotal`: the three-level comparison has a minimum), and with
  per-node an owner that is still live is still in the freshly built index
  (`IndexComplete`, `NodelessUnowned`, `NodeLocal`). `IInv` adds these, the shape
  of a call's pending work (`CallShape`), what holds of the items already handled
  (`PlacedSoFar`, `HashedSoFar`), and how the published view relates to the
  tables (`PublishedInSync`), from which the refinement follows. Assumptions: the
  target set is finite, a ring with members maps each key to a member, and the
  fallback is not per-node itself.
- *Allocator, from call to call.* `Sticky` and `GainersStayLevel` compare the view
  before a call with the one after it, many steps apart. `Steady` relates the
  tables in the middle of a call to the view last published: a target of the view
  that is tracked, and whose collector is live, is where it was (`KeepsPlaces`); a
  call that adds targets adds only new ones (`AddsNew`); and a collector that
  already has a target it did not have in the view has at most one more than any
  other (`GainersLevel`), which the least-weighted choice restores at every
  placement; until the removals are done there is none (`NoGainer`).
- *Discovery.* The invariant follows the newest target state along the stages
  `syncPending`, run loop, trigger, reloader: it is in one of them or has arrived
  (`Coming`); the same for the relabel configuration, which needs that the
  manager is told after the filter (`FilterComing`). For `Converged`: a call that
  is alone has the present `configsMap` and has brought it to all parts before its
  present step (`Stored`, `Alone`).
- *CRWatcher, CollectorWatcher.* A change is announced by a notice, the token or
  an event, is still to be read by the load under way, or is in what was applied
  (`Announced`). Time may turn a collector into an unhealthy pod at any moment,
  so the map of collectors is only claimed to be right up to that (`Matches`).
  For secrets `SecretInv` says that an asset that is no longer the cluster's is
  owed a notice that makes a handler replace it (`Owed`), that a known secret is
  in the store or its notice is on the way (`Present`), and that what is in force
  is the store's unless a token or an event is under way (`InForce`).
- *ReceiverSync.* From `Mutate` on the shared configuration is the response being
  applied, which is valid and not the saved one (`Working`). So a failure after `Mutate`
  leaves the shared configuration different from the saved one, and the hash is only
  saved when the last holder has it.
- *OperatorPod.* `Enough` counts: the failures an old allocator has had and the
  probes that will still fail before the window (or the sleep) is over reach the
  threshold. Neither a tick nor a failing probe changes that sum; that is why the
  window must exceed the threshold and why an allocator younger than `TADelay + Threshold - Window` is out of reach. `Certificates`
  compares the sleep with the time a mount takes, `Fresh` the age of a new
  allocator with the window.
- *CollectorPod.* An empty output file means that nothing watched has changed since
  it was made (`Recorded`); the settings are read after their watch began and only
  the client certificates' watch truncates the file (`ReadAfterWatch`). `Slept`
  bounds the age of a start stage by stage by its own sleeps, the tries made and what
  it waited for others, a request that is not answered included. `Patience` says that
  every probe since the grace ended has failed, over however many minutes they are
  spread; `Proven` relates the HTTPS check to its answer.
- *ConfigPipeline.* The stages write files for one another, so the invariant says
  what each file holds after each stage: `Parsed` (environment and hashes come
  from the settings), `Merged` (each job written has all the rules its target
  asks for; the custom part is whole), `Judged` (which file the validator's
  answers leave), `Chosen`. `CcpStages` is the same for the control plane.
  `DefaultsSurvive` and `ScrapedOnce` hold because of what the charts deploy, which
  `ChartAssumption` says: one mode per cluster, one workload per controller and
  system, Windows for daemonsets only, and a configuration reader exactly with the
  operator. One combination the charts allow is outside it: the deployment of the
  addon's collector sets `AZMON_OPERATOR_ENABLED` for `or TargetAllocatorEnabled
  operatorEnabled`, the allocator's pod with the configuration reader is deployed
  for `operatorEnabled` alone (`_arc-extension-helpers.tpl:31-36`). An Arc extension
  with `ArcEnableOperator` false and `TargetAllocatorEnabled` true, which are not the
  values shipped (`values-template.yaml:58`, `:175`), has the one without the other.
- *Appender.* `AppInv` says what the transaction's maps hold in terms of the history
  `appended`. A family that was not displaced has the type its name's metadata gives
  it, each of its groups has the value, the count and the sum of the last sample
  that was such a part, its points are those of the point samples, no fewer and no
  more (`Pointed`), its buckets those of one of its native samples (`Sourced`), and all
  samples of a group have its time (`Tracked`); a family that only an exemplar looked
  for has no groups (`Ownless`); a group has as many exemplars as its samples
  brought (`Counted`); a resource has the attributes of its `target_info` samples,
  and a scope those of its `otel_scope_info` (`Informed`). It is kept by a sample
  because the code finds the same family for it as the first sample of that family
  made (`SampleEffect`), and because the second lookup, for the exemplar, finds
  the group the first one has just stored. After `Commit` nothing changes any more
  and what was sent is what the maps hold (`Delivered`). The theorems then go from
  groups to points; `NothingLost` also needs that sorting loses no boundary, which
  holds because no two points have the same `Rank`.
- *Buckets.* `BucketsRight` is about sums and loops of any length, so it needs
  induction over the data. The library's induction theorems take an operator, which
  the provers cannot instantiate, but the one about least elements of a well-founded
  relation takes a set: `Least` and `Induct` follow from it, and from those that a
  function defined by its predecessor exists and is the only one (`Recursion`,
  `SameSteps`, `Unique`). That gives the recursive functions `Total`, `LayOut` and
  `LayIn` their defining equations (`TotalSteps`, `LayOutSteps`, `LayInSteps`). A
  classic histogram: the sorted points grow with their rank (`SortedRight`), so no
  difference is negative and the differences add up to the points again
  (`BucketsAddUp`). A native one: after k spans exactly the buckets of these k spans
  are where `SpanStart` says and the rest is zero (`Placed`), the loops' invariant;
  one more span keeps it (`PlacedMore`), whether it is appended after a gap of zeros
  (`LaidOut`) or written into the custom boundaries (`LaidIn`). `AppInv` links the
  points of a group to the samples, and `PointSettled` the batch to the groups.

Only model-checked: liveness (all `Eventually...`, `SharesFollowHealth`,
`RestartedWhenDue`), which the prover does not handle. The invariants and the
refinement that the passing runs check all have a theorem.

## 5. What is not modelled

- How the discovery manager reacts to an empty set of jobs; an allocator started
  without the CR watcher; the closing of the discoverer and of the CR watcher.
- Contents: labels, relabelling rules, hashes, the configuration the operator
  library generates, YAML. They are versions or attributes.
- The configuration reader's branch without any configuration (the default one
  ships in the image), and two operator pods at once during a rolling update,
  each of which would replace the other's certificates.
- Cryptography, rendering, logging, telemetry transport.
- In the appender, the first version of its interface (`append`,
  `appendHistogram`, ...), which only tests call, and the resource attributes
  derived from a target's address.
- A restarted allocator that answers before its first load
  (`otel-allocator/main.go:152`) together with the receivers that poll it.
- Health metrics and the fluent-bit plugin: counters behind mutexes that are
  exported by tickers; nothing in the other components depends on them.
- The remaining read-only HTTP handlers, flags, API types, test harnesses, UI.

## 6. Findings

Each has a configuration with which TLC shows it. The first two are runs of
`PROJECT.json`. The others are confined by the properties of the passing runs, which
name them as their exceptions; for them, `tlc -config <configuration> <module>` ends with
the property of the table violated.

| Finding | Module | Configuration | Violated |
|---|---|---|---|
| 1 | MCOperatorPod | `OperatorPodMissed.cfg` | `EventuallyPickedUp` |
| 2 | MCConfigPipeline | `ConfigMalformed.cfg` | `DefaultsSurviveAny` |
| 3 | MCConfigPipeline | `ConfigNotMapping.cfg` | `DefaultsSurviveAny` |
| 4 | MCConfigPipeline | `ConfigUnreported.cfg` | `CcpReported` |
| 5 | MCReceiverSync | `ReceiverSyncReverted.cfg` | `NoUpdateNeeded` |
| 6 | MCCollectorPod | `CollectorPodNoOperator.cfg` | `ServesWithoutOperator` |
| 7 | MCAppender | `AppenderDisplaced.cfg` | `NothingDropped` |
| 8 | MCAppender | `AppenderScattered.cfg` | `CustomBucketsRight` |

1. The 60 s window of `/health-ta` is as long as the initial delay of the
   allocator's probe: an allocator that started just before the write is never
   restarted and keeps the old configuration
   (`configuration-reader-builder/main.go:244`, run `operator_pod_missed`).
2. A custom configuration that is not YAML takes default targets with it: the
   merger returns before it has made the working copies of the default files
   (`shared/configmap/mp/prometheus-config-merger.go:1609`, run
   `config_defaults_lost`), while the end-to-end test "Errorprone custom configmap,
   def settings targets turned on" expects them.
3. A custom `scrape_configs` with an item that is no mapping panics in
   `setLabelLimitsPerScrape` (`prometheus-config-merger.go:1584`): `main` ends at
   every start and no default is scraped, although a custom configuration that is wrong
   is meant not to be used.
4. Under schema v1 a settings file that cannot be read is logged and skipped
   (`shared/helpers.go:372`, `:413`): the control plane scrapes
   its defaults and the flag for invalid settings is not set. Under v2 it is. The
   cluster's pipeline reads the settings with the same two functions.
5. After a sync that failed in `applyCfg`, an allocator that returns to the response
   saved before is taken for "no update needed", and the failed configuration stays in
   force (`targetallocator/manager.go:142`).
6. A cluster's replicaset without the operator, which the chart can deploy, rewrites a
   section of its configuration that does not exist and panics at every start
   (`shared/collector_replicaset_config_helper.go:33`).
7. A suffixed metric without metadata whose trimmed name is that of a gauge displaces the
   gauge's family (`transaction.go:236`), although DESIGN.md
   says "it shall not drop data".
8. `convertNHCBAbsoluteBuckets` indexes the counts from the start of each span, which is
   wrong for two or more spans (`metricfamily.go:339`); the
   delta version has a running index.

Noticed while modelling, without a run of their own:

- An item's `CollectorName` is written by the allocator although items are
  documented not to be modified after creation.
- `Collector.Hash` is the name alone, so a collector that returns on another node
  between two calls keeps its old node in the table.
- A secret deleted while a load fetches it stays in the asset store.
- In the configuration reader nothing listens during the 90 s sleep (its comment
  says 10), so with TLS a fresh allocator may be killed once more by refused
  probes; and `/health-ta` reports a hung allocator as healthy, since
  `http.NewRequest` does not fail and an unanswered call writes no status.
- `configsMap` is written and iterated without the mutex that is documented to
  guard it, by two goroutines (`internal/target/discovery.go:108`, `:114`; comment
  at `:36`). The documented skip of an unchanged configuration never happens: two
  hash objects are compared, not two hashes (`:126-128`, `:331`).
- In the supervisor, the watch of the client certificates re-creates
  `/opt/inotifyoutput.txt`, which already records settings changes
  (`main/main.go:217-219`); a change during start-up is erased and never applied.
  On Windows a change between parsing and the first hash is lost.
- `WaitForTokenAdapter` ends after its limit only when a request fails; an adapter
  that answers anything but 200 keeps it waiting. A Linux daemonset whose adapter
  refuses connections waits 60 s, then sleeps 40 s, and is killed at 90 s: it is
  restarted for ever. The same holds of the control plane's pod, and of a
  replicaset that also misses the CA certificate. The request of the HTTPS check has no
  timeout: an allocator that accepts and never answers holds the start up until the
  kubelet ends it (`collector_replicaset_config_helper.go:104`). `StartsInTime` names
  these waits as the only reasons.
- The fallback from HTTPS to HTTP lasts until the next restart, and its error is ignored
  (`collector_replicaset_config_helper.go:137`): the collector then starts with HTTPS
  settings that were not proven. fluent-bit, the
  user interface and cron are not supervised. A proxy address without ":" stops
  `ConfigureEnvironment` with an index out of range.
- The fallback to the defaults, and the control plane always, copy the validator's
  output file whether or not the validator accepted it. `controlplane-istio` has a
  fixed timeout of 10 s, so that an interval below 10 s makes all defaults fail.
- One keep list that does not compile removes all keep lists. Five keys set to the
  empty string switch off every other enabled default target. There is no keep
  list for `prometheuscollectorhealth`. The ConfigMap cannot switch the operator
  off. The branch of `populateKeepList` for unknown schemas cannot be reached.
- In the appender, the stale marker of a series with custom buckets is
  stored as an exponential histogram and may be refused. With external labels
  exemplars are looked up by the labels before them and dropped. A histogram with custom
  buckets but no boundaries gives no point. A scrape of infos only is committed with
  an error. A classic bucket that goes away while the histogram stays leaves its
  staleness marker among the points, where it is subtracted like a number. `NothingLost`,
  `BucketsRight`, `StaleSeen` and `ExemplarsFollow` name these cases and findings 7 and 8
  as their only exceptions; `BucketsRight` is also only about histograms that are ones (`Cumulative`
  buckets, `Valid` spans: one count for each bucket, none negative or beyond 64 bits,
  spans in order and within the boundaries, which Prometheus's parser sees to).

## 7. Plan

What would come next, in this order.

1. **ScrapeCycle**: the composition of allocator, server and receivers. Each target
   is scraped by its collector only, up to the poll interval; a restarted
   allocator that answers before its first load (`otel-allocator/main.go:152`);
   the promise to receivers as an abstract specification.
2. **HealthMetrics** and the telemetry plugin: counters counted, exported and
   reset by concurrent tickers.
3. Label merging of target groups as a pure algorithm against a reference
   definition.
4. Proofs: type correctness and the safety of those compositions; every invariant
   of the present runs has its theorem.
