------------------------------ MODULE CRWatcher ------------------------------
(***************************************************************************)
(* PrometheusCRWatcher (otel-allocator/internal/watcher/promOperator.go)   *)
(* and the event loop of main.go: how a change of a Prometheus custom      *)
(* resource, a secret or a namespace reaches Discoverer.ApplyConfig.       *)
(*                                                                         *)
(* Informers update their stores and then, in a goroutine of their own,    *)
(* call the handlers Watch registered.  The handlers put a token in        *)
(* notifyEvents (capacity 1); a ticker takes it, offers an event to the    *)
(* event loop without blocking, and puts the token back when the loop is   *)
(* busy.  The loop loads the configuration from the stores, one kind after *)
(* the other, and applies it; after an error it only logs.                 *)
(*                                                                         *)
(* The content of a store, a secret or the asset store is a version        *)
(* number, 0 when there is nothing.                                        *)
(***************************************************************************)
EXTENDS Naturals, Sequences

CONSTANTS
    Kind,         \* the custom resources whose CRD exists
    MaxVersion,   \* bound: versions of one store
    MaxChanges,   \* bound: changes of the cluster
    MaxFailures   \* bound: failing loads, applies and secret reads

ASSUME CRAssumption ==
    /\ Kind # {} /\ {"secrets", "namespaces"} \cap Kind = {}
    /\ MaxVersion \in Nat \ {0} /\ MaxChanges \in Nat /\ MaxFailures \in Nat

Informer == Kind \cup {"secrets", "namespaces"}
Notice == {"add", "update", "delete", "resync"}

VARIABLES
    watch,        \* where Watch is
    todo,         \* the informers its loop has not come to
    success,      \* its variable of that name
    running,      \* informers that were started
    handled,      \* informers with a handler
    store,        \* [Informer -> version in the informer's store]
    queue,        \* [Informer -> notices on their way to the handler]
    secret,       \* the version of the secret in the API server
    assets,       \* its version in the asset store
    notify,       \* notifyEvents
    sender,       \* rateLimitedEventSender: "tick", or "taken" with the token
    loop,         \* the event loop: "select", "load", "generate", "apply"
    unlisted,     \* kinds LoadConfig has still to select
    loaded,       \* what it selected
    fetched,      \* the secret it read and has not put in the asset store, 0: none
    applied,      \* what ApplyConfig was last given
    changes, failures,
    clean,        \* history: the last event was loaded and applied
    missed        \* history: a change of the secret passed the asset store by

watching == <<watch, todo, success, running, handled>>
cluster == <<store, queue, secret, changes>>
sending == <<notify, sender>>
loading == <<loop, unlisted, loaded, fetched, applied>>
history == <<clean, missed>>
vars == <<watching, cluster, assets, sending, loading, failures, history>>

Selection == [objects : 0..MaxVersion, namespaces : 0..MaxVersion]
Config == [selected : [Kind -> Selection], secret : 0..MaxVersion]
NoConfig == [selected |-> [k \in Kind |-> [objects |-> 0, namespaces |-> 0]], secret |-> 0]

TypeOK ==
    /\ watch \in {"namespace", "informers", "sending", "exited"}
    /\ todo \subseteq Informer /\ success \in BOOLEAN
    /\ running \subseteq Informer /\ handled \subseteq running
    /\ store \in [Informer -> 0..MaxVersion]
    /\ queue \in [Informer -> Seq(Notice)]
    /\ secret \in 0..MaxVersion /\ assets \in 0..MaxVersion
    /\ notify \in BOOLEAN /\ sender \in {"tick", "taken"}
    /\ loop \in {"select", "load", "generate", "apply"}
    /\ unlisted \subseteq Kind
    /\ loaded \in Config /\ applied \in Config /\ fetched \in 0..MaxVersion
    /\ changes \in 0..MaxChanges /\ failures \in 0..MaxFailures 
    /\ clean \in BOOLEAN /\ missed \in BOOLEAN

\* main loads and applies a configuration before Watch starts the informers:
\* their stores are empty then.
Init ==
    /\ watch = "namespace" /\ todo = Kind \cup {"secrets"} /\ success = TRUE
    /\ running = {} /\ handled = {}
    /\ store = [i \in Informer |-> 0] /\ queue = [i \in Informer |-> << >>]
    /\ secret \in 0..1 /\ assets = 0
    /\ notify = FALSE /\ sender = "tick"
    /\ loop = "select" /\ unlisted = {} /\ loaded = NoConfig /\ applied = NoConfig /\ fetched = 0
    /\ changes = 0 /\ failures = 0 /\ clean = TRUE /\ missed = FALSE

-----------------------------------------------------------------------------
(* Watch.                                                                   *)

\* Adding a handler to a running informer replays the objects of its store.
AddEventHandler(i) ==
    /\ handled' = handled \cup {i}
    /\ queue' = [queue EXCEPT ![i] = IF store[i] = 0 THEN @ ELSE Append(@, "add")]

StartInformer(i) ==
    /\ i \notin running
    /\ \/ watch = "namespace" /\ i = "namespaces"
       \/ watch = "informers" /\ i \in todo /\ running \cap todo = {}
    /\ running' = running \cup {i}
    /\ UNCHANGED <<watch, todo, success, handled, cluster, assets, sending, loading, failures, history>>

\* The namespace informer gets its handler whether or not it synced in time.
SyncNamespaces(ok) ==
    /\ watch = "namespace" /\ "namespaces" \in running
    /\ success' = ok
    /\ AddEventHandler("namespaces")
    /\ watch' = "informers"
    /\ UNCHANGED <<todo, running, store, secret, changes, assets, sending, loading, failures, history>>

\* Any other informer is skipped, without a handler, when it is late.
SyncInformer(i, ok) ==
    /\ watch = "informers" /\ i \in todo \cap running
    /\ IF ok THEN AddEventHandler(i) ELSE UNCHANGED <<handled, queue>>
    /\ todo' = todo \ {i}
    /\ UNCHANGED <<watch, success, running, store, secret, changes, assets, sending, loading,
                   failures, history>>

\* Watch starts the sender, or returns an error, which ends the run group.
FinishWatch ==
    /\ watch = "informers" /\ todo = {}
    /\ watch' = IF success THEN "sending" ELSE "exited"
    /\ UNCHANGED <<todo, success, running, handled, cluster, assets, sending, loading,
                   failures, history>>

-----------------------------------------------------------------------------
(* The cluster and the informers, which are external.                       *)

Enqueue(i, notice) ==
    queue' = [queue EXCEPT ![i] = IF i \in handled THEN Append(@, notice) ELSE @]

\* A resource or a namespace appears or changes in the store of a running
\* informer.
ObjectChanges(i) ==
    /\ i \in running \ {"secrets"} /\ watch # "exited"
    /\ changes < MaxChanges /\ store[i] < MaxVersion
    /\ changes' = changes + 1
    /\ store' = [store EXCEPT ![i] = @ + 1]
    /\ Enqueue(i, IF store[i] = 0 THEN "add" ELSE "update")
    /\ UNCHANGED <<secret, watching, assets, sending, loading, failures, history>>

\* The secret is created, changed or deleted in the API server.  A running
\* informer sees every change.
SecretChanges(v) ==
    /\ watch # "exited"
    /\ "secrets" \in running => store["secrets"] = secret
    /\ changes < MaxChanges /\ v # secret
    /\ changes' = changes + 1
    /\ secret' = v
    /\ UNCHANGED <<store, queue, watching, assets, sending, loading, failures, history>>

\* The metadata informer hears of it.
SecretObserved ==
    /\ "secrets" \in running /\ watch # "exited" /\ store["secrets"] # secret
    /\ store' = [store EXCEPT !["secrets"] = secret]
    /\ Enqueue("secrets", IF secret = 0 THEN "delete"
                          ELSE IF store["secrets"] = 0 THEN "add" ELSE "update")
    /\ UNCHANGED <<secret, changes, watching, assets, sending, loading, failures, history>>

\* Fault: informers are created without a resync period.
ResyncNever(i) == FALSE /\ UNCHANGED vars

\* Every five minutes a handler gets an update for every object in the store.
Resync(i) ==
    /\ i \in handled /\ watch = "sending" /\ store[i] # 0 /\ queue[i] = << >>
    /\ Enqueue(i, "resync")
    /\ UNCHANGED <<store, secret, changes, watching, assets, sending, loading, failures, history>>

-----------------------------------------------------------------------------
(* The handlers.                                                            *)

Dequeue(i) == queue' = [queue EXCEPT ![i] = Tail(@)]

HandleObject(k) ==
    /\ k \in Kind /\ queue[k] # << >> /\ watch # "exited"
    /\ Dequeue(k)
    /\ notify' = TRUE
    /\ UNCHANGED <<store, secret, changes, watching, assets, sender, loading, failures, history>>

\* Only an update that changes what a selector matches counts; there is no
\* handler for new and deleted namespaces, and a resync changes nothing.
HandleNamespace ==
    /\ queue["namespaces"] # << >> /\ watch # "exited"
    /\ Dequeue("namespaces")
    /\ notify' = (notify \/ Head(queue["namespaces"]) = "update")
    /\ UNCHANGED <<store, secret, changes, watching, assets, sender, loading, failures, history>>

\* Fault: the new secret is not put in the asset store.
HandleSecretKeepsAsset ==
    /\ queue["secrets"] # << >> /\ watch # "exited"
    /\ Dequeue("secrets")
    /\ notify' = TRUE
    /\ UNCHANGED <<store, secret, changes, watching, assets, sender, loading, failures, history>>

\* handleSecretUpdate and handleSecretDelete act only on a secret that is in
\* the asset store; an update reads the secret from the API server again.
HandleSecret ==
    /\ queue["secrets"] # << >> /\ watch # "exited"
    /\ Dequeue("secrets")
    /\ LET notice == Head(queue["secrets"]) IN
       \/ /\ notice = "add"
          /\ notify' = TRUE /\ UNCHANGED assets
       \/ /\ notice \in {"update", "resync"} /\ assets # 0 /\ secret # 0
          /\ assets' = secret /\ notify' = TRUE
       \/ /\ notice = "delete" /\ assets # 0
          /\ assets' = 0 /\ notify' = TRUE
       \/ /\ notice # "add" /\ (assets = 0 \/ (notice # "delete" /\ secret = 0))
          /\ UNCHANGED <<assets, notify>>
    /\ missed' = (missed /\ assets' # secret)
    /\ UNCHANGED <<store, secret, changes, watching, sender, loading, failures, clean>>

\* Reading the secret fails: the update is skipped.
SecretReadFails ==
    /\ queue["secrets"] # << >> /\ watch # "exited"
    /\ Head(queue["secrets"]) \in {"update", "resync"} /\ assets # 0
    /\ failures < MaxFailures /\ failures' = failures + 1
    /\ missed' = TRUE
    /\ Dequeue("secrets")
    /\ UNCHANGED <<store, secret, changes, watching, assets, sending, loading, clean>>

-----------------------------------------------------------------------------
(* rateLimitedEventSender.                                                  *)

Tick ==
    /\ watch = "sending" /\ sender = "tick" /\ notify
    /\ notify' = FALSE
    /\ sender' = "taken"
    /\ UNCHANGED <<watching, cluster, assets, loading, failures, history>>

\* Fault: an event the loop cannot take is dropped.
OfferEventDrops ==
    /\ sender = "taken" /\ watch = "sending"
    /\ sender' = "tick"
    /\ IF loop = "select"
       THEN loop' = "load" /\ unlisted' = Kind
       ELSE UNCHANGED <<loop, unlisted>>
    /\ UNCHANGED <<notify, loaded, fetched, applied, watching, cluster, assets, failures, history>>

\* The send succeeds only while the event loop is in its select.
OfferEvent ==
    /\ sender = "taken" /\ watch = "sending"
    /\ sender' = "tick"
    /\ IF loop = "select"
       THEN loop' = "load" /\ unlisted' = Kind /\ UNCHANGED notify
       ELSE notify' = TRUE /\ UNCHANGED <<loop, unlisted>>
    /\ UNCHANGED <<loaded, fetched, applied, watching, cluster, assets, failures, history>>

-----------------------------------------------------------------------------
(* The event loop: LoadConfig and ApplyConfig.                              *)

\* One kind's selection, through the namespaces known at that moment.
SelectKind(k) ==
    /\ loop = "load" /\ k \in unlisted
    /\ loaded' = [loaded EXCEPT !.selected[k] =
                     [objects |-> store[k], namespaces |-> store["namespaces"]]]
    /\ unlisted' = unlisted \ {k}
    /\ loop' = IF unlisted' = {} THEN "generate" ELSE "load"
    /\ UNCHANGED <<fetched, applied, watching, cluster, assets, sending, failures, history>>

\* A secret that is not in the asset store is read from the API server ...
FetchSecret ==
    /\ loop = "generate" /\ assets = 0 /\ fetched = 0 /\ secret # 0
    /\ fetched' = secret
    /\ UNCHANGED <<loop, unlisted, loaded, applied, watching, cluster, assets, sending, failures,
                   history>>

\* ... and added to it afterwards, over nothing a handler may have skipped in
\* between; a secret that is there is used as it is.
Generate ==
    /\ loop = "generate"
    /\ \/ assets # 0 /\ UNCHANGED assets
       \/ assets = 0 /\ (fetched # 0 \/ secret = 0) /\ assets' = fetched
    /\ loaded' = [loaded EXCEPT !.secret = assets']
    /\ fetched' = 0
    /\ loop' = "apply"
    /\ missed' = (missed \/ (fetched # 0 /\ fetched # secret))
    /\ UNCHANGED <<unlisted, applied, watching, cluster, sending, failures, clean>>

Apply ==
    /\ loop = "apply"
    /\ applied' = loaded
    /\ loop' = "select"
    /\ clean' = TRUE
    /\ loaded' = NoConfig
    /\ UNCHANGED <<unlisted, fetched, watching, cluster, assets, sending, failures, missed>>

\* Any error of LoadConfig or ApplyConfig sends the loop back to its select.
LoadOrApplyFails ==
    /\ loop \in {"load", "generate", "apply"}
    /\ failures < MaxFailures /\ failures' = failures + 1
    /\ clean' = FALSE
    /\ loop' = "select" /\ unlisted' = {} /\ loaded' = NoConfig /\ fetched' = 0
    /\ UNCHANGED <<applied, watching, cluster, assets, sending, missed>>

Next ==
    \/ \E i \in Informer : StartInformer(i)
    \/ \E ok \in BOOLEAN : SyncNamespaces(ok)
    \/ \E i \in Informer, ok \in BOOLEAN : SyncInformer(i, ok)
    \/ FinishWatch
    \/ \E i \in Informer : ObjectChanges(i)
    \/ \E v \in 0..MaxVersion : SecretChanges(v)
    \/ SecretObserved
    \/ \E i \in Informer : Resync(i)
    \/ \E k \in Kind : HandleObject(k)
    \/ HandleNamespace \/ HandleSecret \/ SecretReadFails
    \/ Tick \/ OfferEvent
    \/ \E k \in Kind : SelectKind(k)
    \/ FetchSecret \/ Generate \/ Apply \/ LoadOrApplyFails

\* The cluster's watches, the ticker, the handlers and the event loop all go on,
\* the resync timer fires again and again, and a cache sync ends in success or
\* timeout.  Nothing is assumed about changes and failures.
Fairness ==
    /\ WF_vars(\E i \in Informer : StartInformer(i))
    /\ WF_vars(\E ok \in BOOLEAN : SyncNamespaces(ok))
    /\ WF_vars(\E i \in Informer, ok \in BOOLEAN : SyncInformer(i, ok))
    /\ WF_vars(FinishWatch) /\ WF_vars(SecretObserved)
    /\ \A i \in Informer : WF_vars(Resync(i))
    /\ \A k \in Kind : WF_vars(HandleObject(k))
    /\ WF_vars(HandleNamespace) /\ WF_vars(HandleSecret \/ SecretReadFails)
    /\ WF_vars(Tick) /\ WF_vars(OfferEvent)
    /\ WF_vars((\E k \in Kind : SelectKind(k)) \/ FetchSecret \/ Generate \/ Apply \/ LoadOrApplyFails)

Spec == Init /\ [][Next]_vars
FairSpec == Spec /\ Fairness

-----------------------------------------------------------------------------
(* Properties.                                                              *)

Quiet ==
    /\ watch = "sending"
    /\ \A i \in Informer : queue[i] = << >>
    /\ store["secrets"] = secret
    /\ ~ notify /\ sender = "tick" /\ loop = "select"

\* The rate limiter and the one-place channel lose nothing: when no notice, no
\* token and no event is under way and the last event was applied, the applied
\* configuration has the newest objects of every kind with a handler, even if
\* they changed while LoadConfig went from kind to kind or while the loop was
\* busy and the event had to be put back.  Nor does a changed or deleted secret stay
\* in the asset store, however its handlers interleave with loads; unless reading it
\* failed, or it changed between being fetched by a load and being added, when the
\* handlers skip it.
NothingForgotten ==
    Quiet /\ clean =>
        /\ \A k \in Kind \cap handled : applied.selected[k].objects = store[k]
        /\ ~ missed /\ "secrets" \in handled => applied.secret = secret

Resynced == {k \in Kind \cap handled : store[k] # 0}

\* What has no notice of its own (a new namespace, the objects of a skipped
\* informer) and what an error or an overlap lost (a failed load or apply, an
\* unreadable secret, a secret changed while a load fetched it) is applied in
\* the end, as long as the resync of some kind wakes the loop.  A secret that
\* was deleted while it was being fetched is left out: no resync brings it up.
EventuallyCurrent ==
    <>[]( \/ watch = "exited" \/ Resynced = {}
          \/ /\ \A k \in Kind : applied.selected[k] =
                   [objects |-> store[k], namespaces |-> store["namespaces"]]
             /\ "secrets" \in handled /\ secret # 0 => applied.secret = secret )
=============================================================================
