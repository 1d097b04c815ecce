--------------------------- MODULE CRWatcherProofs ---------------------------
(***************************************************************************)
(* Proofs about CRWatcher: for any kinds of custom resources, the          *)
(* rate-limited sender forgets no change.                                  *)
(***************************************************************************)
EXTENDS CRWatcher, TLAPS

\* Before the sender runs no event has been sent.
NotYet == watch # "sending" => sender = "tick" /\ loop = "select" /\ applied = NoConfig

\* The newest objects of a kind with a handler are announced by a notice, the
\* token or an event, are still to be selected, or have been.
Announced ==
    \A k \in Kind \cap handled : queue[k] = << >> /\ ~ notify /\ sender = "tick" =>
        /\ loop = "select" /\ clean => applied.selected[k].objects = store[k]
        /\ loop = "load" /\ k \notin unlisted => loaded.selected[k].objects = store[k]
        /\ loop \in {"generate", "apply"} => loaded.selected[k].objects = store[k]

IInv == TypeOK /\ NotYet /\ Announced

\* The invariant holds in every reachable state.
LEMMA Inductive == Spec => []IInv
<1> USE CRAssumption DEF Informer
<1>1. Init => IInv
  <2> SUFFICES ASSUME Init PROVE IInv
    OBVIOUS
  <2>1. NoConfig \in Config
    BY DEF NoConfig, Config, Selection
  <2>2. queue \in [Informer -> Seq(Notice)] /\ store \in [Informer -> 0..MaxVersion]
    BY DEF Init
  <2>3. /\ secret \in 0..MaxVersion /\ assets \in 0..MaxVersion /\ fetched \in 0..MaxVersion
        /\ changes \in 0..MaxChanges /\ failures \in 0..MaxFailures
    BY DEF Init
  <2>4. success \in BOOLEAN /\ notify \in BOOLEAN /\ clean \in BOOLEAN /\ missed \in BOOLEAN
    BY DEF Init
  <2>5. todo \subseteq Informer /\ running \subseteq Informer /\ handled \subseteq running
        /\ unlisted \subseteq Kind
    BY DEF Init
  <2>6. TypeOK
    BY <2>1, <2>2, <2>3, <2>4, <2>5 DEF Init, TypeOK
  <2>7. NotYet /\ Announced
    BY DEF Init, NotYet, Announced, NoConfig
  <2> QED
    BY <2>6, <2>7 DEF IInv
<1>2. TypeOK /\ [Next]_vars => TypeOK'
  <2> SUFFICES ASSUME TypeOK, [Next]_vars PROVE TypeOK'
    OBVIOUS
  <2> USE DEF TypeOK, Notice, watching, cluster, sending, loading, history
  <2>1. ASSUME NEW i \in Informer, StartInformer(i) PROVE TypeOK'
    BY <2>1 DEF StartInformer
  <2>2. ASSUME NEW ok \in BOOLEAN, SyncNamespaces(ok) PROVE TypeOK'
    <3>1. handled' \subseteq running
      BY <2>2 DEF SyncNamespaces, AddEventHandler
    <3>2. queue' \in [Informer -> Seq(Notice)]
      BY <2>2 DEF SyncNamespaces, AddEventHandler
    <3> QED
      BY <2>2, <3>1, <3>2 DEF SyncNamespaces
  <2>3. ASSUME NEW i \in Informer, NEW ok \in BOOLEAN, SyncInformer(i, ok) PROVE TypeOK'
    <3>1. handled' \subseteq running
      BY <2>3 DEF SyncInformer, AddEventHandler
    <3>2. queue' \in [Informer -> Seq(Notice)]
      <4>1. CASE ok
        <5>1. AddEventHandler(i)
          BY <2>3, <4>1 DEF SyncInformer
        <5> QED
          BY <5>1 DEF AddEventHandler
      <4>2. CASE ~ ok
        BY <2>3, <4>2 DEF SyncInformer
      <4> QED
        BY <4>1, <4>2
    <3>3. todo' \subseteq Informer
      BY <2>3 DEF SyncInformer
    <3> QED
      BY <2>3, <3>1, <3>2, <3>3 DEF SyncInformer
  <2>4. CASE FinishWatch
    BY <2>4 DEF FinishWatch
  <2>5. ASSUME NEW i \in Informer, ObjectChanges(i) PROVE TypeOK'
    <3>1. store' \in [Informer -> 0..MaxVersion]
      BY <2>5 DEF ObjectChanges
    <3>2. queue' \in [Informer -> Seq(Notice)]
      <4>1. PICK n \in Notice : Enqueue(i, n)
        BY <2>5 DEF ObjectChanges
      <4>2. Append(queue[i], n) \in Seq(Notice)
        OBVIOUS
      <4> QED
        BY <4>1, <4>2 DEF Enqueue
    <3>3. changes' \in 0..MaxChanges
      BY <2>5 DEF ObjectChanges
    <3> QED
      BY <2>5, <3>1, <3>2, <3>3 DEF ObjectChanges
  <2>6. ASSUME NEW v \in 0..MaxVersion, SecretChanges(v) PROVE TypeOK'
    <3>1. changes' \in 0..MaxChanges
      BY <2>6 DEF SecretChanges
    <3> QED
      BY <2>6, <3>1 DEF SecretChanges
  <2>7. CASE SecretObserved
    <3>1. store' \in [Informer -> 0..MaxVersion]
      BY <2>7 DEF SecretObserved
    <3>2. queue' \in [Informer -> Seq(Notice)]
      BY <2>7 DEF SecretObserved, Enqueue
    <3> QED
      BY <2>7, <3>1, <3>2 DEF SecretObserved
  <2>8. ASSUME NEW i \in Informer, Resync(i) PROVE TypeOK'
    <3>1. queue' \in [Informer -> Seq(Notice)]
      BY <2>8 DEF Resync, Enqueue
    <3> QED
      BY <2>8, <3>1 DEF Resync
  <2>9. ASSUME NEW i \in Kind, HandleObject(i) PROVE TypeOK'
    <3>1. queue' \in [Informer -> Seq(Notice)]
      BY <2>9 DEF HandleObject, Dequeue
    <3> QED
      BY <2>9, <3>1 DEF HandleObject
  <2>10. CASE HandleNamespace
    <3>1. queue' \in [Informer -> Seq(Notice)]
      BY <2>10 DEF HandleNamespace, Dequeue
    <3> QED
      BY <2>10, <3>1 DEF HandleNamespace
  <2>11. CASE HandleSecret
    <3>1. queue' \in [Informer -> Seq(Notice)]
      BY <2>11 DEF HandleSecret, Dequeue
    <3>2. assets' \in 0..MaxVersion
      BY <2>11 DEF HandleSecret
    <3>3. notify' \in BOOLEAN
      BY <2>11, Zenon DEF HandleSecret
    <3>4. missed' \in BOOLEAN
      BY <2>11 DEF HandleSecret
    <3> QED
      BY <2>11, <3>1, <3>2, <3>3, <3>4 DEF HandleSecret
  <2>12. CASE SecretReadFails
    <3>1. queue' \in [Informer -> Seq(Notice)]
      BY <2>12 DEF SecretReadFails, Dequeue
    <3>2. failures' \in 0..MaxFailures
      BY <2>12 DEF SecretReadFails
    <3> QED
      BY <2>12, <3>1, <3>2 DEF SecretReadFails
  <2>13. CASE Tick
    BY <2>13 DEF Tick
  <2>14. CASE OfferEvent
    BY <2>14 DEF OfferEvent
  <2>15. ASSUME NEW i \in Kind, SelectKind(i) PROVE TypeOK'
    <3>1. loaded' \in Config
      BY <2>15 DEF SelectKind, Config, Selection
    <3> QED
      BY <2>15, <3>1 DEF SelectKind
  <2>16. CASE Generate
    <3>1. assets' \in 0..MaxVersion
      BY <2>16 DEF Generate
    <3>2. loaded' \in Config
      BY <2>16, <3>1 DEF Generate, Config
    <3>3. missed' \in BOOLEAN
      BY <2>16 DEF Generate
    <3> QED
      BY <2>16, <3>1, <3>2, <3>3 DEF Generate
  <2>17. CASE Apply
    <3>1. NoConfig \in Config
      BY DEF NoConfig, Config, Selection
    <3> QED
      BY <2>17, <3>1 DEF Apply
  <2>18. CASE LoadOrApplyFails
    <3>1. NoConfig \in Config
      BY DEF NoConfig, Config, Selection
    <3>2. failures' \in 0..MaxFailures
      BY <2>18 DEF LoadOrApplyFails
    <3>3. fetched' \in 0..MaxVersion /\ unlisted' \subseteq Kind
      BY <2>18 DEF LoadOrApplyFails
    <3>4. clean' \in BOOLEAN
      BY <2>18, Zenon DEF LoadOrApplyFails
    <3> QED
      BY <2>18, <3>1, <3>2, <3>3, <3>4 DEF LoadOrApplyFails
  <2>19. CASE FetchSecret
    BY <2>19 DEF FetchSecret
  <2>20. CASE UNCHANGED vars
    BY <2>20 DEF vars
  <2> HIDE DEF TypeOK, Notice, watching, cluster, sending, loading, history, Informer
  <2> QED
    BY <2>1, <2>2, <2>3, <2>4, <2>5, <2>6, <2>7, <2>8, <2>9, <2>10, <2>11, <2>12, <2>13, <2>14,
       <2>15, <2>16, <2>17, <2>18, <2>19, <2>20 DEF Next
<1>3. TypeOK /\ NotYet /\ [Next]_vars => NotYet'
  <2> SUFFICES ASSUME TypeOK, NotYet, [Next]_vars PROVE NotYet'
    OBVIOUS
  <2> USE DEF TypeOK, NotYet, watching, cluster, sending, loading, history
  <2>1. ASSUME NEW i \in Informer, StartInformer(i) PROVE NotYet'
    BY <2>1 DEF StartInformer
  <2>2. ASSUME NEW ok \in BOOLEAN, SyncNamespaces(ok) PROVE NotYet'
    BY <2>2 DEF SyncNamespaces, AddEventHandler
  <2>3. ASSUME NEW i \in Informer, NEW ok \in BOOLEAN, SyncInformer(i, ok) PROVE NotYet'
    BY <2>3 DEF SyncInformer, AddEventHandler
  <2>4. CASE FinishWatch
    BY <2>4 DEF FinishWatch
  <2>5. ASSUME NEW i \in Informer, ObjectChanges(i) PROVE NotYet'
    BY <2>5 DEF ObjectChanges, Enqueue
  <2>6. ASSUME NEW v \in 0..MaxVersion, SecretChanges(v) PROVE NotYet'
    BY <2>6 DEF SecretChanges
  <2>7. CASE SecretObserved
    BY <2>7 DEF SecretObserved, Enqueue
  <2>8. ASSUME NEW i \in Informer, Resync(i) PROVE NotYet'
    BY <2>8 DEF Resync, Enqueue
  <2>9. ASSUME NEW i \in Kind, HandleObject(i) PROVE NotYet'
    BY <2>9 DEF HandleObject, Dequeue
  <2>10. CASE HandleNamespace
    BY <2>10 DEF HandleNamespace, Dequeue
  <2>11. CASE HandleSecret
    BY <2>11 DEF HandleSecret, Dequeue
  <2>12. CASE SecretReadFails
    BY <2>12 DEF SecretReadFails, Dequeue
  <2>13. CASE Tick
    BY <2>13 DEF Tick
  <2>14. CASE OfferEvent
    BY <2>14 DEF OfferEvent
  <2>15. ASSUME NEW i \in Kind, SelectKind(i) PROVE NotYet'
    BY <2>15 DEF SelectKind
  <2>16. CASE Generate
    BY <2>16 DEF Generate
  <2>17. CASE Apply
    BY <2>17 DEF Apply
  <2>18. CASE LoadOrApplyFails
    BY <2>18 DEF LoadOrApplyFails
  <2>19. CASE FetchSecret
    BY <2>19 DEF FetchSecret
  <2>20. CASE UNCHANGED vars
    BY <2>20 DEF vars, history
  <2> QED
    BY <2>1, <2>2, <2>3, <2>4, <2>5, <2>6, <2>7, <2>8, <2>9, <2>10, <2>11, <2>12, <2>13, <2>14,
       <2>15, <2>16, <2>17, <2>18, <2>19, <2>20 DEF Next
<1>4. IInv /\ [Next]_vars => Announced'
  <2> SUFFICES ASSUME IInv, [Next]_vars PROVE Announced'
    OBVIOUS
  <2> USE DEF IInv, TypeOK, Config, Selection, NotYet, Announced, watching, cluster, sending, loading, history
  <2>1. ASSUME NEW i \in Informer, StartInformer(i) PROVE Announced'
    BY <2>1 DEF StartInformer
  <2>2. ASSUME NEW ok \in BOOLEAN, SyncNamespaces(ok) PROVE Announced'
    BY <2>2 DEF SyncNamespaces, AddEventHandler, NoConfig
  <2>3. ASSUME NEW i \in Informer, NEW ok \in BOOLEAN, SyncInformer(i, ok) PROVE Announced'
    BY <2>3 DEF SyncInformer, AddEventHandler, NoConfig
  <2>4. CASE FinishWatch
    BY <2>4 DEF FinishWatch
  <2>5. ASSUME NEW i \in Informer, ObjectChanges(i) PROVE Announced'
    <3>1. ASSUME NEW k \in Kind \cap handled, k = i PROVE queue'[k] # << >>
      BY <2>5, <3>1 DEF ObjectChanges, Enqueue
    <3>2. ASSUME NEW k \in Kind \cap handled, k # i PROVE queue'[k] = queue[k] /\ store'[k] = store[k]
      BY <2>5, <3>2 DEF ObjectChanges, Enqueue
    <3>3. /\ handled' = handled /\ notify' = notify /\ sender' = sender /\ clean' = clean
          /\ loop' = loop /\ unlisted' = unlisted /\ loaded' = loaded /\ applied' = applied
      BY <2>5 DEF ObjectChanges
    <3> QED
      BY <3>1, <3>2, <3>3
  <2>6. ASSUME NEW v \in 0..MaxVersion, SecretChanges(v) PROVE Announced'
    BY <2>6 DEF SecretChanges
  <2>7. CASE SecretObserved
    BY <2>7 DEF SecretObserved, Enqueue
  <2>8. ASSUME NEW i \in Informer, Resync(i) PROVE Announced'
    BY <2>8 DEF Resync, Enqueue
  <2>9. ASSUME NEW i \in Kind, HandleObject(i) PROVE Announced'
    BY <2>9 DEF HandleObject, Dequeue
  <2>10. CASE HandleNamespace
    BY <2>10 DEF HandleNamespace, Dequeue
  <2>11. CASE HandleSecret
    BY <2>11 DEF HandleSecret, Dequeue
  <2>12. CASE SecretReadFails
    BY <2>12 DEF SecretReadFails, Dequeue
  <2>13. CASE Tick
    BY <2>13 DEF Tick
  <2>14. CASE OfferEvent
    BY <2>14 DEF OfferEvent
  <2>15. ASSUME NEW i \in Kind, SelectKind(i) PROVE Announced'
    BY <2>15 DEF SelectKind
  <2>16. CASE Generate
    BY <2>16 DEF Generate
  <2>17. CASE Apply
    BY <2>17 DEF Apply
  <2>18. CASE LoadOrApplyFails
    BY <2>18 DEF LoadOrApplyFails
  <2>19. CASE FetchSecret
    BY <2>19 DEF FetchSecret
  <2>20. CASE UNCHANGED vars
    BY <2>20 DEF vars, history
  <2> HIDE DEF IInv, TypeOK, Config, Selection, NotYet, Announced, watching, cluster, sending, loading, history, Informer
  <2> QED
    BY <2>1, <2>2, <2>3, <2>4, <2>5, <2>6, <2>7, <2>8, <2>9, <2>10, <2>11, <2>12, <2>13, <2>14,
       <2>15, <2>16, <2>17, <2>18, <2>19, <2>20 DEF Next
<1> QED
  BY <1>1, <1>2, <1>3, <1>4, PTL DEF Spec, IInv

\* The watcher's variables keep their types: versions and counters stay within
\* their bounds, handlers belong to informers that run.
THEOREM TypeCorrect == Spec => []TypeOK
<1>1. IInv => TypeOK
  BY DEF IInv
<1> QED
  BY <1>1, Inductive, PTL

-----------------------------------------------------------------------------
(* Secrets. *)

Holds(q, notices) == \E n \in 1..Len(q) : q[n] \in notices
Pending(notices) == Holds(queue["secrets"], notices)

\* Loads start after the handlers are in place.
EmptyBefore == watch # "sending" => assets = 0

\* A secret in the asset store that is no longer the cluster's is owed a notice
\* that makes its handler replace or remove it.
Owed ==
    "secrets" \in handled /\ ~ missed =>
        /\ secret = 0 => assets = 0 \/ store["secrets"] # 0 \/ Pending({"delete"})
        /\ secret # 0 => \/ assets \in {0, secret} \/ store["secrets"] \notin {0, secret}
                         \/ Pending({"update", "resync", "delete"})

\* The asset store is what was loaded, or a token or an event is under way.
Settled == ~ notify /\ sender = "tick" /\ ((loop = "select" /\ clean) \/ loop = "apply")
InForce == Settled => assets = IF loop = "apply" THEN loaded.secret ELSE applied.secret

\* A secret the informer knows is in the asset store, or its "add" is on the way.
Present ==
    "secrets" \in handled /\ Settled /\ secret # 0 /\ store["secrets"] # 0
      /\ ~ Pending({"add"}) => assets # 0

SecretInv == EmptyBefore /\ Owed /\ InForce /\ Present

\* What is in a queue before and after an enqueue or a dequeue.
LEMMA QueueKeeps ==
    ASSUME NEW q \in Seq(Notice), NEW n \in Notice, NEW F
    PROVE  /\ Holds(Append(q, n), F) <=> Holds(q, F) \/ n \in F
           /\ q # << >> => (Holds(q, F) <=> Head(q) \in F \/ Holds(Tail(q), F))
<1> USE DEF Holds
<1>1. /\ Len(Append(q, n)) = Len(q) + 1 /\ Append(q, n)[Len(q) + 1] = n
      /\ \A k \in 1..Len(q) : Append(q, n)[k] = q[k]
  OBVIOUS
<1>2. Holds(Append(q, n), F) <=> Holds(q, F) \/ n \in F
  <2>1. Len(q) \in Nat
    OBVIOUS
  <2>2. ASSUME Holds(q, F) PROVE Holds(Append(q, n), F)
    BY <1>1, <2>1, <2>2
  <2>3. ASSUME n \in F PROVE Holds(Append(q, n), F)
    BY <1>1, <2>1, <2>3
  <2>4. ASSUME Holds(Append(q, n), F) PROVE Holds(q, F) \/ n \in F
    BY <1>1, <2>1, <2>4
  <2> QED
    BY <2>2, <2>3, <2>4
<1>3. ASSUME q # << >> PROVE Holds(q, F) <=> Head(q) \in F \/ Holds(Tail(q), F)
  <2>1. /\ Len(q) \in Nat \ {0} /\ Len(Tail(q)) = Len(q) - 1 /\ Head(q) = q[1]
        /\ \A k \in 1..Len(q) - 1 : Tail(q)[k] = q[k + 1]
    BY <1>3
  <2>2. ASSUME Head(q) \in F PROVE Holds(q, F)
    BY <2>1, <2>2
  <2>3. ASSUME Holds(Tail(q), F) PROVE Holds(q, F)
    <3>1. PICK k \in 1..Len(q) - 1 : Tail(q)[k] \in F
      BY <2>1, <2>3
    <3>2. k + 1 \in 1..Len(q) /\ q[k + 1] \in F
      BY <2>1, <3>1
    <3> QED
      BY <3>2
  <2>4. ASSUME Holds(q, F) PROVE Head(q) \in F \/ Holds(Tail(q), F)
    <3>1. PICK k \in 1..Len(q) : q[k] \in F
      BY <2>4
    <3>2. CASE k = 1
      BY <2>1, <3>1, <3>2
    <3>3. CASE k # 1
      <4>1. k - 1 \in 1..Len(Tail(q)) /\ Tail(q)[k - 1] \in F
        BY <2>1, <3>1, <3>3
      <4> QED
        BY <4>1
    <3> QED
      BY <3>2, <3>3
  <2> QED
    BY <2>2, <2>3, <2>4
<1> QED
  BY <1>2, <1>3

\* No step breaks what is known of the secrets.
LEMMA SecretStep ==
    ASSUME IInv, SecretInv, [Next]_vars
    PROVE  SecretInv'
<1> USE CRAssumption DEF SecretInv, EmptyBefore, Owed, InForce, Present, Settled, Pending,
        watching, cluster, sending, loading, history
<1> DEFINE q == queue["secrets"]
<1>0. /\ TypeOK /\ NotYet /\ "secrets" \in Informer /\ q \in Seq(Notice)
      /\ "secrets" \notin Kind /\ handled \subseteq running
  BY DEF IInv, TypeOK, Informer
<1>1. ASSUME NEW i \in Informer, StartInformer(i) PROVE SecretInv'
  BY <1>1 DEF StartInformer
<1>2. ASSUME NEW ok \in BOOLEAN, SyncNamespaces(ok) PROVE SecretInv'
  <2>1. queue'["secrets"] = q /\ ("secrets" \in handled' <=> "secrets" \in handled)
    BY <1>0, <1>2 DEF SyncNamespaces, AddEventHandler, TypeOK
  <2>2. watch # "sending" /\ watch' # "sending"
    BY <1>2 DEF SyncNamespaces
  <2> QED
    BY <1>2, <2>1, <2>2 DEF SyncNamespaces
<1>3. ASSUME NEW i \in Informer, NEW ok \in BOOLEAN, SyncInformer(i, ok) PROVE SecretInv'
  <2>1. /\ assets = 0 /\ watch' = watch /\ assets' = assets /\ secret' = secret /\ store' = store
        /\ missed' = missed /\ notify' = notify /\ sender' = sender /\ loop' = loop
        /\ clean' = clean /\ loaded' = loaded /\ applied' = applied
    BY <1>3 DEF SyncInformer
  <2>2. CASE i = "secrets" /\ ok
    <3>1. queue'["secrets"] = IF store["secrets"] = 0 THEN q ELSE Append(q, "add")
      BY <1>0, <1>3, <2>2 DEF SyncInformer, AddEventHandler, TypeOK
    <3>2. store["secrets"] # 0 => Holds(queue'["secrets"], {"add"})
      BY <1>0, <3>1, QueueKeeps DEF Notice
    <3> QED
      BY <2>1, <3>2
  <2>3. CASE ~ (i = "secrets" /\ ok)
    <3>1. queue'["secrets"] = q /\ ("secrets" \in handled' <=> "secrets" \in handled)
      BY <1>0, <1>3, <2>3 DEF SyncInformer, AddEventHandler, TypeOK
    <3> QED
      BY <2>1, <3>1
  <2> QED
    BY <2>2, <2>3
<1>4. CASE FinishWatch
  BY <1>4 DEF FinishWatch
<1>5. ASSUME NEW i \in Informer, ObjectChanges(i) PROVE SecretInv'
  <2>1. queue'["secrets"] = q /\ store'["secrets"] = store["secrets"]
    BY <1>0, <1>5 DEF ObjectChanges, Enqueue, TypeOK
  <2>2. UNCHANGED <<watch, handled, assets, secret, missed, notify, sender, loop, clean, loaded, applied>>
    BY <1>5 DEF ObjectChanges
  <2> QED
    BY <2>1, <2>2
<1>6. ASSUME NEW v \in 0..MaxVersion, SecretChanges(v) PROVE SecretInv'
  <2>1. /\ secret' = v /\ v # secret /\ ("secrets" \in handled => store["secrets"] = secret)
        /\ UNCHANGED <<watch, handled, assets, store, queue, missed, notify, sender, loop, clean,
                       loaded, applied>>
    BY <1>0, <1>6 DEF SecretChanges
  <2>2. Holds(q, {"delete"}) => Holds(q, {"update", "resync", "delete"})
    BY DEF Holds
  <2>3. EmptyBefore' /\ InForce'
    BY <2>1
  <2>4. Owed'
    BY <2>1, <2>2
  <2>5. Present'
    BY <2>1
  <2> QED
    BY <2>3, <2>4, <2>5
<1>7. CASE SecretObserved
  <2> DEFINE notice == IF secret = 0 THEN "delete" ELSE IF store["secrets"] = 0 THEN "add" ELSE "update"
  <2>1. /\ store'["secrets"] = secret /\ store["secrets"] # secret
        /\ UNCHANGED <<watch, handled, assets, secret, missed, notify, sender, loop, clean,
                       loaded, applied>>
    BY <1>0, <1>7 DEF SecretObserved, TypeOK
  <2>2. "secrets" \in handled => queue'["secrets"] = Append(q, notice)
    BY <1>0, <1>7 DEF SecretObserved, Enqueue, TypeOK
  <2>3. notice \in Notice
    BY DEF Notice
  <2> HIDE DEF notice
  <2>3a. \A F : Holds(Append(q, notice), F) <=> Holds(q, F) \/ notice \in F
    BY <1>0, <2>3, QueueKeeps
  <2>4. "secrets" \in handled => \A F : Holds(queue'["secrets"], F) <=> Holds(q, F) \/ notice \in F
    BY <2>2, <2>3a
  <2>5. EmptyBefore' /\ InForce'
    BY <2>1
  <2>6. Owed'
    BY <2>1, <2>4 DEF notice
  <2>7. Present'
    BY <2>1, <2>4 DEF notice
  <2> QED
    BY <2>5, <2>6, <2>7
<1>8. ASSUME NEW i \in Informer, Resync(i) PROVE SecretInv'
  <2>1. UNCHANGED <<watch, handled, assets, secret, store, missed, notify, sender, loop, clean,
                    loaded, applied>>
    BY <1>8 DEF Resync
  <2>2. queue'["secrets"] = q \/ queue'["secrets"] = Append(q, "resync")
    BY <1>0, <1>8 DEF Resync, Enqueue, TypeOK
  <2>3. /\ Holds(q, {"delete"}) => Holds(queue'["secrets"], {"delete"})
        /\ Holds(q, {"update", "resync", "delete"}) =>
              Holds(queue'["secrets"], {"update", "resync", "delete"})
        /\ Holds(q, {"add"}) => Holds(queue'["secrets"], {"add"})
    <3>1. "resync" \in Notice
      BY DEF Notice
    <3>2. \A F : Holds(Append(q, "resync"), F) <=> Holds(q, F) \/ "resync" \in F
      BY <1>0, <3>1, QueueKeeps
    <3> QED
      BY <2>2, <3>2
  <2> QED
    BY <2>1, <2>3
<1>9. ASSUME NEW i \in Kind, HandleObject(i) PROVE SecretInv'
  <2>1. queue'["secrets"] = q
    BY <1>0, <1>9 DEF HandleObject, Dequeue, TypeOK
  <2> QED
    BY <1>9, <2>1 DEF HandleObject
<1>10. CASE HandleNamespace
  <2>1. queue'["secrets"] = q
    BY <1>0, <1>10 DEF HandleNamespace, Dequeue, TypeOK
  <2> QED
    BY <1>10, <2>1 DEF HandleNamespace
<1>11. CASE HandleSecret
  <2> DEFINE notice == Head(q)
  <2>1. /\ q # << >> /\ queue'["secrets"] = Tail(q) /\ notice \in Notice
        /\ UNCHANGED <<watch, handled, secret, store, sender, loop, clean, loaded, applied>>
    BY <1>0, <1>11 DEF HandleSecret, Dequeue, TypeOK
  <2>2. \A F : Holds(q, F) <=> notice \in F \/ Holds(queue'["secrets"], F)
    BY <1>0, <2>1, QueueKeeps DEF Notice
  <2>3. missed' = (missed /\ assets' # secret)
    BY <1>11 DEF HandleSecret
  <2>4. \/ notice = "add" /\ notify' = TRUE /\ assets' = assets
        \/ notice \in {"update", "resync"} /\ assets # 0 /\ secret # 0 /\ assets' = secret /\ notify' = TRUE
        \/ notice = "delete" /\ assets # 0 /\ assets' = 0 /\ notify' = TRUE
        \/ /\ notice # "add" /\ (assets = 0 \/ (notice # "delete" /\ secret = 0))
           /\ assets' = assets /\ notify' = notify
    BY <1>11 DEF HandleSecret
  <2> HIDE DEF notice
  <2>5. EmptyBefore'
    BY <2>1, <2>4
  <2>6. InForce'
    BY <2>1, <2>4
  <2>7. Present'
    BY <2>1, <2>2, <2>4
  <2>8. Owed'
    BY <2>1, <2>2, <2>3, <2>4
  <2> QED
    BY <2>5, <2>6, <2>7, <2>8
<1>12. CASE SecretReadFails
  <2>1. /\ q # << >> /\ queue'["secrets"] = Tail(q) /\ Head(q) \in {"update", "resync"} /\ missed'
        /\ UNCHANGED <<watch, handled, secret, store, assets, notify, sender, loop, clean, loaded,
                       applied>>
    BY <1>0, <1>12 DEF SecretReadFails, Dequeue, TypeOK
  <2>2. Holds(q, {"add"}) => Holds(queue'["secrets"], {"add"})
    BY <1>0, <2>1, QueueKeeps DEF Notice
  <2> QED
    BY <2>1, <2>2
<1>13. CASE Tick
  BY <1>13 DEF Tick
<1>14. CASE OfferEvent
  BY <1>14 DEF OfferEvent
<1>15. ASSUME NEW i \in Kind, SelectKind(i) PROVE SecretInv'
  BY <1>15 DEF SelectKind
<1>16. CASE Generate
  <2>1. /\ loop = "generate" /\ loop' = "apply" /\ loaded'.secret = assets'
        /\ UNCHANGED <<watch, handled, secret, store, queue, notify, sender, clean, applied>>
    BY <1>0, <1>16 DEF Generate, TypeOK, Config
  <2>2. \/ assets # 0 /\ assets' = assets
        \/ assets = 0 /\ (fetched # 0 \/ secret = 0) /\ assets' = fetched
    BY <1>16 DEF Generate
  <2>3. missed' = (missed \/ (fetched # 0 /\ fetched # secret))
    BY <1>16 DEF Generate
  <2>4. EmptyBefore'
    BY <1>0, <2>1 DEF NotYet
  <2>5. Owed'
    BY <2>1, <2>2, <2>3
  <2>6. InForce'
    BY <2>1
  <2>7. Present'
    BY <2>1, <2>2
  <2> QED
    BY <2>4, <2>5, <2>6, <2>7
<1>17. CASE Apply
  BY <1>17 DEF Apply
<1>18. CASE LoadOrApplyFails
  BY <1>18 DEF LoadOrApplyFails
<1>19. CASE FetchSecret
  BY <1>19 DEF FetchSecret
<1>20. CASE UNCHANGED vars
  BY <1>20 DEF vars
<1> HIDE DEF SecretInv, EmptyBefore, Owed, InForce, Present, Settled, Pending, watching, cluster,
             sending, loading, history
<1> QED
  BY <1>1, <1>2, <1>3, <1>4, <1>5, <1>6, <1>7, <1>8, <1>9, <1>10, <1>11, <1>12, <1>13, <1>14,
     <1>15, <1>16, <1>17, <1>18, <1>19, <1>20 DEF Next

\* When nothing is under way and the last event was applied, what was applied has the
\* newest objects of every kind with a handler; and its secret is the cluster's, unless
\* reading it failed or it changed while a load had it in hand: handlers that skip,
\* re-read and remove it, and loads that fetch it, agree.
THEOREM ChangesArrive == Spec => []NothingForgotten
<1>1. Init => SecretInv
  BY DEF Init, SecretInv, EmptyBefore, Owed, InForce, Present, Settled, NoConfig
<1>2. IInv /\ SecretInv /\ [Next]_vars => SecretInv'
  BY SecretStep
<1>3. IInv /\ SecretInv => NothingForgotten
  <2> SUFFICES ASSUME IInv, SecretInv, Quiet, clean PROVE NothingForgotten
    BY DEF NothingForgotten
  <2>1. \A k \in Kind \cap handled : applied.selected[k].objects = store[k]
    BY DEF IInv, Announced, Quiet, Informer
  <2>2. ASSUME ~ missed, "secrets" \in handled PROVE applied.secret = secret
    <3>1. queue["secrets"] = << >> /\ store["secrets"] = secret /\ Settled /\ loop = "select"
      BY DEF Quiet, Settled, Informer
    <3>2. \A F : ~ Holds(queue["secrets"], F)
      BY <3>1 DEF Holds
    <3>3. applied.secret = assets
      BY <3>1 DEF SecretInv, InForce
    <3>4. secret = 0 => assets = 0
      BY <2>2, <3>1, <3>2 DEF SecretInv, Owed, Pending
    <3>5. secret # 0 => assets = secret
      BY <2>2, <3>1, <3>2 DEF SecretInv, Owed, Present, Pending
    <3> QED
      BY <3>3, <3>4, <3>5
  <2> QED
    BY <2>1, <2>2 DEF NothingForgotten
<1> QED
  BY <1>1, <1>2, <1>3, Inductive, PTL DEF Spec
=============================================================================
