---------------------------- MODULE ReceiverProofs ----------------------------
(***************************************************************************)
(* Proofs about the two halves of the collector's receiver, which share    *)
(* nothing but the process: ReceiverSync, for every set of responses the   *)
(* target allocator may give, and Appender, for every set of targets and   *)
(* every number of samples in a scrape.                                    *)
(***************************************************************************)
EXTENDS ReceiverSync, Appender, FiniteSetTheorems, SequenceTheorems, WellFoundedInduction,
        NaturalsInduction, TLAPS

(* The sync with the target allocator.                                      *)

\* Past the comparison sync works on a valid response that is not the saved
\* one, and from Mutate on the shared configuration is that response.  No sync
\* runs before the collector's own configuration is applied.
Working ==
    /\ phase = "apply" => step = "idle" /\ savedHash = NoHash
    /\ step \in {"mutate", "scrape", "discovery"} => response \notin Invalid /\ response # savedHash
    /\ step \in {"scrape", "discovery"} => promCfg = response
    /\ step = "discovery" => scrapeCfg = response

SyncInv == SyncTypeOK /\ InvalidIsHarmless /\ Working

\* The inductive invariant, and with it type correctness and the harmlessness
\* of invalid responses, holds initially and is kept by every action.
LEMMA SyncInductive == SyncSpec => []SyncInv
<1>1. SyncInit => SyncInv
  <2> SUFFICES ASSUME SyncInit PROVE SyncInv
    OBVIOUS
  <2> USE ReceiverAssumption DEF SyncInit, Running, Initial, NoHash
  <2>0. failures \in 0..MaxFailures
    OBVIOUS
  <2>1. SyncTypeOK
    BY <2>0 DEF SyncTypeOK, Steps
  <2>2. InvalidIsHarmless /\ Working
    BY DEF InvalidIsHarmless, Working
  <2> QED
    BY <2>1, <2>2 DEF SyncInv
<1>2. SyncInv /\ [SyncNext]_syncVars => SyncInv'
  <2> SUFFICES ASSUME SyncInv, [SyncNext]_syncVars PROVE SyncInv'
    OBVIOUS
  <2> USE ReceiverAssumption DEF SyncInv, SyncTypeOK, InvalidIsHarmless, Working, Steps, Running,
          Initial, NoHash, configs
  <2>1. ASSUME NEW v \in Version, Serve(v) PROVE SyncInv'
    BY <2>1 DEF Serve
  <2>2. CASE ApplyInitial
    BY <2>2 DEF ApplyInitial, Fail
  <2>3. CASE FetchFails
    BY <2>3 DEF FetchFails, Fail
  <2>4. CASE Fetch
    BY <2>4 DEF Fetch
  <2>5. CASE NoUpdate
    BY <2>5 DEF NoUpdate
  <2>6. CASE Build
    BY <2>6 DEF Build
  <2>7. CASE Mutate
    BY <2>7 DEF Mutate
  <2>8. CASE ApplyScrape
    BY <2>8 DEF ApplyScrape
  <2>9. CASE ApplyScrapeFails
    BY <2>9 DEF ApplyScrapeFails, Fail
  <2>10. CASE ApplyDiscovery
    BY <2>10 DEF ApplyDiscovery
  <2>11. CASE ApplyDiscoveryFails
    BY <2>11 DEF ApplyDiscoveryFails, Fail
  <2>12. CASE GiveUp
    BY <2>12 DEF GiveUp
  <2>13. CASE Shutdown
    BY <2>13 DEF Shutdown
  <2>14. CASE UNCHANGED syncVars
    BY <2>14 DEF syncVars
  <2> QED
    BY <2>1, <2>2, <2>3, <2>4, <2>5, <2>6, <2>7, <2>8, <2>9, <2>10, <2>11, <2>12, <2>13, <2>14
       DEF SyncNext, Sync
<1> QED
  BY <1>1, <1>2, PTL DEF SyncSpec

\* The states of the sync keep to their types.
THEOREM SyncTyped == SyncSpec => []SyncTypeOK
<1>1. SyncInv => SyncTypeOK
  BY DEF SyncInv
<1> QED
  BY <1>1, SyncInductive, PTL

\* No part of the receiver ever takes over a response with an invalid job:
\* every job is validated before the shared configuration is replaced.
THEOREM NothingInvalid == SyncSpec => []InvalidIsHarmless
<1>1. SyncInv => InvalidIsHarmless
  BY DEF SyncInv
<1> QED
  BY <1>1, SyncInductive, PTL

-----------------------------------------------------------------------------
(* Equal hashes.                                                            *)

\* The saved hash stands for a configuration that was applied in full: while
\* the shared configuration is the saved one, no holder is behind, whatever
\* failed before and whatever the allocator serves.
THEOREM SavedIsInForce == SyncSpec => []SavedMeansApplied
<1>1. SyncInit => SavedMeansApplied
  BY ReceiverAssumption DEF SyncInit, SavedMeansApplied, NoHash, Initial
<1>2. SyncInv /\ SavedMeansApplied /\ [SyncNext]_syncVars => SavedMeansApplied'
  <2> SUFFICES ASSUME SyncInv, SavedMeansApplied, [SyncNext]_syncVars PROVE SavedMeansApplied'
    OBVIOUS
  <2> USE ReceiverAssumption DEF SyncInv, SyncTypeOK, Working, SavedMeansApplied, AllHave, NoHash,
          Initial, Running, configs
  <2>1. ASSUME NEW v \in Version, Serve(v) PROVE SavedMeansApplied'
    BY <2>1 DEF Serve
  <2>2. CASE ApplyInitial
    BY <2>2 DEF ApplyInitial, Fail
  <2>3. CASE FetchFails
    BY <2>3 DEF FetchFails, Fail
  <2>4. CASE Fetch
    BY <2>4 DEF Fetch
  <2>5. CASE NoUpdate
    BY <2>5 DEF NoUpdate
  <2>6. CASE Build
    BY <2>6 DEF Build
  <2>7. CASE Mutate
    BY <2>7 DEF Mutate
  <2>8. CASE ApplyScrape
    BY <2>8 DEF ApplyScrape
  <2>9. CASE ApplyScrapeFails
    BY <2>9 DEF ApplyScrapeFails, Fail
  <2>10. CASE ApplyDiscovery
    BY <2>10 DEF ApplyDiscovery
  <2>11. CASE ApplyDiscoveryFails
    BY <2>11 DEF ApplyDiscoveryFails, Fail
  <2>12. CASE GiveUp
    BY <2>12 DEF GiveUp
  <2>13. CASE Shutdown
    BY <2>13 DEF Shutdown
  <2>14. CASE UNCHANGED syncVars
    BY <2>14 DEF syncVars
  <2> QED
    BY <2>1, <2>2, <2>3, <2>4, <2>5, <2>6, <2>7, <2>8, <2>9, <2>10, <2>11, <2>12, <2>13, <2>14
       DEF SyncNext, Sync
<1> QED
  BY <1>1, <1>2, SyncInductive, PTL DEF SyncSpec

-----------------------------------------------------------------------------
(* Maps, names and the types of the appender's state.                       *)

\* Functions from a part of S to T: the transaction's maps.
Maps(S, T) == UNION {[D -> T] : D \in SUBSET S}

\* Labels, with the ones the code makes up.
Strings == STRING \cup {NoLabel, "external", "target", "total"}
Names == Seq(Strings) \ {<<>>}
Keys == [resource : Strings, scope : Strings, native : BOOLEAN, name : Seq(Strings)]
Refs == [attr : Strings, ext : BOOLEAN, le : Boundary, quantile : Boundary]
Values == Nat \cup {Stale}
\* Families and groups as getOrCreateMetricFamily and loadMetricGroupOrCreate make
\* them.
Groups ==
    [ts : Nat, ls : Refs, count : Number, sum : Number, value : Number, created : Values,
     points : Seq([boundary : Boundary, value : Values]), h : Histograms,
     counts : {"none", "integer", "float"}, nhcb : BOOLEAN, exemplars : Nat]
Families ==
    [mtype : MetricTypes, name : Names, family : Names, groups : Maps(Refs, Groups)]

\* A map is a function on its own domain.
LEMMA MapIsFunction ==
    ASSUME NEW S, NEW T, NEW m \in Maps(S, T)
    PROVE  DOMAIN m \subseteq S /\ m \in [DOMAIN m -> T]
BY DEF Maps

\* A function on a part of S is a map.
LEMMA FunctionIsMap ==
    ASSUME NEW S, NEW T, NEW D \in SUBSET S, NEW m \in [D -> T]
    PROVE  m \in Maps(S, T)
BY DEF Maps

\* m[k] = v: k has the value v, every other key keeps its own.
LEMMA PutMap ==
    ASSUME NEW S, NEW T, NEW m \in Maps(S, T), NEW k \in S, NEW v \in T
    PROVE  /\ Put(m, k, v) \in Maps(S, T)
           /\ DOMAIN Put(m, k, v) = DOMAIN m \cup {k}
           /\ Put(m, k, v)[k] = v
           /\ \A x \in DOMAIN m \ {k} : Put(m, k, v)[x] = m[x]
<1>1. DOMAIN m \subseteq S /\ m \in [DOMAIN m -> T]
  BY MapIsFunction
<1>2. Put(m, k, v) \in [DOMAIN m \cup {k} -> T]
  BY <1>1 DEF Put
<1>3. Put(m, k, v) \in Maps(S, T)
  BY <1>1, <1>2, FunctionIsMap
<1> QED
  BY <1>3 DEF Put

\* The maps a transaction starts with are empty.
LEMMA EmptyMap ==
    ASSUME NEW S, NEW T
    PROVE  /\ <<>> \in Maps(S, T) /\ DOMAIN <<>> = {}
           /\ \A v : [x \in {} |-> v] \in Maps(S, T)
<1>1. DOMAIN <<>> = {}
  OBVIOUS
<1>2. <<>> \in [{} -> T]
  BY <1>1
<1> QED
  BY <1>1, <1>2, FunctionIsMap

\* Trimming a suffix undoes adding it.
LEMMA AppendTrimmed ==
    ASSUME NEW S, NEW q \in Seq(S), NEW x \in S
    PROVE  /\ Append(q, x) \in Seq(S) /\ Append(q, x) # <<>> /\ Append(q, x) # q
           /\ Len(Append(q, x)) = Len(q) + 1 /\ Len(q) \in Nat
           /\ Last(Append(q, x)) = x /\ Front(Append(q, x)) = q
<1>1. /\ Append(q, x) \in Seq(S) /\ Len(Append(q, x)) = Len(q) + 1 /\ Append(q, x) # <<>>
      /\ \A i \in 1..Len(q) : Append(q, x)[i] = q[i]
      /\ Append(q, x)[Len(q) + 1] = x /\ Len(q) \in Nat
  BY AppendProperties, LenProperties
<1>2. \A i \in 1..Len(q) : Append(q, x)[i] \in S
  BY <1>1, ElementOfSeq
<1>3. /\ SubSeq(Append(q, x), 1, Len(q)) \in Seq(S)
      /\ Len(SubSeq(Append(q, x), 1, Len(q))) = Len(q)
      /\ \A i \in 1..Len(q) : SubSeq(Append(q, x), 1, Len(q))[i] = q[i]
  BY <1>1, <1>2, SubSeqProperties
<1>4. SubSeq(Append(q, x), 1, Len(q)) = q
  BY <1>3, SeqEqual
<1>5. Len(Append(q, x)) - 1 = Len(q)
  BY <1>1
<1>6. Front(Append(q, x)) = q
  BY <1>4, <1>5 DEF Front
<1>7. Last(Append(q, x)) = x
  BY <1>1 DEF Last
<1> QED
  BY <1>1, <1>6, <1>7

\* A name of two parts or more has something left when its suffix is trimmed.
LEMMA FrontShorter ==
    ASSUME NEW S, NEW q \in Seq(S), Len(q) > 1
    PROVE  Front(q) \in Seq(S) /\ Front(q) # <<>>
<1>1. Len(q) \in Nat /\ \A i \in 1..(Len(q) - 1) : q[i] \in S
  BY LenProperties, ElementOfSeq
<1>2. Front(q) \in Seq(S) /\ Len(Front(q)) = Len(q) - 1
  BY <1>1, SubSeqProperties DEF Front
<1>3. Len(Front(q)) # 0
  BY <1>1, <1>2
<1> QED
  BY <1>2, <1>3, EmptySeq

\* normalizeMetricName returns a name.
LEMMA Trimmed ==
    ASSUME NEW n \in Names
    PROVE  normalizeMetricName(n) \in Names
<1>1. n \in Seq(Strings) /\ n # <<>>
  BY DEF Names
<1> QED
  BY <1>1, FrontShorter DEF normalizeMetricName, Names

\* A name with a suffix is another name, and is trimmed back to the first.
LEMMA Suffixed ==
    ASSUME NEW n \in Names, NEW x \in Strings
    PROVE  /\ Append(n, x) \in Names /\ Append(n, x) # n
           /\ normalizeMetricName(Append(n, x)) = n
           /\ Len(Append(n, x)) > 1 /\ Last(Append(n, x)) = x
<1>1. n \in Seq(Strings) /\ n # <<>>
  BY DEF Names
<1>2. /\ Append(n, x) \in Seq(Strings) /\ Append(n, x) # <<>> /\ Append(n, x) # n
      /\ Last(Append(n, x)) = x /\ Front(Append(n, x)) = n
  BY <1>1, AppendTrimmed
<1>3. Len(Append(n, x)) = Len(n) + 1 /\ Len(n) \in Nat \ {0}
  BY <1>1, AppendTrimmed, EmptySeq
<1>4. Len(Append(n, x)) > 1
  BY <1>3
<1> QED
  BY <1>2, <1>4, Zenon DEF normalizeMetricName, Names

-----------------------------------------------------------------------------
(* Metadata, new families, and finding the family of a sample.              *)

\* The name under which getOrCreateMetricFamily looks for a family that is not there
\* under the sample's own.
FamilyName(n) ==
    IF HasMetadata(n) THEN n
    ELSE IF isCounterCreatedLine(n) THEN Append(normalizeMetricName(n), "total")
    ELSE normalizeMetricName(n)

\* The condition of Collides, for a name and a kind of family.
Misfit(n, native, nhcb) ==
    LET other == metadataForMetric(n).name
        mf == newMetricFamily(other, native, nhcb)
    IN  /\ other # n
        /\ \/ mf.mtype = "gauge"
           \/ normalizeMetricName(n) # (IF mf.mtype = "sum" THEN mf.family ELSE mf.name)

\* A name with a suffix is not that of an internal metric.
LEMMA UpIsShort ==
    ASSUME NEW n \in Names, NEW x \in Strings
    PROVE  Append(n, x) \notin internalMetricMetadata
<1>1. Len(Append(n, x)) > 1
  BY Suffixed
<1>2. Len(<<"up">>) = 1
  OBVIOUS
<1>3. Len(Append(n, x)) # Len(<<"up">>)
  BY <1>1, <1>2
<1>4. Append(n, x) # <<"up">>
  BY <1>3, Zenon
<1> QED
  BY <1>4, Zenon DEF internalMetricMetadata

\* metadataForMetric gives a name its own entry, or that of the name without suffix,
\* or, for the creation time of a counter, the one with _total.
LEMMA MetadataName ==
    ASSUME NEW n \in Names
    PROVE  LET md == metadataForMetric(n)
               norm == normalizeMetricName(n)
           IN  /\ md.name \in Names /\ md.family \in Names
               /\ \/ md.name = n
                  \/ /\ n \notin internalMetricMetadata /\ ~ HasMetadata(n) /\ HasMetadata(norm)
                     /\ \/ store[norm] # "counter" /\ md = Metadata(store[norm], norm, norm)
                        \/ /\ store[norm] = "counter" /\ HasSuffix(n, "created")
                           /\ md = Metadata("counter", norm, Append(norm, "total"))
<1> DEFINE norm == normalizeMetricName(n)
<1>1. norm \in Names /\ Append(norm, "total") \in Names
  <2>1. norm \in Names
    BY Trimmed
  <2> HIDE DEF norm
  <2> QED
    BY <2>1, Suffixed DEF Strings
<1> DEFINE md == metadataForMetric(n)
<1>2. CASE n \in internalMetricMetadata \/ HasMetadata(n) \/ ~ HasMetadata(norm)
  <2>1. \E t : md = Metadata(t, n, n)
    BY <1>2 DEF metadataForMetric
  <2> QED
    BY <2>1 DEF Metadata
<1>3. CASE ~ (n \in internalMetricMetadata \/ HasMetadata(n) \/ ~ HasMetadata(norm))
  <2>1. CASE store[norm] # "counter"
    <3>1. md = Metadata(store[norm], norm, norm)
      BY <1>3, <2>1 DEF metadataForMetric
    <3> QED
      BY <1>1, <1>3, <2>1, <3>1 DEF Metadata
  <2>2. CASE store[norm] = "counter" /\ HasSuffix(n, "created")
    <3>1. md = Metadata("counter", norm, Append(norm, "total"))
      BY <1>3, <2>2 DEF metadataForMetric
    <3> QED
      BY <1>1, <1>3, <2>2, <3>1 DEF Metadata
  <2>3. CASE store[norm] = "counter" /\ ~ HasSuffix(n, "created")
    <3>1. md = Metadata("counter", norm, n)
      BY <1>3, <2>3 DEF metadataForMetric
    <3> QED
      BY <1>1, <1>3, <2>3, <3>1 DEF Metadata
  <2> QED
    BY <2>1, <2>2, <2>3
<1> QED
  BY <1>2, <1>3

\* A new family has no groups, the name of its metadata, and a type that tells native
\* histograms from the others.
LEMMA NewFamily ==
    ASSUME NEW n \in Names, NEW native \in BOOLEAN, NEW nhcb \in BOOLEAN
    PROVE  LET md == metadataForMetric(n)
               mf == newMetricFamily(n, native, nhcb)
           IN  /\ mf \in Families /\ mf.groups = NoGroups /\ DOMAIN mf.groups = {}
               /\ mf.name = md.name /\ mf.family = md.family
               /\ native => mf.mtype = IF nhcb THEN "histogram" ELSE "exponential"
               /\ ~ native => mf.mtype = convToMetricType(md.type, FALSE)
               /\ ~ native => mf.mtype # "exponential"
<1> DEFINE md == metadataForMetric(n)
           mf == newMetricFamily(n, native, nhcb)
<1>1. md.name \in Names /\ md.family \in Names
  BY MetadataName
<1>2. NoGroups \in Maps(Refs, Groups) /\ DOMAIN NoGroups = {}
  BY EmptyMap DEF NoGroups
<1>3. \A t : /\ convToMetricType(t, FALSE) \in MetricTypes \ {"exponential"}
             /\ convToMetricType(t, TRUE) \in MetricTypes
  BY DEF convToMetricType, MetricTypes
<1>4. /\ convToMetricType("histogram", TRUE) = "exponential"
      /\ convToMetricType("histogram", FALSE) = "histogram"
  BY DEF convToMetricType
<1>5. /\ native => mf.mtype = IF nhcb THEN "histogram" ELSE "exponential"
      /\ ~ native => mf.mtype = convToMetricType(md.type, FALSE)
  <2>1. CASE native /\ nhcb
    BY <1>4, <2>1 DEF newMetricFamily
  <2>2. CASE native /\ ~ nhcb
    BY <1>4, <2>2 DEF newMetricFamily
  <2>3. CASE ~ native
    BY <2>3 DEF newMetricFamily
  <2> QED
    BY <2>1, <2>2, <2>3
<1>6. mf.mtype \in MetricTypes /\ (~ native => mf.mtype # "exponential")
  BY <1>3, <1>5 DEF MetricTypes
<1>7. /\ mf = [mtype |-> mf.mtype, name |-> md.name, family |-> md.family, groups |-> NoGroups]
  BY DEF newMetricFamily
<1>8. mf \in Families
  BY <1>1, <1>2, <1>6, <1>7 DEF Families
<1>9. mf.name = md.name /\ mf.family = md.family /\ mf.groups = NoGroups
  BY DEF newMetricFamily
<1> HIDE DEF mf, md
<1>10. /\ mf \in Families /\ mf.groups = NoGroups /\ DOMAIN mf.groups = {}
       /\ mf.name = md.name /\ mf.family = md.family
       /\ native => mf.mtype = IF nhcb THEN "histogram" ELSE "exponential"
       /\ ~ native => mf.mtype = convToMetricType(md.type, FALSE)
       /\ ~ native => mf.mtype # "exponential"
  BY <1>2, <1>5, <1>6, <1>8, <1>9
<1> QED
  BY <1>10 DEF mf, md

\* The kinds of family a name can belong to other than by being its name.
Belongs(mf, n) ==
    mf.mtype # "gauge"
    /\ normalizeMetricName(n) = IF mf.mtype = "sum" THEN mf.family ELSE mf.name

\* includesMetric, for a name other than the family's.
LEMMA Includes ==
    ASSUME NEW mf, NEW n, n # mf.name
    PROVE  includesMetric(mf, n) <=> Belongs(mf, n)
BY DEF includesMetric, Belongs

\* When the metadata of a name is another's, the family is looked for under that
\* other name.
LEMMA OtherName ==
    ASSUME NEW n \in Names, metadataForMetric(n).name # n
    PROVE  metadataForMetric(n).name = FamilyName(n)
<1> DEFINE norm == normalizeMetricName(n)
           md == metadataForMetric(n)
<1>1. /\ ~ HasMetadata(n) /\ HasMetadata(norm)
      /\ \/ store[norm] # "counter" /\ md = Metadata(store[norm], norm, norm)
         \/ /\ store[norm] = "counter" /\ HasSuffix(n, "created")
            /\ md = Metadata("counter", norm, Append(norm, "total"))
  BY MetadataName
<1>2. CASE store[norm] # "counter"
  <2>1. md.name = norm
    BY <1>1, <1>2 DEF Metadata
  <2> QED
    BY <1>1, <1>2, <2>1 DEF FamilyName, isCounterCreatedLine
<1>3. CASE store[norm] = "counter"
  <2>1. md.name = Append(norm, "total")
    BY <1>1, <1>3 DEF Metadata
  <2> QED
    BY <1>1, <1>3, <2>1 DEF FamilyName, isCounterCreatedLine
<1> QED
  BY <1>2, <1>3

\* A name that belongs to the family of its metadata makes the same family as that
\* metadata's own name does.
LEMMA FitsIn ==
    ASSUME NEW n \in Names, NEW native \in BOOLEAN, NEW nhcb \in BOOLEAN,
           metadataForMetric(n).name # n,
           Belongs(newMetricFamily(metadataForMetric(n).name, native, nhcb), n)
    PROVE  newMetricFamily(n, native, nhcb) = newMetricFamily(metadataForMetric(n).name, native, nhcb)
<1> DEFINE norm == normalizeMetricName(n)
           other == metadataForMetric(n).name
<1>1. /\ norm \in Names /\ other \in Names
  BY Trimmed, MetadataName
<1>2. /\ n \notin internalMetricMetadata /\ ~ HasMetadata(n) /\ HasMetadata(norm)
      /\ \/ /\ store[norm] # "counter" /\ metadataForMetric(n) = Metadata(store[norm], norm, norm)
         \/ /\ store[norm] = "counter" /\ HasSuffix(n, "created")
            /\ metadataForMetric(n) = Metadata("counter", norm, Append(norm, "total"))
  BY MetadataName
<1> DEFINE mf == newMetricFamily(other, native, nhcb)
<1>3. /\ mf.name = metadataForMetric(other).name /\ mf.family = metadataForMetric(other).family
      /\ native => mf.mtype \in {"histogram", "exponential"}
      /\ ~ native => mf.mtype = convToMetricType(metadataForMetric(other).type, FALSE)
  <2> HIDE DEF other
  <2> QED
    BY <1>1, NewFamily
<1>4. mf.mtype # "gauge" /\ norm = IF mf.mtype = "sum" THEN mf.family ELSE mf.name
  BY DEF Belongs
<1>5. SUFFICES /\ metadataForMetric(n).name = metadataForMetric(other).name
               /\ metadataForMetric(n).family = metadataForMetric(other).family
               /\ native \/ metadataForMetric(n).type = metadataForMetric(other).type
  BY <1>5 DEF newMetricFamily
<1>6. CASE store[norm] # "counter"
  <2>1. other = norm /\ metadataForMetric(n) = Metadata(store[norm], norm, norm)
    BY <1>2, <1>6 DEF Metadata
  <2>2. CASE norm \in internalMetricMetadata
    <3>1. metadataForMetric(norm) = Metadata("gauge", norm, norm)
      BY <2>2 DEF metadataForMetric
    <3>2. convToMetricType("gauge", FALSE) = "gauge"
      BY DEF convToMetricType
    <3>3. native
      <4>1. metadataForMetric(other).type = "gauge"
        BY <2>1, <3>1 DEF Metadata
      <4> QED
        BY <1>3, <1>4, <3>2, <4>1, Zenon
    <3> QED
      BY <2>1, <3>1, <3>3 DEF Metadata
  <2>3. CASE norm \notin internalMetricMetadata
    <3>1. metadataForMetric(norm) = Metadata(store[norm], norm, norm)
      BY <1>2, <2>3 DEF metadataForMetric
    <3> QED
      BY <2>1, <3>1
  <2> QED
    BY <2>2, <2>3
<1>7. CASE store[norm] = "counter"
  <2>1. /\ other = Append(norm, "total")
        /\ metadataForMetric(n) = Metadata("counter", norm, Append(norm, "total"))
    BY <1>2, <1>7 DEF Metadata
  <2>2. /\ other # norm /\ normalizeMetricName(other) = norm /\ other \notin internalMetricMetadata
        /\ ~ HasSuffix(other, "created")
    <3> HIDE DEF norm
    <3>1. "total" \in Strings
      BY DEF Strings
    <3>2. other # norm /\ normalizeMetricName(other) = norm /\ Last(other) = "total"
      BY <1>1, <2>1, <3>1, Suffixed
    <3>3. other \notin internalMetricMetadata
      BY <1>1, <2>1, <3>1, UpIsShort
    <3> QED
      BY <3>2, <3>3 DEF HasSuffix
  <2>3. ~ HasMetadata(other)
    <3> SUFFICES ASSUME HasMetadata(other) PROVE FALSE
      OBVIOUS
    <3>1. metadataForMetric(other) = Metadata(store[other], other, other)
      BY <2>2 DEF metadataForMetric
    <3>2. mf.name = other /\ mf.family = other
      BY <1>3, <3>1 DEF Metadata
    <3> QED
      BY <1>4, <2>2, <3>2
  <2>4. metadataForMetric(other) = Metadata("counter", norm, other)
    BY <1>2, <1>7, <2>2, <2>3 DEF metadataForMetric
  <2> QED
    BY <2>1, <2>4 DEF Metadata
<1> QED
  BY <1>6, <1>7

\* getOrCreateMetricFamily finds a family under the name or the trimmed name and
\* changes nothing, or puts a new one under the name of its metadata; no other family
\* is touched.
LEMMA GetOrCreate ==
    ASSUME NEW fams \in Maps(Keys, Families), NEW resource \in Strings, NEW scope \in Strings,
           NEW n \in Names, NEW native \in BOOLEAN, NEW nhcb \in BOOLEAN
    PROVE  LET K(x) == Key(resource, scope, native, x)
               new == newMetricFamily(n, native, nhcb)
               f == getOrCreateMetricFamily(fams, resource, scope, n, native, nhcb)
           IN  /\ f.fams \in Maps(Keys, Families)
               /\ f.key \in {K(n), K(FamilyName(n)), K(new.name)} /\ f.key \in Keys
               /\ DOMAIN f.fams = DOMAIN fams \cup {f.key}
               /\ \A k \in DOMAIN fams \ {f.key} : f.fams[k] = fams[k]
               /\ \/ /\ f.fams = fams /\ f.key \in DOMAIN fams
                     /\ \/ f.key = K(n)
                        \/ /\ K(n) \notin DOMAIN fams /\ f.key = K(FamilyName(n))
                           /\ includesMetric(fams[f.key], n)
                  \/ /\ f.key = K(new.name) /\ f.fams = Put(fams, f.key, new)
                     /\ f.fams[f.key] = new /\ K(n) \notin DOMAIN fams
                     /\ ~ (/\ K(FamilyName(n)) \in DOMAIN fams
                           /\ includesMetric(fams[K(FamilyName(n))], n))
<1> DEFINE K(x) == Key(resource, scope, native, x)
           new == newMetricFamily(n, native, nhcb)
           f == getOrCreateMetricFamily(fams, resource, scope, n, native, nhcb)
           fn == FamilyName(n)
<1>1. new \in Families /\ new.name \in Names
  BY NewFamily, MetadataName, ZenonT(60)
<1>2. \A x \in Names : K(x) \in Keys
  BY DEF Key, Keys, Names
<1>3. fn \in Names
  <2>1. normalizeMetricName(n) \in Names
    BY Trimmed
  <2>2. Append(normalizeMetricName(n), "total") \in Names
    BY <2>1, Suffixed DEF Strings
  <2> QED
    BY <2>1, <2>2 DEF FamilyName
<1>4. f = IF K(n) \in DOMAIN fams THEN [key |-> K(n), fams |-> fams]
          ELSE IF K(fn) \in DOMAIN fams /\ includesMetric(fams[K(fn)], n)
               THEN [key |-> K(fn), fams |-> fams]
          ELSE [key |-> K(new.name), fams |-> Put(fams, K(new.name), new)]
  BY Zenon DEF getOrCreateMetricFamily, FamilyName
<1> HIDE DEF K, new, f, fn
<1>5. K(n) \in Keys /\ K(fn) \in Keys /\ K(new.name) \in Keys
  BY <1>1, <1>2, <1>3
<1>6. CASE K(n) \in DOMAIN fams
  <2>1. f.key = K(n) /\ f.fams = fams
    BY <1>4, <1>6
  <2> QED
    BY <1>5, <1>6, <2>1 DEF K, new, f, fn
<1>7. CASE K(n) \notin DOMAIN fams /\ K(fn) \in DOMAIN fams /\ includesMetric(fams[K(fn)], n)
  <2>1. f.key = K(fn) /\ f.fams = fams
    BY <1>4, <1>7
  <2> QED
    BY <1>5, <1>7, <2>1 DEF K, new, f, fn
<1>8. CASE K(n) \notin DOMAIN fams /\ ~ (K(fn) \in DOMAIN fams /\ includesMetric(fams[K(fn)], n))
  <2>1. f.key = K(new.name) /\ f.fams = Put(fams, K(new.name), new)
    BY <1>4, <1>8
  <2>2. /\ f.fams \in Maps(Keys, Families) /\ DOMAIN f.fams = DOMAIN fams \cup {f.key}
        /\ f.fams[f.key] = new /\ \A k \in DOMAIN fams \ {f.key} : f.fams[k] = fams[k]
    BY <1>1, <1>5, <2>1, PutMap
  <2> QED
    BY <1>5, <1>8, <2>1, <2>2 DEF K, new, f, fn
<1> QED
  BY <1>6, <1>7, <1>8

-----------------------------------------------------------------------------
(* Families made by the code, and what displaces one.                       *)

\* The family is the one that newMetricFamily makes of its own name.
Canonical(mf, k) ==
    \E b \in BOOLEAN :
        LET nf == newMetricFamily(k.name, k.native, b)
        IN  /\ mf.mtype = nf.mtype /\ mf.family = nf.family
            /\ mf.name = nf.name /\ k.name = nf.name

\* A new family is canonical unless its sample collides with another's.
LEMMA MadeCanonical ==
    ASSUME NEW n \in Names, NEW native \in BOOLEAN, NEW nhcb \in BOOLEAN,
           ~ Misfit(n, native, nhcb), NEW resource, NEW scope
    PROVE  LET new == newMetricFamily(n, native, nhcb)
           IN  Canonical(new, Key(resource, scope, native, new.name))
<1> DEFINE new == newMetricFamily(n, native, nhcb)
           other == metadataForMetric(n).name
           k == Key(resource, scope, native, new.name)
<1>1. new.name = other
  BY NewFamily
<1>2. k.name = other /\ k.native = native
  BY <1>1 DEF Key
<1>3. other \in Names
  BY MetadataName
<1>4. new = newMetricFamily(other, native, nhcb)
  <2>1. CASE other = n
    BY <2>1
  <2>2. CASE other # n
    <3>1. Belongs(newMetricFamily(other, native, nhcb), n)
      BY <2>2 DEF Misfit, Belongs
    <3> QED
      BY <2>2, <3>1, FitsIn
  <2> QED
    BY <2>1, <2>2
<1> HIDE DEF new, other, k
<1>5. Canonical(new, k)
  BY <1>1, <1>2, <1>4, Zenon DEF Canonical
<1> QED
  BY <1>5 DEF new, k

\* Families of the same name differ at most in the kind of native histogram.
LEMMA AlikeFamilies ==
    ASSUME NEW n \in Names, NEW native \in BOOLEAN, NEW a \in BOOLEAN, NEW b \in BOOLEAN
    PROVE  LET f == newMetricFamily(n, native, a)
               g == newMetricFamily(n, native, b)
           IN  /\ f.name = g.name /\ f.family = g.family
               /\ native => {f.mtype, g.mtype} \subseteq {"histogram", "exponential"}
               /\ ~ native => f.mtype = g.mtype
<1> DEFINE f == newMetricFamily(n, native, a)
           g == newMetricFamily(n, native, b)
<1>1. /\ f.name = metadataForMetric(n).name /\ f.family = metadataForMetric(n).family
      /\ native => f.mtype = IF a THEN "histogram" ELSE "exponential"
      /\ ~ native => f.mtype = convToMetricType(metadataForMetric(n).type, FALSE)
  BY NewFamily
<1>2. /\ g.name = metadataForMetric(n).name /\ g.family = metadataForMetric(n).family
      /\ native => g.mtype = IF b THEN "histogram" ELSE "exponential"
      /\ ~ native => g.mtype = convToMetricType(metadataForMetric(n).type, FALSE)
  BY NewFamily
<1> HIDE DEF f, g
<1>3. /\ f.name = g.name /\ f.family = g.family
      /\ native => {f.mtype, g.mtype} \subseteq {"histogram", "exponential"}
      /\ ~ native => f.mtype = g.mtype
  BY <1>1, <1>2
<1> QED
  BY <1>3 DEF f, g

\* Which names belong to a canonical family is a matter of its key alone.
LEMMA CanonicalBelongs ==
    ASSUME NEW k, k.name \in Names, k.native \in BOOLEAN, NEW mf, Canonical(mf, k),
           NEW n, NEW nhcb \in BOOLEAN
    PROVE  Belongs(mf, n) <=> Belongs(newMetricFamily(k.name, k.native, nhcb), n)
<1> DEFINE g == newMetricFamily(k.name, k.native, nhcb)
<1>1. PICK b \in BOOLEAN :
        LET nf == newMetricFamily(k.name, k.native, b)
        IN  /\ mf.mtype = nf.mtype /\ mf.family = nf.family
            /\ mf.name = nf.name /\ k.name = nf.name
  BY DEF Canonical
<1> DEFINE f == newMetricFamily(k.name, k.native, b)
<1>2. /\ f.name = g.name /\ f.family = g.family
      /\ k.native => {f.mtype, g.mtype} \subseteq {"histogram", "exponential"}
      /\ ~ k.native => f.mtype = g.mtype
  BY AlikeFamilies
<1> HIDE DEF f, g
<1>3. mf.mtype = f.mtype /\ mf.family = f.family /\ mf.name = f.name
  BY <1>1 DEF f
<1>4. CASE k.native
  BY <1>2, <1>3, <1>4 DEF Belongs, g
<1>5. CASE ~ k.native
  BY <1>2, <1>3, <1>5 DEF Belongs, g
<1> QED
  BY <1>4, <1>5

\* Only a sample that collides puts a new family in the place of a canonical one.
LEMMA OnlyMisfitsDisplace ==
    ASSUME NEW fams \in Maps(Keys, Families), NEW resource \in Strings, NEW scope \in Strings,
           NEW n \in Names, NEW native \in BOOLEAN, NEW nhcb \in BOOLEAN,
           LET f == getOrCreateMetricFamily(fams, resource, scope, n, native, nhcb)
           IN  f.key \in DOMAIN fams /\ Canonical(fams[f.key], f.key) /\ f.fams # fams
    PROVE  Misfit(n, native, nhcb)
<1> DEFINE K(x) == Key(resource, scope, native, x)
           new == newMetricFamily(n, native, nhcb)
           f == getOrCreateMetricFamily(fams, resource, scope, n, native, nhcb)
           other == metadataForMetric(n).name
<1>1. /\ f.key = K(new.name) /\ K(n) \notin DOMAIN fams
      /\ ~ (K(FamilyName(n)) \in DOMAIN fams /\ includesMetric(fams[K(FamilyName(n))], n))
  BY GetOrCreate
<1>2. new.name = other /\ other \in Names
  BY NewFamily, MetadataName
<1> HIDE DEF new, f, other
<1>3. f.key.name = other /\ f.key.native = native
  BY <1>1, <1>2 DEF Key
<1>4. f.key \in DOMAIN fams /\ Canonical(fams[f.key], f.key)
  BY DEF f
<1>5. other # n
  BY <1>1, <1>2, <1>4
<1>6. other = FamilyName(n)
  BY <1>5, OtherName DEF other
<1>7. fams[f.key].name = other
  BY <1>3, <1>4 DEF Canonical
<1>8. ~ Belongs(fams[f.key], n)
  BY <1>1, <1>2, <1>4, <1>5, <1>6, <1>7, Includes
<1>9. ~ Belongs(newMetricFamily(other, native, nhcb), n)
  BY <1>2, <1>3, <1>4, <1>8, CanonicalBelongs
<1> QED
  BY <1>5, <1>9 DEF Misfit, Belongs, other

\* includesMetric looks at the type and the names of the family and at nothing else.
LEMMA SameIncludes ==
    ASSUME NEW mf, NEW mh, NEW n,
           mf.mtype = mh.mtype, mf.name = mh.name, mf.family = mh.family
    PROVE  includesMetric(mf, n) <=> includesMetric(mh, n)
BY Zenon DEF includesMetric

\* getOrCreateMetricFamily a second time, as for the exemplar of the same sample,
\* finds the family it found or made, unless the sample collides.
LEMMA FoundAgain ==
    ASSUME NEW fams \in Maps(Keys, Families), NEW resource \in Strings, NEW scope \in Strings,
           NEW n \in Names, NEW native \in BOOLEAN, NEW nhcb \in BOOLEAN, NEW f, NEW g, NEW h,
           f = getOrCreateMetricFamily(fams, resource, scope, n, native, nhcb),
           h = getOrCreateMetricFamily(g, resource, scope, n, native, nhcb),
           DOMAIN g = DOMAIN f.fams, g[f.key].mtype = f.fams[f.key].mtype,
           g[f.key].name = f.fams[f.key].name, g[f.key].family = f.fams[f.key].family
    PROVE  /\ h.key = f.key
           /\ \/ h.fams = g
              \/ /\ Misfit(n, native, nhcb)
                 /\ h.fams = Put(g, f.key, newMetricFamily(n, native, nhcb))
<1> DEFINE K(x) == Key(resource, scope, native, x)
           new == newMetricFamily(n, native, nhcb)
           fn == FamilyName(n)
<1>1. h = IF K(n) \in DOMAIN g THEN [key |-> K(n), fams |-> g]
          ELSE IF K(fn) \in DOMAIN g /\ includesMetric(g[K(fn)], n)
               THEN [key |-> K(fn), fams |-> g]
          ELSE [key |-> K(new.name), fams |-> Put(g, K(new.name), new)]
  BY Zenon DEF getOrCreateMetricFamily, FamilyName
<1>2. /\ DOMAIN f.fams = DOMAIN fams \cup {f.key}
      /\ \/ /\ f.fams = fams /\ f.key \in DOMAIN fams
            /\ \/ f.key = K(n)
               \/ /\ K(n) \notin DOMAIN fams /\ f.key = K(fn)
                  /\ includesMetric(fams[f.key], n)
         \/ /\ f.key = K(new.name) /\ f.fams[f.key] = new /\ K(n) \notin DOMAIN fams
  BY GetOrCreate
<1>3. new.name = metadataForMetric(n).name /\ new.name \in Names
  <2>1. new.name = metadataForMetric(n).name
    BY NewFamily, ZenonT(60)
  <2>2. metadataForMetric(n).name \in Names
    BY MetadataName
  <2> QED
    BY <2>1, <2>2
<1>5. includesMetric(g[f.key], n) <=> includesMetric(f.fams[f.key], n)
  BY SameIncludes
<1>6. \A x : K(x).name = x
  BY DEF Key
<1> HIDE DEF K, new, fn
<1>7. /\ h.key = f.key
      /\ \/ h.fams = g
         \/ Misfit(n, native, nhcb) /\ h.fams = Put(g, f.key, new)
  <2>1. CASE f.key = K(n)
    BY <1>1, <1>2, <2>1
  <2>2. CASE f.key # K(n) /\ f.fams = fams /\ f.key \in DOMAIN fams /\ K(n) \notin DOMAIN fams
             /\ f.key = K(fn) /\ includesMetric(fams[f.key], n)
    BY <1>1, <1>2, <1>5, <2>2
  <2>3. CASE f.key # K(n) /\ f.key = K(new.name) /\ f.fams[f.key] = new /\ K(n) \notin DOMAIN fams
    <3>1. new.name # n
      BY <2>3
    <3>2. K(n) \notin DOMAIN g /\ K(new.name) \in DOMAIN g
      BY <1>2, <2>3
    <3>3. fn = new.name
      BY <1>3, <3>1, OtherName DEF fn
    <3>4. CASE includesMetric(g[f.key], n)
      BY <1>1, <2>3, <3>2, <3>3, <3>4
    <3>5. CASE ~ includesMetric(g[f.key], n)
      <4>1. h.key = f.key /\ h.fams = Put(g, f.key, new)
        BY <1>1, <2>3, <3>2, <3>3, <3>5
      <4>2. ~ Belongs(new, n)
        BY <1>5, <2>3, <3>1, <3>5, Includes
      <4>3. ~ Belongs(newMetricFamily(new.name, native, nhcb), n)
        <5>1. SUFFICES ASSUME Belongs(newMetricFamily(new.name, native, nhcb), n) PROVE FALSE
          OBVIOUS
        <5>2. new = newMetricFamily(new.name, native, nhcb)
          BY <1>3, <3>1, <5>1, FitsIn DEF new
        <5> QED
          BY <4>2, <5>1, <5>2
      <4>4. Misfit(n, native, nhcb)
        BY <1>3, <3>1, <4>3 DEF Misfit, Belongs
      <4> QED
        BY <4>1, <4>4
    <3> QED
      BY <3>4, <3>5
  <2> QED
    BY <1>2, <2>1, <2>2, <2>3
<1> QED
  BY <1>7 DEF new

-----------------------------------------------------------------------------
(* Adding to a group, and replacing the group in its family.                *)

\* The parts of a group that addDatapoint can make of a sample.
Parts == {"value", "count", "sum", "point", "histogram", "created", "error", "ignored"}

IsNHCB(s) == s.kind = "nhcb"

\* The group after a sample: the start time if it has one, then the series.
Stored(mf, old, s) ==
    LET mg == IF s.st = 0 \/ (IsNative(s) /\ s.kind = "number") THEN old
              ELSE [old EXCEPT !.created = s.st]
    IN  IF ~ IsNative(s) THEN addSeries(mf, mg, s)
        ELSE IF IsNHCB(s) THEN addNHCBSeries(mf, mg, s)
        ELSE addExponentialHistogramSeries(mf, mg, s)

\* What a group becomes, and what is left of it, when a sample is added to it.
StoredRight(mf, old, s, new) ==
    /\ new.mg \in Groups /\ new.mg.ts = old.ts /\ new.mg.ls = old.ls
    /\ new.mg.exemplars = old.exemplars
    /\ new.part \in Parts /\ (new.part # "error" => old.ts = s.ts)
    /\ new.mg.value = IF new.part = "value" THEN s.val ELSE old.value
    /\ new.mg.count = IF new.part \in {"count", "histogram"} THEN s.val ELSE old.count
    /\ new.mg.sum = IF new.part \in {"sum", "histogram"} THEN s.val ELSE old.sum
    /\ new.mg.points = IF new.part = "point"
                       THEN Append(old.points, [boundary |-> getBoundary(mf.mtype, s),
                                                value |-> s.val])
                       ELSE old.points
    /\ new.part = "value" => mf.mtype \notin {"histogram", "summary", "exponential"}
    /\ new.part \in {"count", "sum", "point"} => mf.mtype \in {"histogram", "summary"}
    /\ new.part = "ignored" => mf.mtype = "exponential"
    /\ new.part = "histogram" => mf.mtype = IF IsNHCB(s) THEN "histogram" ELSE "exponential"
    /\ IF IsNative(s) THEN new.part \in {"histogram", "error"} ELSE new.part # "histogram"
    /\ new.part = "error" =>
          \/ old.ts # s.ts
          \/ ~ IsNative(s) /\ mf.mtype \in {"histogram", "summary"}
          \/ IsNative(s) /\ (IsNHCB(s) \/ mf.mtype # "exponential")
          \/ IsNative(s) /\ old.counts \notin {"none", s.counts}
    /\ \/ new.mg.h = old.h /\ new.mg.counts = old.counts
          /\ (new.part # "histogram" \/ old.counts = "integer")
       \/ new.part = "histogram" /\ new.mg.h = s.h /\ new.mg.counts = s.counts
    /\ new.mg.nhcb = IF new.part = "histogram" /\ IsNHCB(s) THEN TRUE ELSE old.nhcb

\* addSeries writes the one part of the group that the type and the suffix call for,
\* and nothing when the times differ.
LEMMA StoredPlain ==
    ASSUME NEW mf, NEW mg \in Groups, NEW s \in Samples, NEW new, new = addSeries(mf, mg, s)
    PROVE  /\ new.mg \in Groups /\ new.mg.ts = mg.ts /\ new.mg.ls = mg.ls
           /\ new.mg.exemplars = mg.exemplars /\ new.mg.h = mg.h /\ new.mg.counts = mg.counts
           /\ new.mg.nhcb = mg.nhcb
           /\ new.part \in Parts \ {"histogram"} /\ (new.part # "error" => mg.ts = s.ts)
           /\ new.mg.value = IF new.part = "value" THEN s.val ELSE mg.value
           /\ new.mg.count = IF new.part = "count" THEN s.val ELSE mg.count
           /\ new.mg.sum = IF new.part = "sum" THEN s.val ELSE mg.sum
           /\ new.mg.points = IF new.part = "point"
                              THEN Append(mg.points, [boundary |-> getBoundary(mf.mtype, s),
                                                      value |-> s.val])
                              ELSE mg.points
           /\ new.part = "value" => mf.mtype \notin {"histogram", "summary", "exponential"}
           /\ new.part \in {"count", "sum", "point"} => mf.mtype \in {"histogram", "summary"}
           /\ new.part = "ignored" => mf.mtype = "exponential"
           /\ new.part = "error" => mg.ts # s.ts \/ mf.mtype \in {"histogram", "summary"}
<1> DEFINE point == [boundary |-> getBoundary(mf.mtype, s), value |-> s.val]
           st == StoreSeries(mf, mg, s)
<1>0. /\ s.val \in Number /\ s.val \in Values /\ point \in [boundary : Boundary, value : Values]
  BY DEF Samples, Number, Values, getBoundary
<1>1. \/ st = Part([mg EXCEPT !.sum = s.val], "sum") /\ mf.mtype \in {"histogram", "summary"}
      \/ st = Part([mg EXCEPT !.count = s.val], "count") /\ mf.mtype \in {"histogram", "summary"}
      \/ st = Part([mg EXCEPT !.created = s.val], "created")
      \/ st = Part(mg, "error") /\ mf.mtype \in {"histogram", "summary"}
      \/ st = Part([mg EXCEPT !.points = Append(@, point)], "point")
           /\ mf.mtype \in {"histogram", "summary"}
      \/ st = Part(mg, "ignored") /\ mf.mtype = "exponential"
      \/ st = Part([mg EXCEPT !.value = s.val], "value")
           /\ mf.mtype \notin {"histogram", "summary", "exponential"}
  <2>1. CASE mf.mtype \in {"histogram", "summary"}
    BY <2>1, Zenon DEF StoreSeries
  <2>2. CASE mf.mtype = "exponential"
    BY <2>2, Zenon DEF StoreSeries
  <2>3. CASE mf.mtype \notin {"histogram", "summary", "exponential"}
    BY <2>3, Zenon DEF StoreSeries
  <2> QED
    BY <2>1, <2>2, <2>3
<1> HIDE DEF point, st
<1>2. CASE mg.ts # s.ts
  BY <1>2 DEF addSeries, Part, Parts
<1>3. CASE mg.ts = s.ts
  <2>1. new = st
    BY <1>3 DEF addSeries, st
  <2>2. CASE st = Part([mg EXCEPT !.sum = s.val], "sum") /\ mf.mtype \in {"histogram", "summary"}
    <3> DEFINE mh == [mg EXCEPT !.sum = s.val]
    <3>3. mh \in Groups
      BY <1>0 DEF Groups
    <3>4. /\ mh.ts = mg.ts /\ mh.ls = mg.ls /\ mh.exemplars = mg.exemplars /\ mh.h = mg.h
          /\ mh.counts = mg.counts /\ mh.nhcb = mg.nhcb /\ mh.value = mg.value /\ mh.count = mg.count
          /\ mh.points = mg.points
          /\ mh.sum = s.val
      BY DEF Groups
    <3>5. new.mg = mh /\ new.part = "sum"
      BY <2>1, <2>2 DEF Part
    <3> HIDE DEF mh
    <3> QED
      BY <1>3, <2>2, <3>3, <3>4, <3>5 DEF Parts
  <2>3. CASE st = Part([mg EXCEPT !.count = s.val], "count") /\ mf.mtype \in {"histogram", "summary"}
    <3> DEFINE mh == [mg EXCEPT !.count = s.val]
    <3>3. mh \in Groups
      BY <1>0 DEF Groups
    <3>4. /\ mh.ts = mg.ts /\ mh.ls = mg.ls /\ mh.exemplars = mg.exemplars /\ mh.h = mg.h
          /\ mh.counts = mg.counts /\ mh.nhcb = mg.nhcb /\ mh.value = mg.value /\ mh.sum = mg.sum
          /\ mh.points = mg.points
          /\ mh.count = s.val
      BY DEF Groups
    <3>5. new.mg = mh /\ new.part = "count"
      BY <2>1, <2>3 DEF Part
    <3> HIDE DEF mh
    <3> QED
      BY <1>3, <2>3, <3>3, <3>4, <3>5 DEF Parts
  <2>4. CASE st = Part([mg EXCEPT !.created = s.val], "created")
    <3> DEFINE mh == [mg EXCEPT !.created = s.val]
    <3>3. mh \in Groups
      BY <1>0 DEF Groups
    <3>4. /\ mh.ts = mg.ts /\ mh.ls = mg.ls /\ mh.exemplars = mg.exemplars /\ mh.h = mg.h
          /\ mh.counts = mg.counts /\ mh.nhcb = mg.nhcb /\ mh.value = mg.value /\ mh.count = mg.count
          /\ mh.sum = mg.sum /\ mh.points = mg.points
      BY DEF Groups
    <3>5. new.mg = mh /\ new.part = "created"
      BY <2>1, <2>4 DEF Part
    <3> HIDE DEF mh
    <3> QED
      BY <1>3, <2>4, <3>3, <3>4, <3>5 DEF Parts
  <2>5. CASE st = Part(mg, "error") /\ mf.mtype \in {"histogram", "summary"}
    BY <1>3, <2>1, <2>5 DEF Part, Parts
  <2>6. CASE st = Part([mg EXCEPT !.points = Append(@, point)], "point")
             /\ mf.mtype \in {"histogram", "summary"}
    <3> DEFINE mh == [mg EXCEPT !.points = Append(mg.points, point)]
    <3>1. mg.points \in Seq([boundary : Boundary, value : Values])
      BY DEF Groups
    <3>2. Append(mg.points, point) \in Seq([boundary : Boundary, value : Values])
      BY <1>0, <3>1, AppendProperties
    <3>3. mh \in Groups
      BY <1>0, <3>2 DEF Groups
    <3>4. /\ mh.ts = mg.ts /\ mh.ls = mg.ls /\ mh.exemplars = mg.exemplars /\ mh.h = mg.h
          /\ mh.counts = mg.counts /\ mh.nhcb = mg.nhcb /\ mh.value = mg.value /\ mh.count = mg.count
          /\ mh.sum = mg.sum
          /\ mh.points = Append(mg.points, point)
      BY DEF Groups
    <3>5. new.mg = mh /\ new.part = "point"
      BY <2>1, <2>6 DEF Part
    <3> HIDE DEF mh
    <3> QED
      BY <1>3, <2>6, <3>3, <3>4, <3>5 DEF Parts, point
  <2>7. CASE st = Part(mg, "ignored") /\ mf.mtype = "exponential"
    BY <1>3, <2>1, <2>7 DEF Part, Parts
  <2>8. CASE st = Part([mg EXCEPT !.value = s.val], "value")
             /\ mf.mtype \notin {"histogram", "summary", "exponential"}
    <3> DEFINE mh == [mg EXCEPT !.value = s.val]
    <3>3. mh \in Groups
      BY <1>0 DEF Groups
    <3>4. /\ mh.ts = mg.ts /\ mh.ls = mg.ls /\ mh.exemplars = mg.exemplars /\ mh.h = mg.h
          /\ mh.counts = mg.counts /\ mh.nhcb = mg.nhcb /\ mh.count = mg.count /\ mh.sum = mg.sum
          /\ mh.points = mg.points
          /\ mh.value = s.val
      BY DEF Groups
    <3>5. new.mg = mh /\ new.part = "value"
      BY <2>1, <2>8 DEF Part
    <3> HIDE DEF mh
    <3> QED
      BY <1>3, <2>8, <3>3, <3>4, <3>5 DEF Parts
  <2> QED
    BY <1>1, <2>2, <2>3, <2>4, <2>5, <2>6, <2>7, <2>8
<1> QED
  BY <1>2, <1>3

\* Whatever the kind of the sample, its group becomes what StoredRight says.
LEMMA StoredGroup ==
    ASSUME NEW mf, NEW old \in Groups, NEW s \in Samples, NEW new, new = Stored(mf, old, s)
    PROVE  StoredRight(mf, old, s, new)
<1> DEFINE mg == IF s.st = 0 \/ (IsNative(s) /\ s.kind = "number") THEN old
                 ELSE [old EXCEPT !.created = s.st]
<1>1. mg \in Groups
  <2>1. s.st \in Values
    BY DEF Samples, Values
  <2> QED
    BY <2>1 DEF Groups
<1>2. /\ mg.ts = old.ts /\ mg.ls = old.ls /\ mg.exemplars = old.exemplars /\ mg.value = old.value
      /\ mg.count = old.count /\ mg.sum = old.sum /\ mg.points = old.points /\ mg.h = old.h
      /\ mg.counts = old.counts /\ mg.nhcb = old.nhcb
  BY DEF Groups
<1>3. new = IF ~ IsNative(s) THEN addSeries(mf, mg, s)
            ELSE IF IsNHCB(s) THEN addNHCBSeries(mf, mg, s)
            ELSE addExponentialHistogramSeries(mf, mg, s)
  BY DEF Stored
<1> HIDE DEF mg
<1>4. CASE ~ IsNative(s)
  <2>1. new = addSeries(mf, mg, s)
    BY <1>3, <1>4
  <2>2. /\ new.mg \in Groups /\ new.mg.ts = mg.ts /\ new.mg.ls = mg.ls
        /\ new.mg.exemplars = mg.exemplars /\ new.mg.h = mg.h /\ new.mg.counts = mg.counts
        /\ new.mg.nhcb = mg.nhcb
        /\ new.part \in Parts \ {"histogram"} /\ (new.part # "error" => mg.ts = s.ts)
        /\ new.mg.value = IF new.part = "value" THEN s.val ELSE mg.value
        /\ new.mg.count = IF new.part = "count" THEN s.val ELSE mg.count
        /\ new.mg.sum = IF new.part = "sum" THEN s.val ELSE mg.sum
        /\ new.mg.points = IF new.part = "point"
                           THEN Append(mg.points, [boundary |-> getBoundary(mf.mtype, s),
                                                   value |-> s.val])
                           ELSE mg.points
        /\ new.part = "value" => mf.mtype \notin {"histogram", "summary", "exponential"}
        /\ new.part \in {"count", "sum", "point"} => mf.mtype \in {"histogram", "summary"}
        /\ new.part = "ignored" => mf.mtype = "exponential"
        /\ new.part = "error" => mg.ts # s.ts \/ mf.mtype \in {"histogram", "summary"}
    BY <1>1, <2>1, StoredPlain
  <2> QED
    BY <1>2, <1>4, <2>2 DEF StoredRight
<1>5. CASE IsNative(s) /\ IsNHCB(s)
  <2>1. new = addNHCBSeries(mf, mg, s)
    BY <1>3, <1>5
  <2>2. /\ new.mg \in Groups /\ new.mg.ts = mg.ts /\ new.mg.ls = mg.ls
        /\ new.mg.exemplars = mg.exemplars /\ new.mg.value = mg.value
        /\ new.mg.points = mg.points
        /\ \/ /\ new.part = "histogram" /\ mg.ts = s.ts /\ mf.mtype = "histogram"
              /\ new.mg.count = s.val /\ new.mg.sum = s.val /\ new.mg.nhcb = TRUE
              /\ \/ new.mg.h = s.h /\ new.mg.counts = s.counts
                 \/ new.mg.h = mg.h /\ new.mg.counts = mg.counts /\ mg.counts = "integer"
           \/ /\ new.part = "error" /\ new.mg.count = mg.count /\ new.mg.sum = mg.sum
              /\ new.mg.h = mg.h /\ new.mg.counts = mg.counts /\ new.mg.nhcb = mg.nhcb
    <3>1. s.val \in Number /\ s.h \in Histograms /\ s.counts \in {"integer", "float"}
      BY DEF Samples, Number
    <3>2. CASE mg.ts # s.ts \/ mf.mtype # "histogram"
      <4>1. new = Part(mg, "error")
        BY <2>1, <3>2 DEF addNHCBSeries
      <4>2. new.mg = mg /\ new.part = "error"
        BY <4>1 DEF Part
      <4> QED
        BY <1>1, <3>2, <4>2
    <3>3. CASE ~ (mg.ts # s.ts \/ mf.mtype # "histogram")
      <4> DEFINE keep == mg.counts = "integer" /\ s.counts = "float"
                 mh == [mg EXCEPT !.nhcb = TRUE, !.count = s.val, !.sum = s.val,
                                  !.h = IF keep THEN @ ELSE s.h,
                                  !.counts = IF keep THEN @ ELSE s.counts]
      <4>1. new = Part(mh, "histogram")
        BY <2>1, <3>3 DEF addNHCBSeries
      <4>2. mh \in Groups
        BY <1>1, <3>1 DEF Groups
      <4>3. /\ mh.ts = mg.ts /\ mh.ls = mg.ls /\ mh.exemplars = mg.exemplars /\ mh.value = mg.value
            /\ mh.points = mg.points /\ mh.count = s.val /\ mh.sum = s.val /\ mh.nhcb = TRUE
            /\ \/ mh.h = s.h /\ mh.counts = s.counts
               \/ mh.h = mg.h /\ mh.counts = mg.counts /\ mg.counts = "integer"
        BY <1>1 DEF Groups
      <4> HIDE DEF mh
      <4> QED
        BY <3>3, <4>1, <4>2, <4>3 DEF Part
    <3> QED
      BY <3>2, <3>3
  <2> QED
    BY <1>2, <1>5, <2>2 DEF Parts, StoredRight
<1>6. CASE IsNative(s) /\ ~ IsNHCB(s)
  <2>1. new = addExponentialHistogramSeries(mf, mg, s)
    BY <1>3, <1>6
  <2>2. /\ new.mg \in Groups /\ new.mg.ts = mg.ts /\ new.mg.ls = mg.ls
        /\ new.mg.exemplars = mg.exemplars /\ new.mg.value = mg.value
        /\ new.mg.points = mg.points /\ new.mg.nhcb = mg.nhcb
        /\ \/ /\ new.part = "histogram" /\ mg.ts = s.ts /\ mf.mtype = "exponential"
              /\ new.mg.count = s.val /\ new.mg.sum = s.val
              /\ new.mg.h = s.h /\ new.mg.counts = s.counts
           \/ /\ new.part = "error" /\ new.mg.count = mg.count /\ new.mg.sum = mg.sum
              /\ new.mg.h = mg.h /\ new.mg.counts = mg.counts
              /\ \/ mg.ts # s.ts
                 \/ mf.mtype # "exponential"
                 \/ mg.counts \notin {"none", s.counts}
    <3>1. s.val \in Number /\ s.h \in Histograms /\ s.counts \in {"integer", "float"}
      BY DEF Samples, Number
    <3>2. CASE mg.ts # s.ts \/ mf.mtype # "exponential" \/ mg.counts \notin {"none", s.counts}
      BY <1>1, <2>1, <3>2 DEF addExponentialHistogramSeries, Part
    <3>3. CASE ~ (mg.ts # s.ts \/ mf.mtype # "exponential" \/ mg.counts \notin {"none", s.counts})
      <4> DEFINE mh == [mg EXCEPT !.count = s.val, !.sum = s.val, !.h = s.h, !.counts = s.counts]
      <4>1. new = Part(mh, "histogram")
        BY <2>1, <3>3 DEF addExponentialHistogramSeries
      <4>2. mh \in Groups
        BY <1>1, <3>1 DEF Groups
      <4>3. /\ mh.ts = mg.ts /\ mh.ls = mg.ls /\ mh.exemplars = mg.exemplars /\ mh.value = mg.value
            /\ mh.points = mg.points /\ mh.count = s.val /\ mh.sum = s.val /\ mh.nhcb = mg.nhcb
            /\ mh.h = s.h /\ mh.counts = s.counts
        BY <1>1 DEF Groups
      <4> HIDE DEF mh
      <4> QED
        BY <3>3, <4>1, <4>2, <4>3 DEF Part
    <3> QED
      BY <3>2, <3>3
  <2> QED
    BY <1>2, <1>6, <2>2 DEF Parts, StoredRight
<1> QED
  BY <1>4, <1>5, <1>6

\* A new group is well formed.
LEMMA EmptyGroupType ==
    ASSUME NEW ts \in Nat, NEW ref \in Refs
    PROVE  EmptyGroup(ts, ref) \in Groups
<1>1. NoHistogram \in Histograms
  <2>1. <<>> \in Seq(Int) /\ <<>> \in Seq([offset : Int, length : Nat])
    BY EmptySeq, Zenon
  <2> QED
    BY <2>1 DEF NoHistogram, Histograms
<1>2. <<>> \in Seq([boundary : Boundary, value : Values])
  BY EmptySeq
<1> QED
  BY <1>1, <1>2 DEF EmptyGroup, Groups, Number, Values

\* getSeriesRef: a series is told apart by attributes, boundaries and the external label.
LEMMA SeriesRef ==
    ASSUME NEW s \in Samples, NEW ext, NEW mtype
    PROVE  /\ getSeriesRef(s, ext, mtype) \in Refs
           /\ getSeriesRef(s, ext, mtype).ext = (ext = "label")
BY DEF getSeriesRef, Refs, Samples, Boundary, Strings

\* Keys and values of a map are of their sets.
LEMMA InMap ==
    ASSUME NEW S, NEW T, NEW m \in Maps(S, T), NEW k \in DOMAIN m
    PROVE  k \in S /\ m[k] \in T
BY MapIsFunction

\* The fields of a family.
LEMMA FamilyFields ==
    ASSUME NEW mf \in Families
    PROVE  /\ mf.mtype \in MetricTypes /\ mf.name \in Names /\ mf.family \in Names
           /\ mf.groups \in Maps(Refs, Groups)
BY DEF Families

\* Steps of WithGroup and appendExemplar.
SetGroups(fams, k, gs) == [fams EXCEPT ![k].groups = gs]
SetGroup(gs, r, mg) == [gs EXCEPT ![r] = mg]
OneMore(mg) == [mg EXCEPT !.exemplars = @ + 1]
Bump(fams, k, r) == [fams EXCEPT ![k].groups[r].exemplars = @ + 1]

\* Replacing the groups of one family leaves the other families alone.
LEMMA GroupsReplaced ==
    ASSUME NEW fams \in Maps(Keys, Families), NEW k \in DOMAIN fams,
           NEW gs \in Maps(Refs, Groups), NEW g, g = SetGroups(fams, k, gs)
    PROVE  /\ g \in Maps(Keys, Families) /\ DOMAIN g = DOMAIN fams
           /\ \A x \in DOMAIN fams \ {k} : g[x] = fams[x]
           /\ g[k].mtype = fams[k].mtype /\ g[k].name = fams[k].name
           /\ g[k].family = fams[k].family /\ g[k].groups = gs
<1> DEFINE mf == [fams[k] EXCEPT !.groups = gs]
<1>1. fams[k] \in Families /\ fams \in [DOMAIN fams -> Families] /\ DOMAIN fams \subseteq Keys
  BY MapIsFunction
<1>2. mf \in Families
  BY <1>1 DEF Families
<1>3. /\ mf.mtype = fams[k].mtype /\ mf.name = fams[k].name
      /\ mf.family = fams[k].family /\ mf.groups = gs
  BY <1>1 DEF Families
<1>4. g = [fams EXCEPT ![k] = mf]
  BY DEF SetGroups
<1>5. g[k] = mf
  BY <1>1, <1>4
<1> HIDE DEF mf
<1>6. g \in [DOMAIN fams -> Families]
  BY <1>1, <1>2, <1>4
<1>7. g \in Maps(Keys, Families)
  BY <1>1, <1>6, FunctionIsMap
<1> QED
  BY <1>1, <1>3, <1>4, <1>5, <1>7

\* Replacing one group leaves the others alone.
LEMMA GroupReplaced ==
    ASSUME NEW gs \in Maps(Refs, Groups), NEW r \in DOMAIN gs, NEW mg \in Groups,
           NEW hs, hs = SetGroup(gs, r, mg)
    PROVE  /\ hs \in Maps(Refs, Groups) /\ DOMAIN hs = DOMAIN gs /\ hs[r] = mg
           /\ \A x \in DOMAIN gs \ {r} : hs[x] = gs[x]
<1>1. DOMAIN gs \subseteq Refs /\ gs \in [DOMAIN gs -> Groups]
  BY MapIsFunction
<1>2. hs \in [DOMAIN gs -> Groups]
  BY <1>1 DEF SetGroup
<1>3. hs \in Maps(Refs, Groups)
  BY <1>1, <1>2, FunctionIsMap
<1> QED
  BY <1>1, <1>3 DEF SetGroup

\* One exemplar more changes nothing else in the group.
LEMMA OneMoreExemplar ==
    ASSUME NEW mg \in Groups
    PROVE  /\ OneMore(mg) \in Groups /\ OneMore(mg).exemplars = mg.exemplars + 1
           /\ OneMore(mg) = [mg EXCEPT !.exemplars = mg.exemplars + 1]
BY DEF Groups, OneMore

\* g is fams with the group mg at ref in the family of k.
Regrouped(fams, k, ref, mg, g) ==
    /\ g \in Maps(Keys, Families) /\ DOMAIN g = DOMAIN fams
    /\ \A x \in DOMAIN fams \ {k} : g[x] = fams[x]
    /\ g[k].mtype = fams[k].mtype /\ g[k].name = fams[k].name
    /\ g[k].family = fams[k].family
    /\ DOMAIN g[k].groups = DOMAIN fams[k].groups \cup {ref}
    /\ g[k].groups[ref] = mg
    /\ \A r \in DOMAIN fams[k].groups \ {ref} : g[k].groups[r] = fams[k].groups[r]

\* Storing a group changes that group only.
LEMMA WithGroupEffect ==
    ASSUME NEW fams \in Maps(Keys, Families), NEW k \in DOMAIN fams, NEW ref \in Refs,
           NEW mg \in Groups, NEW g, g = WithGroup(fams, k, ref, mg)
    PROVE  Regrouped(fams, k, ref, mg, g)
<1> DEFINE old == fams[k].groups
           gs == Put(old, ref, mg)
<1>1. fams[k] \in Families
  BY InMap
<1>2. old \in Maps(Refs, Groups)
  BY <1>1, FamilyFields
<1>4. g = SetGroups(fams, k, gs)
  BY DEF WithGroup, SetGroups
<1> HIDE DEF old
<1>3. /\ gs \in Maps(Refs, Groups) /\ DOMAIN gs = DOMAIN old \cup {ref}
      /\ gs[ref] = mg /\ \A r \in DOMAIN old \ {ref} : gs[r] = old[r]
  BY <1>2, PutMap
<1> HIDE DEF gs
<1>5. /\ g \in Maps(Keys, Families) /\ DOMAIN g = DOMAIN fams
      /\ \A x \in DOMAIN fams \ {k} : g[x] = fams[x]
      /\ g[k].mtype = fams[k].mtype /\ g[k].name = fams[k].name
      /\ g[k].family = fams[k].family /\ g[k].groups = gs
  BY <1>3, <1>4, GroupsReplaced
<1> QED
  BY <1>3, <1>5 DEF old, Regrouped

\* Counting an exemplar changes its group only.
LEMMA BumpEffect ==
    ASSUME NEW fams \in Maps(Keys, Families), NEW k \in DOMAIN fams,
           NEW ref \in DOMAIN fams[k].groups, NEW g, g = Bump(fams, k, ref)
    PROVE  Regrouped(fams, k, ref, OneMore(fams[k].groups[ref]), g)
<1> DEFINE old == fams[k].groups
           mg == OneMore(old[ref])
           gs == SetGroup(old, ref, mg)
<1>1. fams[k] \in Families
  BY InMap
<1>2. old \in Maps(Refs, Groups)
  BY <1>1, FamilyFields
<1>3. old[ref] \in Groups /\ ref \in DOMAIN old
  BY <1>2, MapIsFunction
<1>5. g = SetGroups(fams, k, gs)
  BY DEF SetGroups, SetGroup, OneMore, Bump
<1> HIDE DEF old
<1>4. mg \in Groups
  BY <1>3, OneMoreExemplar
<1> HIDE DEF mg
<1>6. /\ gs \in Maps(Refs, Groups) /\ DOMAIN gs = DOMAIN old /\ gs[ref] = mg
      /\ \A r \in DOMAIN old \ {ref} : gs[r] = old[r]
  BY <1>2, <1>3, <1>4, GroupReplaced
<1> HIDE DEF gs
<1>7. /\ g \in Maps(Keys, Families) /\ DOMAIN g = DOMAIN fams
      /\ \A x \in DOMAIN fams \ {k} : g[x] = fams[x]
      /\ g[k].mtype = fams[k].mtype /\ g[k].name = fams[k].name
      /\ g[k].family = fams[k].family /\ g[k].groups = gs
  BY <1>5, <1>6, GroupsReplaced
<1> QED
  BY <1>3, <1>6, <1>7 DEF mg, old, Regrouped

-----------------------------------------------------------------------------
(* What one sample adds.                                                    *)

\* The parts of a sample that name its family and its resource.
LEMMA SampleTypes ==
    ASSUME NEW s \in Samples
    PROVE  /\ s.name \in Names /\ s.scope \in Strings /\ s.ts \in Nat /\ s.val \in Values
           /\ \A ext : getJobAndInstance(s, ext) \in Strings
<1>1. s.name \in Seq(STRING) /\ s.name # <<>>
  BY DEF Samples
<1>2. STRING \subseteq Strings
  BY DEF Strings
<1>3. s.name \in Seq(Strings)
  <2>1. s.name \in [1..Len(s.name) -> STRING] /\ Len(s.name) \in Nat
    BY <1>1, LenProperties
  <2>2. s.name \in [1..Len(s.name) -> Strings]
    BY <1>2, <2>1
  <2> QED
    BY <2>1, <2>2, SeqDef
<1>4. s.scope \in Strings /\ s.job \in Strings /\ s.ts \in Nat /\ s.val \in Values
  BY <1>2 DEF Samples, Values
<1>5. \A ext : getJobAndInstance(s, ext) \in Strings
  BY <1>4 DEF getJobAndInstance, Strings
<1> QED
  BY <1>1, <1>3, <1>4, <1>5 DEF Names

\* A family is kept under its name and a group under its labels.
Formed(k, mf) ==
    /\ mf.name = k.name
    /\ \A r \in DOMAIN mf.groups : mf.groups[r].ls = r /\ r.ext = (external = "label")

\* getOrCreateMetricFamily keeps families under their names.
LEMMA FoundFormed ==
    ASSUME NEW fams \in Maps(Keys, Families), NEW resource \in Strings, NEW scope \in Strings,
           NEW n \in Names, NEW native \in BOOLEAN, NEW nhcb \in BOOLEAN, NEW f,
           f = getOrCreateMetricFamily(fams, resource, scope, n, native, nhcb),
           \A k \in DOMAIN fams : Formed(k, fams[k])
    PROVE  \A k \in DOMAIN f.fams : Formed(k, f.fams[k])
<1> DEFINE new == newMetricFamily(n, native, nhcb)
<1>1. /\ DOMAIN f.fams = DOMAIN fams \cup {f.key}
      /\ \A k \in DOMAIN fams \ {f.key} : f.fams[k] = fams[k]
      /\ \/ f.fams = fams /\ f.key \in DOMAIN fams
         \/ f.key = Key(resource, scope, native, new.name) /\ f.fams[f.key] = new
  BY GetOrCreate
<1>2. DOMAIN new.groups = {}
  BY NewFamily
<1> HIDE DEF new
<1>3. Formed(Key(resource, scope, native, new.name), new)
  BY <1>2 DEF Formed, Key
<1> QED
  BY <1>1, <1>3

\* loadMetricGroupOrCreate: the group there is, or an empty one with the sample's time.
LEMMA Loaded ==
    ASSUME NEW k, NEW mf \in Families, Formed(k, mf), NEW ref \in Refs, NEW ts \in Nat
    PROVE  LET old == loadMetricGroupOrCreate(mf, ref, ts)
           IN  /\ old \in Groups /\ old.ls = ref
               /\ ref \in DOMAIN mf.groups => old = mf.groups[ref]
               /\ ref \notin DOMAIN mf.groups => old = EmptyGroup(ts, ref)
<1>1. CASE ref \in DOMAIN mf.groups
  <2>1. mf.groups \in Maps(Refs, Groups)
    BY FamilyFields
  <2>2. mf.groups[ref] \in Groups
    BY <1>1, <2>1, InMap
  <2> QED
    BY <1>1, <2>2 DEF loadMetricGroupOrCreate, Formed
<1>2. CASE ref \notin DOMAIN mf.groups
  <2>1. EmptyGroup(ts, ref) \in Groups /\ EmptyGroup(ts, ref).ls = ref
    BY EmptyGroupType DEF EmptyGroup
  <2> QED
    BY <1>2, <2>1 DEF loadMetricGroupOrCreate
<1> QED
  BY <1>1, <1>2

\* What adding a sample makes of the families: f is the family found for it, mf that
\* family, old its group and new what becomes of the group.
AddedRight(f, mf, old, s, new, to) ==
    /\ to.key = f.key /\ to.ref = getSeriesRef(s, external, mf.mtype) /\ to.ref \in Refs
    /\ to.part = new.part /\ StoredRight(mf, old, s, new)
    /\ mf = f.fams[f.key] /\ mf \in Families /\ Formed(to.key, mf)
    /\ old \in Groups /\ old.ls = to.ref
    /\ to.ref \in DOMAIN mf.groups => old = mf.groups[to.ref]
    /\ to.ref \notin DOMAIN mf.groups => old = EmptyGroup(s.ts, to.ref)
    /\ Regrouped(f.fams, to.key, to.ref, new.mg, to.fams)
    /\ \A k \in DOMAIN to.fams : Formed(k, to.fams[k])

\* getOrCreateMetricFamily as addDatapoint and appendExemplar call it.
Find(fams, resource, s) ==
    getOrCreateMetricFamily(fams, resource, s.scope, s.name, IsNative(s), IsNHCB(s))

\* What getOrCreateMetricFamily does: it finds the family or makes it.
FoundRight(fams, resource, s, f) ==
    LET K(x) == Key(resource, s.scope, IsNative(s), x)
        new == newMetricFamily(s.name, IsNative(s), IsNHCB(s))
    IN  /\ f.fams \in Maps(Keys, Families) /\ f.key \in Keys
        /\ f.key.resource = resource /\ f.key.native = IsNative(s)
        /\ DOMAIN f.fams = DOMAIN fams \cup {f.key}
        /\ \A k \in DOMAIN fams \ {f.key} : f.fams[k] = fams[k]
        /\ \/ /\ f.fams = fams /\ f.key \in DOMAIN fams
              /\ \/ f.key = K(s.name)
                 \/ f.key = K(FamilyName(s.name)) /\ includesMetric(fams[f.key], s.name)
           \/ f.key = K(new.name) /\ f.fams[f.key] = new
        /\ (\A k \in DOMAIN fams : Formed(k, fams[k])) => \A k \in DOMAIN f.fams : Formed(k, f.fams[k])

\* A sample is native or not, and has custom buckets or not.
LEMMA NativeBoolean ==
    ASSUME NEW s
    PROVE  IsNative(s) \in BOOLEAN /\ IsNHCB(s) \in BOOLEAN
BY DEF IsNative, IsNHCB

\* What FoundRight says is what getOrCreateMetricFamily does.
LEMMA FindRight ==
    ASSUME NEW fams \in Maps(Keys, Families), NEW resource \in Strings, NEW s \in Samples,
           NEW f, f = Find(fams, resource, s)
    PROVE  FoundRight(fams, resource, s, f)
<1> DEFINE native == IsNative(s)
           nhcb == IsNHCB(s)
           n == s.name
           scope == s.scope
           K(x) == Key(resource, scope, native, x)
           new == newMetricFamily(n, native, nhcb)
<1>1. n \in Names /\ scope \in Strings
  BY SampleTypes
<1>2. native \in BOOLEAN /\ nhcb \in BOOLEAN
  BY NativeBoolean
<1>3. f = getOrCreateMetricFamily(fams, resource, scope, n, native, nhcb)
  BY DEF Find
<1> HIDE DEF native, nhcb, n, scope
<1>4. /\ f.fams \in Maps(Keys, Families)
      /\ f.key \in {K(n), K(FamilyName(n)), K(new.name)} /\ f.key \in Keys
      /\ DOMAIN f.fams = DOMAIN fams \cup {f.key}
      /\ \A k \in DOMAIN fams \ {f.key} : f.fams[k] = fams[k]
      /\ \/ /\ f.fams = fams /\ f.key \in DOMAIN fams
            /\ \/ f.key = K(n)
               \/ /\ f.key = K(FamilyName(n))
                  /\ includesMetric(fams[f.key], n)
         \/ /\ f.key = K(new.name) /\ f.fams[f.key] = new
  BY <1>1, <1>2, <1>3, GetOrCreate
<1>5. (\A k \in DOMAIN fams : Formed(k, fams[k])) => \A k \in DOMAIN f.fams : Formed(k, f.fams[k])
  BY <1>1, <1>2, <1>3, FoundFormed
<1>6. \A x : K(x).resource = resource /\ K(x).native = native
  BY DEF Key
<1>7. f.key.resource = resource /\ f.key.native = native
  BY <1>4, <1>6
<1> QED
  BY <1>4, <1>5, <1>7 DEF FoundRight, native, nhcb, n, scope

\* addDatapoint: the family is found or made, and one group of it is replaced.
LEMMA Added ==
    ASSUME NEW fams \in Maps(Keys, Families), \A k \in DOMAIN fams : Formed(k, fams[k]),
           NEW resource \in Strings, NEW s \in Samples, NEW to,
           to = addDatapoint(fams, resource, s, IsNative(s), IsNHCB(s))
    PROVE  \E mf, old, new : AddedRight(Find(fams, resource, s), mf, old, s, new, to)
<1> DEFINE f == Find(fams, resource, s)
           mf == f.fams[f.key]
           ref == getSeriesRef(s, external, mf.mtype)
           old == loadMetricGroupOrCreate(mf, ref, s.ts)
           new == Stored(mf, old, s)
<1>1. s.ts \in Nat
  BY SampleTypes
<1>2. FoundRight(fams, resource, s, f)
  BY FindRight
<1>5. /\ to.key = f.key /\ to.ref = ref /\ to.part = new.part
      /\ to.fams = WithGroup(f.fams, f.key, ref, new.mg)
  BY DEF addDatapoint, Stored, Find, IsNHCB
<1> HIDE DEF f
<1>3. /\ f.fams \in Maps(Keys, Families) /\ f.key \in DOMAIN f.fams
      /\ \A k \in DOMAIN f.fams : Formed(k, f.fams[k])
  BY <1>2 DEF FoundRight
<1>4. mf \in Families /\ Formed(f.key, mf)
  BY <1>3, InMap
<1>6. ref \in Refs /\ ref.ext = (external = "label")
  BY SeriesRef
<1> HIDE DEF ref, mf
<1>7. /\ old \in Groups /\ old.ls = ref
      /\ ref \in DOMAIN mf.groups => old = mf.groups[ref]
      /\ ref \notin DOMAIN mf.groups => old = EmptyGroup(s.ts, ref)
  BY <1>1, <1>4, <1>6, Loaded
<1> HIDE DEF old
<1>8. StoredRight(mf, old, s, new)
  BY <1>7, StoredGroup
<1> HIDE DEF new
<1>9. new.mg \in Groups /\ new.mg.ls = ref
  BY <1>7, <1>8 DEF StoredRight
<1>10. Regrouped(f.fams, f.key, ref, new.mg, to.fams)
  BY <1>3, <1>5, <1>6, <1>9, WithGroupEffect
<1>11. Formed(f.key, to.fams[f.key])
  BY <1>4, <1>6, <1>9, <1>10 DEF Formed, Regrouped, mf
<1>12. \A k \in DOMAIN to.fams : Formed(k, to.fams[k])
  BY <1>3, <1>10, <1>11 DEF Regrouped
<1>13. AddedRight(f, mf, old, s, new, to)
  BY <1>4, <1>5, <1>6, <1>7, <1>8, <1>10, <1>12 DEF AddedRight, ref, mf
<1> QED
  BY <1>13 DEF f

-----------------------------------------------------------------------------
(* The sample's exemplar, and the sample with its exemplar.                 *)

\* What appendExemplar does with the family it finds.
ExemplarRight(h, s, fams, g) ==
    LET ref == getSeriesRef(s, "none", h.fams[h.key].mtype)
    IN  \/ ~ s.exemplar /\ g = fams
        \/ s.exemplar /\ ref \notin DOMAIN h.fams[h.key].groups /\ g = h.fams
        \/ /\ s.exemplar /\ ref \in DOMAIN h.fams[h.key].groups
           /\ Regrouped(h.fams, h.key, ref, OneMore(h.fams[h.key].groups[ref]), g)

\* appendExemplar: one exemplar more in the group that is found under the labels as they
\* were scraped, if there is one.
LEMMA ExemplarAdded ==
    ASSUME NEW fams \in Maps(Keys, Families), NEW s \in Samples, NEW h, NEW g,
           h = Find(fams, getJobAndInstance(s, "none"), s),
           g = appendExemplar(fams, s, IsNative(s))
    PROVE  ExemplarRight(h, s, fams, g)
<1> DEFINE ref == getSeriesRef(s, "none", h.fams[h.key].mtype)
<1>1. g = IF ~ s.exemplar THEN fams
          ELSE IF ref \notin DOMAIN h.fams[h.key].groups THEN h.fams
          ELSE Bump(h.fams, h.key, ref)
  BY DEF appendExemplar, Find, Bump, IsNHCB
<1>2. FoundRight(fams, getJobAndInstance(s, "none"), s, h)
  BY SampleTypes, FindRight
<1>3. h.fams \in Maps(Keys, Families) /\ h.key \in DOMAIN h.fams
  BY <1>2 DEF FoundRight
<1> HIDE DEF ref
<1>4. s.exemplar \in BOOLEAN
  BY DEF Samples
<1>5. CASE ~ s.exemplar \/ ref \notin DOMAIN h.fams[h.key].groups
  BY <1>1, <1>5 DEF ExemplarRight, ref
<1>6. CASE s.exemplar /\ ref \in DOMAIN h.fams[h.key].groups
  <2>1. g = Bump(h.fams, h.key, ref)
    BY <1>1, <1>6
  <2>2. Regrouped(h.fams, h.key, ref, OneMore(h.fams[h.key].groups[ref]), g)
    BY <1>3, <1>6, <2>1, BumpEffect
  <2> QED
    BY <1>6, <2>2 DEF ExemplarRight, ref
<1> QED
  BY <1>5, <1>6

\* The resource an external job label gives to every sample.
Own(k) == external = "job" => k.resource = "external"

\* A family only an exemplar looked for has no groups.
Ownless(fams) == \A k \in DOMAIN fams : ~ Own(k) => DOMAIN fams[k].groups = {}

\* What AppendSample makes of the families: to is where the sample went, mf the family
\* it found there and new what became of the group.
Effect(fams, s, to, mf, new, g) ==
    /\ g \in Maps(Keys, Families) /\ \A k \in DOMAIN g : Formed(k, g[k])
    /\ \A k \in DOMAIN g : k \in DOMAIN fams \/ k.resource \in Resources(s)
    /\ DOMAIN fams \subseteq DOMAIN g
    /\ \A k \in DOMAIN g : Own(k) /\ k # to.key => k \in DOMAIN fams /\ g[k] = fams[k]
    /\ to.key \in DOMAIN g /\ (Ownless(fams) => Ownless(g))
    /\ \A x \in DOMAIN g[to.key].groups \ {to.ref} :
          x \in DOMAIN mf.groups /\ g[to.key].groups[x] = mf.groups[x]
    /\ to.ref \in DOMAIN g[to.key].groups =>
          \/ g[to.key].groups[to.ref] = new.mg /\ (external = "none" => ~ s.exemplar)
          \/ g[to.key].groups[to.ref] = OneMore(new.mg) /\ s.exemplar
    /\ ~ Collides(s) =>
          /\ DOMAIN g[to.key].groups = DOMAIN mf.groups \cup {to.ref}
          /\ g[to.key].mtype = mf.mtype /\ g[to.key].name = mf.name
          /\ g[to.key].family = mf.family

\* The exemplar of a sample finds the sample's family, unless the sample collides.
LEMMA FoundTwice ==
    ASSUME NEW fams \in Maps(Keys, Families), NEW resource \in Strings, NEW s \in Samples,
           NEW f, NEW g, NEW h, f = Find(fams, resource, s), h = Find(g, resource, s),
           DOMAIN g = DOMAIN f.fams, g[f.key].mtype = f.fams[f.key].mtype,
           g[f.key].name = f.fams[f.key].name, g[f.key].family = f.fams[f.key].family
    PROVE  /\ h.key = f.key
           /\ h.fams = g \/ Collides(s)
<1> DEFINE native == IsNative(s)
           nhcb == IsNHCB(s)
           n == s.name
           scope == s.scope
<1>1. n \in Names /\ scope \in Strings
  BY SampleTypes
<1>2. native \in BOOLEAN /\ nhcb \in BOOLEAN
  BY NativeBoolean
<1>3. /\ f = getOrCreateMetricFamily(fams, resource, scope, n, native, nhcb)
      /\ h = getOrCreateMetricFamily(g, resource, scope, n, native, nhcb)
  BY DEF Find
<1>4. Misfit(n, native, nhcb) => Collides(s)
  BY DEF Misfit, Collides, IsNHCB
<1> HIDE DEF native, nhcb, n, scope
<1>5. /\ h.key = f.key
      /\ \/ h.fams = g
         \/ Misfit(n, native, nhcb)
  BY <1>1, <1>2, <1>3, FoundAgain
<1> QED
  BY <1>4, <1>5

\* A family that was just made has no groups.
LEMMA MadeEmpty ==
    ASSUME NEW fams, NEW resource, NEW s \in Samples, NEW f,
           FoundRight(fams, resource, s, f), f.fams # fams
    PROVE  DOMAIN f.fams[f.key].groups = {}
<1> DEFINE new == newMetricFamily(s.name, IsNative(s), IsNHCB(s))
<1>1. f.fams[f.key] = new
  BY DEF FoundRight
<1>2. s.name \in Names /\ IsNative(s) \in BOOLEAN /\ IsNHCB(s) \in BOOLEAN
  BY SampleTypes, NativeBoolean
<1>3. DOMAIN new.groups = {}
  BY <1>2, NewFamily
<1> QED
  BY <1>1, <1>3

\* AppendSample leaves every other family as it was, whatever becomes of the exemplar.
LEMMA SampleEffect ==
    ASSUME NEW fams \in Maps(Keys, Families), \A k \in DOMAIN fams : Formed(k, fams[k]),
           NEW s \in Samples, s.bad = "no", NEW f, NEW to, NEW mf, NEW old, NEW new, NEW g,
           f = Find(fams, getJobAndInstance(s, external), s),
           AddedRight(f, mf, old, s, new, to),
           g = appendExemplar(to.fams, s, IsNative(s))
    PROVE  Effect(fams, s, to, mf, new, g) /\ Own(to.key)
<1> DEFINE resource == getJobAndInstance(s, external)
           scraped == getJobAndInstance(s, "none")
           h == Find(to.fams, scraped, s)
           mid == to.fams
<1>1. /\ resource \in Strings /\ scraped \in Strings
      /\ external # "job" => resource = scraped
      /\ external = "job" => resource = "external"
      /\ resource \in Resources(s) /\ (s.exemplar => scraped \in Resources(s))
  BY SampleTypes DEF Resources, getJobAndInstance
<1>2. FoundRight(fams, resource, s, f)
  BY <1>1, FindRight
<1>3. ExemplarRight(h, s, mid, g)
  BY ExemplarAdded DEF AddedRight, Regrouped
<1>4. /\ mid \in Maps(Keys, Families) /\ \A k \in DOMAIN mid : Formed(k, mid[k])
      /\ DOMAIN mid = DOMAIN fams \cup {to.key} /\ to.key = f.key
      /\ \A k \in DOMAIN fams \ {to.key} : mid[k] = fams[k]
      /\ mid[to.key].mtype = mf.mtype /\ mid[to.key].name = mf.name
      /\ mid[to.key].family = mf.family
      /\ DOMAIN mid[to.key].groups = DOMAIN mf.groups \cup {to.ref}
      /\ mid[to.key].groups[to.ref] = new.mg
      /\ \A r \in DOMAIN mf.groups \ {to.ref} : mid[to.key].groups[r] = mf.groups[r]
  <2>1. /\ DOMAIN f.fams = DOMAIN fams \cup {f.key}
        /\ \A k \in DOMAIN fams \ {f.key} : f.fams[k] = fams[k]
    BY <1>2 DEF FoundRight
  <2>2. /\ to.key = f.key /\ mf = f.fams[f.key] /\ \A k \in DOMAIN mid : Formed(k, mid[k])
        /\ Regrouped(f.fams, to.key, to.ref, new.mg, mid)
    BY DEF AddedRight
  <2> HIDE DEF mid
  <2> QED
    BY <2>1, <2>2 DEF Regrouped
<1>5. Own(to.key) /\ to.key.resource = resource
  BY <1>1, <1>2, <1>4 DEF Own, FoundRight
<1>6. FoundRight(mid, scraped, s, h)
  BY <1>1, <1>4, FindRight
<1>7. new.mg \in Groups /\ s.exemplar \in BOOLEAN
  BY DEF AddedRight, StoredRight, Samples
<1>8. scraped = resource => h.key = to.key /\ (h.fams = mid \/ Collides(s))
  <2> SUFFICES ASSUME scraped = resource
               PROVE  h.key = to.key /\ (h.fams = mid \/ Collides(s))
    OBVIOUS
  <2>1. /\ DOMAIN mid = DOMAIN f.fams /\ mid[f.key].mtype = f.fams[f.key].mtype
        /\ mid[f.key].name = f.fams[f.key].name /\ mid[f.key].family = f.fams[f.key].family
    BY DEF AddedRight, Regrouped
  <2>2. h = Find(mid, resource, s) /\ f = Find(fams, resource, s)
    OBVIOUS
  <2> HIDE DEF h, mid, resource, scraped
  <2> QED
    BY <1>1, <1>4, <2>1, <2>2, FoundTwice
<1> HIDE DEF h, mid, resource, scraped
<1>9. CASE ~ s.exemplar
  <2>1. g = mid
    BY <1>3, <1>9 DEF ExemplarRight
  <2>2. Ownless(fams) => Ownless(g)
    BY <1>4, <1>5, <2>1 DEF Ownless
  <2> QED
    BY <1>1, <1>4, <1>5, <1>9, <2>1, <2>2 DEF Effect
<1>10. CASE s.exemplar /\ scraped # resource
  <2>1. external = "job" /\ h.key.resource = scraped /\ scraped # "external"
    BY <1>1, <1>6, <1>10 DEF FoundRight
  <2>2. ~ Own(h.key) /\ h.key # to.key
    BY <1>5, <2>1 DEF Own
  <2>3. /\ h.fams \in Maps(Keys, Families) /\ \A k \in DOMAIN h.fams : Formed(k, h.fams[k])
        /\ DOMAIN h.fams = DOMAIN mid \cup {h.key}
        /\ \A k \in DOMAIN mid \ {h.key} : h.fams[k] = mid[k]
    BY <1>4, <1>6 DEF FoundRight
  <2>4. /\ g \in Maps(Keys, Families) /\ \A k \in DOMAIN g : Formed(k, g[k])
        /\ DOMAIN g = DOMAIN mid \cup {h.key}
        /\ \A k \in DOMAIN mid \ {h.key} : g[k] = mid[k]
    <3>1. CASE g = h.fams
      BY <2>3, <3>1
    <3>2. CASE g # h.fams
      <4> DEFINE ref == getSeriesRef(s, "none", h.fams[h.key].mtype)
      <4>1. /\ ref \in DOMAIN h.fams[h.key].groups
            /\ Regrouped(h.fams, h.key, ref, OneMore(h.fams[h.key].groups[ref]), g)
        BY <1>3, <1>10, <3>2 DEF ExemplarRight
      <4> HIDE DEF ref
      <4>2. Formed(h.key, h.fams[h.key]) /\ h.fams[h.key].groups[ref] \in Groups
        BY <2>3, <4>1, InMap, FamilyFields
      <4>3. OneMore(h.fams[h.key].groups[ref]).ls = h.fams[h.key].groups[ref].ls
        BY <4>2 DEF OneMore, Groups
      <4>4. Formed(h.key, g[h.key])
        BY <4>1, <4>2, <4>3 DEF Formed, Regrouped
      <4> QED
        BY <2>3, <4>1, <4>4 DEF Regrouped
    <3> QED
      BY <3>1, <3>2
  <2>5. \A k \in DOMAIN g : Own(k) /\ k # to.key => k \in DOMAIN fams /\ g[k] = fams[k]
    BY <1>4, <2>2, <2>4
  <2>6. g[to.key] = mid[to.key]
    BY <1>4, <2>2, <2>4
  <2>7. \A k \in DOMAIN g : k \in DOMAIN fams \/ k.resource \in Resources(s)
    BY <1>1, <1>4, <1>5, <1>10, <2>1, <2>4
  <2>8. Ownless(fams) => Ownless(g)
    <3> SUFFICES ASSUME Ownless(fams) PROVE Ownless(g)
      OBVIOUS
    <3>1. DOMAIN h.fams[h.key].groups = {}
      <4>1. CASE h.fams = mid
        BY <1>4, <2>2, <2>3, <4>1 DEF Ownless
      <4>2. CASE h.fams # mid
        BY <1>6, <4>2, MadeEmpty
      <4> QED
        BY <4>1, <4>2
    <3>2. g = h.fams
      BY <1>3, <1>10, <3>1 DEF ExemplarRight
    <3> QED
      BY <1>4, <1>5, <2>4, <3>1, <3>2 DEF Ownless
  <2> QED
    BY <1>4, <1>5, <2>1, <2>4, <2>5, <2>6, <2>7, <2>8 DEF Effect
<1>11. CASE s.exemplar /\ scraped = resource /\ h.fams = mid
  <2> DEFINE ref == getSeriesRef(s, "none", h.fams[h.key].mtype)
  <2>1. h.key = to.key
    BY <1>8, <1>11
  <2>2. CASE external = "label"
    <3>1. ref.ext = FALSE
      BY DEF getSeriesRef
    <3>2. ref \notin DOMAIN mid[to.key].groups
      BY <1>4, <2>2, <3>1 DEF Formed
    <3>3. g = mid
      BY <1>3, <1>11, <2>1, <3>2 DEF ExemplarRight
    <3>4. Ownless(fams) => Ownless(g)
      BY <1>4, <1>5, <3>3 DEF Ownless
    <3> QED
      BY <1>1, <1>4, <1>5, <2>2, <3>3, <3>4 DEF Effect
  <2>3. CASE external # "label"
    <3>1. ref = to.ref
      <4>1. to.ref = getSeriesRef(s, external, mf.mtype)
        BY DEF AddedRight
      <4> QED
        BY <1>4, <1>11, <2>1, <2>3, <4>1 DEF getSeriesRef
    <3>2. ref \in DOMAIN h.fams[h.key].groups /\ h.fams[h.key].groups[ref] = new.mg
      BY <1>4, <1>11, <2>1, <3>1
    <3>3. Regrouped(mid, to.key, to.ref, OneMore(new.mg), g)
      BY <1>3, <1>11, <2>1, <3>1, <3>2 DEF ExemplarRight
    <3>4. OneMore(new.mg).ls = new.mg.ls
      BY <1>7 DEF OneMore, Groups
    <3>5. Formed(to.key, g[to.key])
      BY <1>4, <3>3, <3>4 DEF Formed, Regrouped
    <3> HIDE DEF ref
    <3>6. /\ g \in Maps(Keys, Families) /\ \A k \in DOMAIN g : Formed(k, g[k])
          /\ DOMAIN g = DOMAIN mid /\ \A k \in DOMAIN mid \ {to.key} : g[k] = mid[k]
      BY <1>4, <3>3, <3>5 DEF Regrouped
    <3>7. /\ g[to.key].mtype = mf.mtype /\ g[to.key].name = mf.name
          /\ g[to.key].family = mf.family
          /\ DOMAIN g[to.key].groups = DOMAIN mf.groups \cup {to.ref}
          /\ g[to.key].groups[to.ref] = OneMore(new.mg)
          /\ \A r \in DOMAIN mf.groups \ {to.ref} : g[to.key].groups[r] = mf.groups[r]
      BY <1>4, <3>3 DEF Regrouped
    <3>8. Ownless(fams) => Ownless(g)
      BY <1>4, <1>5, <3>6 DEF Ownless
    <3> QED
      BY <1>1, <1>4, <1>5, <1>11, <3>6, <3>7, <3>8 DEF Effect
  <2> QED
    BY <2>2, <2>3
<1>12. CASE s.exemplar /\ scraped = resource /\ h.fams # mid
  <2>1. h.key = to.key /\ Collides(s)
    BY <1>8, <1>12
  <2>2. DOMAIN h.fams[h.key].groups = {}
    BY <1>6, <1>12, MadeEmpty
  <2>3. g = h.fams
    BY <1>3, <1>12, <2>2 DEF ExemplarRight
  <2>4. /\ h.fams \in Maps(Keys, Families) /\ \A k \in DOMAIN h.fams : Formed(k, h.fams[k])
        /\ DOMAIN h.fams = DOMAIN mid \cup {h.key}
        /\ \A k \in DOMAIN mid \ {h.key} : h.fams[k] = mid[k]
    BY <1>4, <1>6 DEF FoundRight
  <2>5. Ownless(fams) => Ownless(g)
    BY <1>4, <1>5, <2>1, <2>3, <2>4 DEF Ownless
  <2> QED
    BY <1>1, <1>4, <1>5, <2>1, <2>2, <2>3, <2>4, <2>5 DEF Effect
<1> QED
  BY <1>5, <1>7, <1>9, <1>10, <1>11, <1>12

-----------------------------------------------------------------------------
(* The history, and the families it leads to.                               *)

\* What the history says of a sample.
EntryTypes ==
    [sample : Samples, key : Keys, ref : Refs, part : Parts \cup {"failed", "info"}]

\* No sample of the key's family put another family in its place.
Clean(app, k) == \A i \in DOMAIN app : app[i].key = k => ~ Collides(app[i].sample)
Good(app, k) == Own(k) /\ Clean(app, k)

\* The samples of a series.
Of(app, k, r) == {i \in DOMAIN app : app[i].key = k /\ app[i].ref = r}

\* v is the value of the last sample of the series among the parts P.
Holds(app, k, r, P, v) ==
    \/ v = None /\ \A i \in Of(app, k, r) : app[i].part \notin P
    \/ \E i \in Of(app, k, r) :
          /\ app[i].part \in P /\ v = app[i].sample.val
          /\ \A j \in Of(app, k, r) : app[j].part \in P => j <= i

\* The point a sample adds to a classic histogram or a summary.
PointOf(mtype, s) == [boundary |-> getBoundary(mtype, s), value |-> s.val]
\* The sample is where the group's buckets are from.
Brought(e, mg) == e.part = "histogram" /\ e.sample.h = mg.h /\ e.sample.counts = mg.counts

\* The group's points are those of the series' buckets or quantiles, no fewer and no more.
Pointed(app, k, r, mtype, mg) ==
    /\ \A i \in Of(app, k, r) : app[i].part = "point" =>
          \E j \in DOMAIN mg.points : mg.points[j] = PointOf(mtype, app[i].sample)
    /\ \A j \in DOMAIN mg.points : \E i \in Of(app, k, r) :
          app[i].part = "point" /\ mg.points[j] = PointOf(mtype, app[i].sample)
\* The group's histogram is that of one of its samples.
Sourced(app, k, r, mtype, mg) ==
    /\ mg.counts = "none" => \A i \in Of(app, k, r) : app[i].part # "histogram"
    /\ mg.counts # "none" => \E i \in Of(app, k, r) : Brought(app[i], mg)
    /\ mg.nhcb <=> mg.counts # "none" /\ mtype = "histogram"

\* What a group holds of the samples that were added to it.
Tracks(app, k, r, mtype, mg) ==
    /\ Holds(app, k, r, {"value"}, mg.value)
    /\ Holds(app, k, r, {"count", "histogram"}, mg.count)
    /\ Holds(app, k, r, {"sum", "histogram"}, mg.sum)
    /\ \A i \in Of(app, k, r) : app[i].part \in Parts \ {"error"} => app[i].sample.ts = mg.ts
    /\ Pointed(app, k, r, mtype, mg) /\ Sourced(app, k, r, mtype, mg)
    /\ mg.nhcb = FALSE \/ k.native

\* The group has the time of one of its samples.
Founded(app, k, r, mg) ==
    \E i \in Of(app, k, r) : app[i].part \in Parts /\ app[i].sample.ts = mg.ts

\* Why a sample is the part of its group that it is.
EntryRight(app, e, mtype) ==
    /\ e.key.native = IsNative(e.sample)
    /\ e.part = "value" => mtype \notin {"histogram", "summary", "exponential"}
    /\ e.part \in {"count", "sum", "point"} => mtype \in {"histogram", "summary"}
    /\ e.part = "ignored" => mtype = "exponential"
    /\ e.part = "histogram" => mtype = IF IsNHCB(e.sample) THEN "histogram" ELSE "exponential"
    /\ IF IsNative(e.sample) THEN e.part \in {"histogram", "error"} ELSE e.part # "histogram"
    /\ e.part = "error" =>
          \/ \E j \in Of(app, e.key, e.ref) :
                app[j].part \in Parts /\ app[j].sample.ts # e.sample.ts
          \/ ~ IsNative(e.sample) /\ mtype \in {"histogram", "summary"}
          \/ IsNative(e.sample) /\ (IsNHCB(e.sample) \/ mtype # "exponential")
          \/ IsNative(e.sample) /\ \E j \in Of(app, e.key, e.ref) : app[j].part = "histogram"
    /\ ~ IsNative(e.sample) /\ mtype \in {"histogram", "summary"} =>
          metadataForMetric(e.sample.name).type = mtype

\* What a family is and holds, by the samples that went to it.
FamilyRight(app, k, mf) ==
    /\ Canonical(mf, k)
    /\ k.native /\ mf.mtype = "histogram" =>
          \E i \in DOMAIN app : app[i].key = k /\ IsNHCB(app[i].sample)
    /\ \A r \in DOMAIN mf.groups : /\ Tracks(app, k, r, mf.mtype, mf.groups[r])
                                   /\ Founded(app, k, r, mf.groups[r])
    /\ \A i \in DOMAIN app : app[i].key = k /\ app[i].part \in Parts =>
          app[i].ref \in DOMAIN mf.groups /\ EntryRight(app, app[i], mf.mtype)

\* Every family that was not displaced is right, and no sample's family is missing.
Tracked(app, fams) ==
    /\ \A k \in DOMAIN fams : Good(app, k) => FamilyRight(app, k, fams[k])
    /\ \A i \in DOMAIN app : app[i].part \in Parts /\ Good(app, app[i].key) =>
          app[i].key \in DOMAIN fams

\* A longer history keeps its entries.
LEMMA Grown ==
    ASSUME NEW app \in Seq(EntryTypes), NEW e \in EntryTypes, NEW a, a = Append(app, e)
    PROVE  /\ a \in Seq(EntryTypes) /\ Len(app) \in Nat /\ Len(a) = Len(app) + 1
           /\ DOMAIN app = 1..Len(app) /\ DOMAIN a = DOMAIN app \cup {Len(app) + 1}
           /\ Len(app) + 1 \notin DOMAIN app
           /\ \A i \in DOMAIN app : a[i] = app[i] /\ i < Len(app) + 1
           /\ a[Len(app) + 1] = e
<1>1. /\ a \in Seq(EntryTypes) /\ Len(a) = Len(app) + 1 /\ Len(app) \in Nat
      /\ \A i \in 1..Len(app) : a[i] = app[i]
      /\ a[Len(app) + 1] = e
  BY AppendProperties, LenProperties
<1>2. DOMAIN app = 1..Len(app) /\ DOMAIN a = 1..Len(a)
  BY <1>1, LenProperties
<1> QED
  BY <1>1, <1>2

\* A series has the new sample if it is its own.
LEMMA OfGrown ==
    ASSUME NEW app \in Seq(EntryTypes), NEW e \in EntryTypes, NEW a, a = Append(app, e), NEW k, NEW r
    PROVE  /\ Of(app, k, r) \subseteq DOMAIN app /\ Of(app, k, r) \subseteq Of(a, k, r)
           /\ e.key = k /\ e.ref = r => Of(a, k, r) = Of(app, k, r) \cup {Len(app) + 1}
           /\ ~ (e.key = k /\ e.ref = r) => Of(a, k, r) = Of(app, k, r)
BY Grown DEF Of

\* A value stays the last one when the new sample is of another part.
LEMMA HoldsKept ==
    ASSUME NEW app \in Seq(EntryTypes), NEW e \in EntryTypes, NEW a, a = Append(app, e),
           NEW k, NEW r, NEW P, NEW v, Holds(app, k, r, P, v),
           ~ (e.key = k /\ e.ref = r /\ e.part \in P)
    PROVE  Holds(a, k, r, P, v)
<1>1. /\ \A i \in DOMAIN app : a[i] = app[i]
      /\ a[Len(app) + 1] = e
  BY Grown
<1>2. /\ Of(app, k, r) \subseteq DOMAIN app /\ Of(app, k, r) \subseteq Of(a, k, r)
      /\ e.key = k /\ e.ref = r => Of(a, k, r) = Of(app, k, r) \cup {Len(app) + 1}
      /\ ~ (e.key = k /\ e.ref = r) => Of(a, k, r) = Of(app, k, r)
  BY OfGrown, ZenonT(60)
<1>3. \A i \in Of(a, k, r) : a[i].part \in P => i \in Of(app, k, r) /\ a[i] = app[i]
  BY <1>1, <1>2
<1>4. CASE v = None /\ \A i \in Of(app, k, r) : app[i].part \notin P
  BY <1>3, <1>4 DEF Holds
<1>5. CASE ~ (v = None /\ \A i \in Of(app, k, r) : app[i].part \notin P)
  <2>1. PICK i \in Of(app, k, r) :
          /\ app[i].part \in P /\ v = app[i].sample.val
          /\ \A j \in Of(app, k, r) : app[j].part \in P => j <= i
    BY <1>5 DEF Holds
  <2>2. i \in Of(a, k, r) /\ a[i] = app[i]
    BY <1>1, <1>2
  <2>3. \A j \in Of(a, k, r) : a[j].part \in P => j <= i
    BY <1>3, <2>1
  <2> QED
    BY <2>1, <2>2, <2>3 DEF Holds
<1> QED
  BY <1>4, <1>5

\* The new sample's value is the last one of its part.
LEMMA HoldsNew ==
    ASSUME NEW app \in Seq(EntryTypes), NEW e \in EntryTypes, NEW a, a = Append(app, e),
           NEW P, e.part \in P
    PROVE  Holds(a, e.key, e.ref, P, e.sample.val)
<1>1. /\ \A i \in DOMAIN app : i < Len(app) + 1 /\ i \in Nat
      /\ a[Len(app) + 1] = e /\ Len(app) \in Nat
  BY Grown
<1>2. /\ Of(app, e.key, e.ref) \subseteq DOMAIN app
      /\ Of(a, e.key, e.ref) = Of(app, e.key, e.ref) \cup {Len(app) + 1}
  BY OfGrown
<1>3. \A j \in Of(a, e.key, e.ref) : j <= Len(app) + 1
  BY <1>1, <1>2
<1> QED
  BY <1>1, <1>2, <1>3 DEF Holds

\* A group still tells its samples when the new one is of another series.
LEMMA TracksKept ==
    ASSUME NEW app \in Seq(EntryTypes), NEW e \in EntryTypes, NEW a, a = Append(app, e),
           NEW k, NEW r, NEW mtype, NEW mg, Tracks(app, k, r, mtype, mg),
           ~ (e.key = k /\ e.ref = r /\ e.part \in Parts)
    PROVE  Tracks(a, k, r, mtype, mg)
<1>1. /\ \A i \in DOMAIN app : a[i] = app[i]
      /\ a[Len(app) + 1] = e
  BY Grown
<1>2. /\ Of(app, k, r) \subseteq DOMAIN app /\ Of(app, k, r) \subseteq Of(a, k, r)
      /\ e.key = k /\ e.ref = r => Of(a, k, r) = Of(app, k, r) \cup {Len(app) + 1}
      /\ ~ (e.key = k /\ e.ref = r) => Of(a, k, r) = Of(app, k, r)
  BY OfGrown, ZenonT(60)
<1>3. /\ \A i \in Of(a, k, r) : a[i].part \in Parts => i \in Of(app, k, r) /\ a[i] = app[i]
      /\ \A i \in Of(app, k, r) : i \in Of(a, k, r) /\ a[i] = app[i]
  BY <1>1, <1>2
<1>4. {"value", "count", "sum", "histogram", "point"} \subseteq Parts
  BY DEF Parts
<1>5. /\ Holds(a, k, r, {"value"}, mg.value)
      /\ Holds(a, k, r, {"count", "histogram"}, mg.count)
      /\ Holds(a, k, r, {"sum", "histogram"}, mg.sum)
  <2>1. /\ Holds(app, k, r, {"value"}, mg.value)
        /\ Holds(app, k, r, {"count", "histogram"}, mg.count)
        /\ Holds(app, k, r, {"sum", "histogram"}, mg.sum)
    BY DEF Tracks
  <2>2. \A P \in {{"value"}, {"count", "histogram"}, {"sum", "histogram"}} :
           ~ (e.key = k /\ e.ref = r /\ e.part \in P)
    BY <1>4
  <2>3. Holds(a, k, r, {"value"}, mg.value)
    BY <2>1, <2>2, HoldsKept
  <2>4. Holds(a, k, r, {"count", "histogram"}, mg.count)
    BY <2>1, <2>2, HoldsKept
  <2>5. Holds(a, k, r, {"sum", "histogram"}, mg.sum)
    BY <2>1, <2>2, HoldsKept
  <2> QED
    BY <2>3, <2>4, <2>5
<1>6. \A i \in Of(a, k, r) : a[i].part \in Parts \ {"error"} => a[i].sample.ts = mg.ts
  BY <1>3 DEF Tracks
<1>7. Pointed(a, k, r, mtype, mg)
  <2>1. /\ \A i \in Of(app, k, r) : app[i].part = "point" =>
              \E j \in DOMAIN mg.points : mg.points[j] = PointOf(mtype, app[i].sample)
        /\ \A j \in DOMAIN mg.points : \E i \in Of(app, k, r) :
              app[i].part = "point" /\ mg.points[j] = PointOf(mtype, app[i].sample)
    BY DEF Tracks, Pointed
  <2>2. \A i \in Of(a, k, r) : a[i].part = "point" => i \in Of(app, k, r) /\ a[i] = app[i]
    BY <1>3, <1>4
  <2>3. \A i \in Of(a, k, r) : a[i].part = "point" =>
           \E j \in DOMAIN mg.points : mg.points[j] = PointOf(mtype, a[i].sample)
    BY <2>1, <2>2, ZenonT(60)
  <2>4. \A j \in DOMAIN mg.points : \E i \in Of(a, k, r) :
           a[i].part = "point" /\ mg.points[j] = PointOf(mtype, a[i].sample)
    <3> SUFFICES ASSUME NEW j \in DOMAIN mg.points
                 PROVE  \E i \in Of(a, k, r) :
                           a[i].part = "point" /\ mg.points[j] = PointOf(mtype, a[i].sample)
      OBVIOUS
    <3>1. PICK i \in Of(app, k, r) :
             app[i].part = "point" /\ mg.points[j] = PointOf(mtype, app[i].sample)
      BY <2>1
    <3> QED
      BY <1>3, <3>1
  <2> QED
    BY <2>3, <2>4 DEF Pointed
<1>8. Sourced(a, k, r, mtype, mg)
  BY <1>3, <1>4 DEF Tracks, Sourced
<1>9. mg.nhcb = FALSE \/ k.native
  BY DEF Tracks
<1> QED
  BY <1>5, <1>6, <1>7, <1>8, <1>9 DEF Tracks

\* The group still has the time of one of its samples.
LEMMA FoundedKept ==
    ASSUME NEW app \in Seq(EntryTypes), NEW e \in EntryTypes, NEW a, a = Append(app, e),
           NEW k, NEW r, NEW mg, Founded(app, k, r, mg)
    PROVE  Founded(a, k, r, mg)
<1>1. \A i \in DOMAIN app : a[i] = app[i]
  BY Grown
<1>2. Of(app, k, r) \subseteq DOMAIN app /\ Of(app, k, r) \subseteq Of(a, k, r)
  BY OfGrown
<1> QED
  BY <1>1, <1>2 DEF Founded

\* Why an earlier sample became what it did remains true.
LEMMA EntryKept ==
    ASSUME NEW app \in Seq(EntryTypes), NEW e \in EntryTypes, NEW a, a = Append(app, e),
           NEW x, NEW mtype, EntryRight(app, x, mtype)
    PROVE  EntryRight(a, x, mtype)
<1>1. \A i \in DOMAIN app : a[i] = app[i]
  BY Grown
<1>2. /\ Of(app, x.key, x.ref) \subseteq DOMAIN app
      /\ Of(app, x.key, x.ref) \subseteq Of(a, x.key, x.ref)
  BY OfGrown
<1> QED
  BY <1>1, <1>2 DEF EntryRight

\* A family stays right when the new sample is not its own.
LEMMA FamilyKept ==
    ASSUME NEW app \in Seq(EntryTypes), NEW e \in EntryTypes, NEW a, a = Append(app, e),
           NEW k, NEW mf, FamilyRight(app, k, mf), ~ (e.key = k /\ e.part \in Parts)
    PROVE  FamilyRight(a, k, mf)
<1>1. /\ \A i \in DOMAIN app : a[i] = app[i] /\ i \in DOMAIN a
      /\ DOMAIN a = DOMAIN app \cup {Len(app) + 1} /\ a[Len(app) + 1] = e
  BY Grown
<1>2. \A r \in DOMAIN mf.groups : /\ Tracks(a, k, r, mf.mtype, mf.groups[r])
                                  /\ Founded(a, k, r, mf.groups[r])
  <2> SUFFICES ASSUME NEW r \in DOMAIN mf.groups
               PROVE  /\ Tracks(a, k, r, mf.mtype, mf.groups[r])
                      /\ Founded(a, k, r, mf.groups[r])
    OBVIOUS
  <2>1. /\ Tracks(app, k, r, mf.mtype, mf.groups[r])
        /\ Founded(app, k, r, mf.groups[r])
    BY DEF FamilyRight
  <2> QED
    BY <2>1, TracksKept, FoundedKept
<1>3. \A i \in DOMAIN a : a[i].key = k /\ a[i].part \in Parts =>
         a[i].ref \in DOMAIN mf.groups /\ EntryRight(a, a[i], mf.mtype)
  <2> SUFFICES ASSUME NEW i \in DOMAIN a, a[i].key = k, a[i].part \in Parts
               PROVE  a[i].ref \in DOMAIN mf.groups /\ EntryRight(a, a[i], mf.mtype)
    OBVIOUS
  <2>1. i \in DOMAIN app /\ a[i] = app[i]
    BY <1>1
  <2>2. a[i].ref \in DOMAIN mf.groups /\ EntryRight(app, a[i], mf.mtype)
    BY <2>1 DEF FamilyRight
  <2> QED
    BY <2>2, EntryKept
<1> QED
  BY <1>1, <1>2, <1>3 DEF FamilyRight

\* A group that tells its samples tells the new one too once it is stored.
LEMMA TracksGrown ==
    ASSUME NEW app \in Seq(EntryTypes), NEW e \in EntryTypes, NEW a, a = Append(app, e),
           NEW mf, NEW old \in Groups, NEW new, StoredRight(mf, old, e.sample, new),
           e.part = new.part, e.key.native = IsNative(e.sample),
           Tracks(app, e.key, e.ref, mf.mtype, old)
    PROVE  Tracks(a, e.key, e.ref, mf.mtype, new.mg)
<1> DEFINE k == e.key
           r == e.ref
           s == e.sample
           mg == new.mg
           P1 == {"value"}
           P2 == {"count", "histogram"}
           P3 == {"sum", "histogram"}
<1>1. /\ \A i \in DOMAIN app : a[i] = app[i]
      /\ a[Len(app) + 1] = e
  BY Grown
<1>2. /\ Of(app, k, r) \subseteq DOMAIN app
      /\ Of(a, k, r) = Of(app, k, r) \cup {Len(app) + 1}
  BY OfGrown
<1>3. \A i \in Of(a, k, r) : (i \in Of(app, k, r) /\ a[i] = app[i]) \/ a[i] = e
  BY <1>1, <1>2
<1>4. \A i \in Of(app, k, r) : i \in Of(a, k, r) /\ a[i] = app[i]
  BY <1>1, <1>2
<1>5. /\ mg.value = IF e.part \in P1 THEN s.val ELSE old.value
      /\ mg.count = IF e.part \in P2 THEN s.val ELSE old.count
      /\ mg.sum = IF e.part \in P3 THEN s.val ELSE old.sum
  BY DEF StoredRight
<1>6. /\ Holds(app, k, r, P1, old.value) /\ Holds(app, k, r, P2, old.count)
      /\ Holds(app, k, r, P3, old.sum)
  BY DEF Tracks
<1>7. Len(app) + 1 \in Of(a, k, r)
  BY <1>2
<1> HIDE DEF P1, P2, P3
<1>8. Holds(a, k, r, P1, mg.value)
  <2>1. CASE e.part \in P1
    BY <1>5, <2>1, HoldsNew
  <2>2. CASE e.part \notin P1
    <3>1. Holds(app, k, r, P1, old.value) /\ mg.value = old.value
      BY <1>5, <1>6, <2>2
    <3>2. ~ (e.key = k /\ e.ref = r /\ e.part \in P1)
      BY <2>2
    <3>3. Holds(a, k, r, P1, old.value)
      BY <3>1, <3>2, HoldsKept
    <3> QED
      BY <3>1, <3>3
  <2> QED
    BY <2>1, <2>2
<1>9. Holds(a, k, r, P2, mg.count)
  <2>1. CASE e.part \in P2
    BY <1>5, <2>1, HoldsNew
  <2>2. CASE e.part \notin P2
    <3>1. Holds(app, k, r, P2, old.count) /\ mg.count = old.count
      BY <1>5, <1>6, <2>2
    <3>2. ~ (e.key = k /\ e.ref = r /\ e.part \in P2)
      BY <2>2
    <3>3. Holds(a, k, r, P2, old.count)
      BY <3>1, <3>2, HoldsKept
    <3> QED
      BY <3>1, <3>3
  <2> QED
    BY <2>1, <2>2
<1>10. Holds(a, k, r, P3, mg.sum)
  <2>1. CASE e.part \in P3
    BY <1>5, <2>1, HoldsNew
  <2>2. CASE e.part \notin P3
    <3>1. Holds(app, k, r, P3, old.sum) /\ mg.sum = old.sum
      BY <1>5, <1>6, <2>2
    <3>2. ~ (e.key = k /\ e.ref = r /\ e.part \in P3)
      BY <2>2
    <3>3. Holds(a, k, r, P3, old.sum)
      BY <3>1, <3>2, HoldsKept
    <3> QED
      BY <3>1, <3>3
  <2> QED
    BY <2>1, <2>2
<1>11. \A i \in Of(a, k, r) : a[i].part \in Parts \ {"error"} => a[i].sample.ts = mg.ts
  <2>1. mg.ts = old.ts /\ (e.part # "error" => s.ts = mg.ts)
    BY DEF StoredRight
  <2>2. \A i \in Of(app, k, r) : app[i].part \in Parts \ {"error"} => app[i].sample.ts = old.ts
    BY DEF Tracks
  <2> QED
    BY <1>3, <2>1, <2>2
<1>12. Pointed(a, k, r, mf.mtype, mg)
  <2> DEFINE point == PointOf(mf.mtype, s)
  <2>1. mg.points = IF e.part = "point" THEN Append(old.points, point) ELSE old.points
    BY DEF StoredRight, PointOf
  <2>2. old.points \in Seq([boundary : Boundary, value : Values])
    BY DEF Groups
  <2>3. point \in [boundary : Boundary, value : Values]
    <3>1. e.sample \in Samples
      BY DEF EntryTypes
    <3> QED
      BY <3>1 DEF Samples, Values, getBoundary, PointOf
  <2> HIDE DEF point
  <2>4. /\ DOMAIN old.points \subseteq DOMAIN Append(old.points, point)
        /\ \A j \in DOMAIN old.points : Append(old.points, point)[j] = old.points[j]
        /\ \E j \in DOMAIN Append(old.points, point) : Append(old.points, point)[j] = point
        /\ \A j \in DOMAIN Append(old.points, point) :
              j \in DOMAIN old.points \/ Append(old.points, point)[j] = point
    <3>1. /\ Len(old.points) \in Nat /\ DOMAIN old.points = 1..Len(old.points)
          /\ Append(old.points, point) \in Seq([boundary : Boundary, value : Values])
          /\ Len(Append(old.points, point)) = Len(old.points) + 1
          /\ \A j \in 1..Len(old.points) : Append(old.points, point)[j] = old.points[j]
          /\ Append(old.points, point)[Len(old.points) + 1] = point
      BY <2>2, <2>3, AppendProperties, LenProperties
    <3>2. DOMAIN Append(old.points, point) = 1..(Len(old.points) + 1)
      BY <3>1, LenProperties
    <3>3. Len(old.points) + 1 \in DOMAIN Append(old.points, point)
      BY <3>1, <3>2
    <3>4. \A j \in DOMAIN Append(old.points, point) :
             j \in DOMAIN old.points \/ j = Len(old.points) + 1
      BY <3>1, <3>2
    <3>5. DOMAIN old.points \subseteq DOMAIN Append(old.points, point)
      BY <3>1, <3>2
    <3>6. \A j \in DOMAIN old.points : Append(old.points, point)[j] = old.points[j]
      BY <3>1
    <3>7. \E j \in DOMAIN Append(old.points, point) : Append(old.points, point)[j] = point
      BY <3>1, <3>3, Zenon
    <3>8. \A j \in DOMAIN Append(old.points, point) :
             j \in DOMAIN old.points \/ Append(old.points, point)[j] = point
      BY <3>1, <3>4, Zenon
    <3> QED
      BY <3>5, <3>6, <3>7, <3>8
  <2>5. /\ \A i \in Of(app, k, r) : app[i].part = "point" =>
              \E j \in DOMAIN old.points : old.points[j] = PointOf(mf.mtype, app[i].sample)
        /\ \A j \in DOMAIN old.points : \E i \in Of(app, k, r) :
              app[i].part = "point" /\ old.points[j] = PointOf(mf.mtype, app[i].sample)
    BY DEF Tracks, Pointed
  <2>6. \A i \in Of(app, k, r) : app[i].part = "point" =>
          \E j \in DOMAIN mg.points : mg.points[j] = PointOf(mf.mtype, app[i].sample)
    BY <2>1, <2>4, <2>5
  <2>7. e.part = "point" => \E j \in DOMAIN mg.points : mg.points[j] = PointOf(mf.mtype, s)
    BY <2>1, <2>4 DEF point
  <2>8. ASSUME NEW j \in DOMAIN mg.points
        PROVE  \E i \in Of(a, k, r) : a[i].part = "point" /\ mg.points[j] = PointOf(mf.mtype, a[i].sample)
    <3>1. CASE j \in DOMAIN old.points
      <4>1. mg.points[j] = old.points[j]
        BY <2>1, <2>4, <3>1
      <4> QED
        BY <1>4, <2>5, <3>1, <4>1, ZenonT(60)
    <3>2. CASE j \notin DOMAIN old.points
      <4>1. e.part = "point" /\ mg.points[j] = point
        BY <2>1, <2>4, <2>8, <3>2
      <4> QED
        BY <1>1, <1>7, <4>1 DEF point
    <3> QED
      BY <3>1, <3>2
  <2>9. \A i \in Of(a, k, r) : a[i].part = "point" =>
          \E j \in DOMAIN mg.points : mg.points[j] = PointOf(mf.mtype, a[i].sample)
    <3> SUFFICES ASSUME NEW i \in Of(a, k, r), a[i].part = "point"
                 PROVE  \E j \in DOMAIN mg.points : mg.points[j] = PointOf(mf.mtype, a[i].sample)
      OBVIOUS
    <3>1. CASE i \in Of(app, k, r) /\ a[i] = app[i]
      BY <2>6, <3>1
    <3>2. CASE a[i] = e
      BY <2>7, <3>2
    <3> QED
      BY <1>3, <3>1, <3>2
  <2> QED
    BY <2>8, <2>9 DEF Pointed
<1>13. /\ mg.counts = "none" => \A i \in Of(a, k, r) : a[i].part # "histogram"
       /\ mg.counts # "none" => \E i \in Of(a, k, r) : Brought(a[i], mg)
  <2>1. \/ mg.h = old.h /\ mg.counts = old.counts
             /\ (e.part # "histogram" \/ old.counts = "integer")
        \/ e.part = "histogram" /\ mg.h = s.h /\ mg.counts = s.counts
    BY DEF StoredRight
  <2>2. s.counts # "none"
    BY DEF EntryTypes, Samples
  <2>3. /\ old.counts = "none" => \A i \in Of(app, k, r) : app[i].part # "histogram"
        /\ old.counts # "none" => \E i \in Of(app, k, r) : Brought(app[i], old)
    BY DEF Tracks, Sourced
  <2>4. CASE mg.h = old.h /\ mg.counts = old.counts
               /\ (e.part # "histogram" \/ old.counts = "integer")
    BY <1>3, <1>4, <2>3, <2>4 DEF Brought
  <2>5. CASE e.part = "histogram" /\ mg.h = s.h /\ mg.counts = s.counts
    BY <1>1, <1>7, <2>2, <2>5 DEF Brought
  <2> QED
    BY <2>1, <2>4, <2>5
<1>14. mg.nhcb = FALSE \/ k.native
  <2>1. mg.nhcb = old.nhcb \/ e.part = "histogram"
    BY DEF StoredRight
  <2>2. e.part = "histogram" => IsNative(s)
    BY DEF StoredRight
  <2>3. old.nhcb = FALSE \/ k.native
    BY DEF Tracks
  <2>4. CASE mg.nhcb = old.nhcb
    BY <2>3, <2>4
  <2>5. CASE e.part = "histogram"
    <3>1. IsNative(s)
      BY <2>2, <2>5
    <3>2. IsNative(s) = TRUE
      BY <3>1, NativeBoolean
    <3> QED
      BY <3>2
  <2> QED
    BY <2>1, <2>4, <2>5
<1>15. mg.nhcb <=> mg.counts # "none" /\ mf.mtype = "histogram"
  <2>1. old.nhcb <=> old.counts # "none" /\ mf.mtype = "histogram"
    BY DEF Tracks, Sourced
  <2>2. CASE e.part # "histogram"
    <3>1. mg.nhcb = old.nhcb /\ mg.counts = old.counts
      BY <2>2 DEF StoredRight
    <3> QED
      BY <2>1, <3>1
  <2>3. CASE e.part = "histogram"
    <3>1. mg.counts # "none"
      BY <1>7, <1>1, <1>13, <2>3
    <3>2. /\ mf.mtype = IF IsNHCB(s) THEN "histogram" ELSE "exponential"
          /\ mg.nhcb = IF IsNHCB(s) THEN TRUE ELSE old.nhcb
      BY <2>3 DEF StoredRight
    <3> QED
      BY <2>1, <3>1, <3>2
  <2> QED
    BY <2>2, <2>3
<1> QED
  BY <1>8, <1>9, <1>10, <1>11, <1>12, <1>13, <1>14, <1>15 DEF Tracks, Sourced, P1, P2, P3

\* An empty group tells that it has no samples.
LEMMA TracksEmpty ==
    ASSUME NEW app, NEW k, NEW r, NEW mtype, NEW ts,
           \A i \in Of(app, k, r) : app[i].part \notin Parts
    PROVE  Tracks(app, k, r, mtype, EmptyGroup(ts, r))
<1> DEFINE mg == EmptyGroup(ts, r)
<1>1. /\ mg.value = None /\ mg.count = None /\ mg.sum = None /\ mg.counts = "none"
      /\ mg.nhcb = FALSE /\ mg.points = <<>>
  BY DEF EmptyGroup
<1>1a. DOMAIN mg.points = {}
  BY <1>1
<1> HIDE DEF mg
<1>2. \A i \in Of(app, k, r) :
         app[i].part \notin {"value", "count", "sum", "histogram", "point"}
  BY DEF Parts
<1>3. /\ Holds(app, k, r, {"value"}, mg.value)
      /\ Holds(app, k, r, {"count", "histogram"}, mg.count)
      /\ Holds(app, k, r, {"sum", "histogram"}, mg.sum)
  BY <1>1, <1>2 DEF Holds
<1>4. Tracks(app, k, r, mtype, mg)
  BY <1>1, <1>1a, <1>2, <1>3 DEF Tracks, Pointed, Sourced
<1> QED
  BY <1>4 DEF mg

\* An exemplar changes nothing of what a group tells.
LEMMA TracksOneMore ==
    ASSUME NEW app, NEW k, NEW r, NEW mtype, NEW mg \in Groups, Tracks(app, k, r, mtype, mg),
           Founded(app, k, r, mg)
    PROVE  Tracks(app, k, r, mtype, OneMore(mg)) /\ Founded(app, k, r, OneMore(mg))
<1> DEFINE mh == OneMore(mg)
<1>1. /\ mh.value = mg.value /\ mh.count = mg.count /\ mh.sum = mg.sum /\ mh.ts = mg.ts
      /\ mh.points = mg.points /\ mh.counts = mg.counts /\ mh.h = mg.h /\ mh.nhcb = mg.nhcb
  BY DEF OneMore, Groups
<1> HIDE DEF mh
<1>2. Founded(app, k, r, mh)
  BY <1>1 DEF Founded
<1>3. Pointed(app, k, r, mtype, mh)
  BY <1>1, ZenonT(60) DEF Tracks, Pointed
<1>4. Sourced(app, k, r, mtype, mh)
  BY <1>1 DEF Tracks, Sourced, Brought
<1>5. Tracks(app, k, r, mtype, mh)
  BY <1>1, <1>3, <1>4, Zenon DEF Tracks
<1> QED
  BY <1>2, <1>5 DEF mh

\* What is known of a family before a sample is added to it: what FamilyRight says of
\* its groups, or that it is new.
GroupsRight(app, k, mf) ==
    /\ \A r \in DOMAIN mf.groups : /\ Tracks(app, k, r, mf.mtype, mf.groups[r])
                                   /\ Founded(app, k, r, mf.groups[r])
    /\ \A i \in DOMAIN app : app[i].key = k /\ app[i].part \in Parts =>
          app[i].ref \in DOMAIN mf.groups /\ EntryRight(app, app[i], mf.mtype)

\* The new sample became what its type, suffix and time make of it.
LEMMA EntryMade ==
    ASSUME NEW app \in Seq(EntryTypes), NEW e \in EntryTypes, NEW a, a = Append(app, e),
           NEW mf, NEW old, NEW new, StoredRight(mf, old, e.sample, new),
           e.part = new.part, e.key.native = IsNative(e.sample),
           Tracks(app, e.key, e.ref, mf.mtype, old),
           Founded(app, e.key, e.ref, old) \/ old.ts = e.sample.ts,
           ~ IsNative(e.sample) /\ mf.mtype \in {"histogram", "summary"} =>
              metadataForMetric(e.sample.name).type = mf.mtype
    PROVE  EntryRight(a, e, mf.mtype)
<1>1. \A i \in DOMAIN app : a[i] = app[i]
  BY Grown
<1>2. /\ Of(app, e.key, e.ref) \subseteq DOMAIN app
      /\ Of(app, e.key, e.ref) \subseteq Of(a, e.key, e.ref)
  BY OfGrown
<1>3. old.ts # e.sample.ts => \E j \in Of(a, e.key, e.ref) :
         a[j].part \in Parts /\ a[j].sample.ts # e.sample.ts
  BY <1>1, <1>2 DEF Founded
<1>4. old.counts # "none" => \E j \in Of(a, e.key, e.ref) : a[j].part = "histogram"
  <2>1. old.counts # "none" => \E j \in Of(app, e.key, e.ref) : app[j].part = "histogram"
    BY DEF Tracks, Sourced, Brought
  <2> QED
    BY <1>1, <1>2, <2>1
<1>5. e.part = "error" =>
          \/ \E j \in Of(a, e.key, e.ref) :
                a[j].part \in Parts /\ a[j].sample.ts # e.sample.ts
          \/ ~ IsNative(e.sample) /\ mf.mtype \in {"histogram", "summary"}
          \/ IsNative(e.sample) /\ (IsNHCB(e.sample) \/ mf.mtype # "exponential")
          \/ IsNative(e.sample) /\ \E j \in Of(a, e.key, e.ref) : a[j].part = "histogram"
  <2>1. e.part = "error" =>
          \/ old.ts # e.sample.ts
          \/ ~ IsNative(e.sample) /\ mf.mtype \in {"histogram", "summary"}
          \/ IsNative(e.sample) /\ (IsNHCB(e.sample) \/ mf.mtype # "exponential")
          \/ IsNative(e.sample) /\ old.counts # "none"
    BY DEF StoredRight
  <2> QED
    BY <1>3, <1>4, <2>1
<1>6. /\ e.part = "value" => mf.mtype \notin {"histogram", "summary", "exponential"}
      /\ e.part \in {"count", "sum", "point"} => mf.mtype \in {"histogram", "summary"}
      /\ e.part = "ignored" => mf.mtype = "exponential"
      /\ e.part = "histogram" => mf.mtype = IF IsNHCB(e.sample) THEN "histogram" ELSE "exponential"
      /\ IF IsNative(e.sample) THEN e.part \in {"histogram", "error"} ELSE e.part # "histogram"
  BY DEF StoredRight
<1> QED
  BY <1>5, <1>6 DEF EntryRight

\* gf is the family mf with the sample of the entry e in it.
Grows(app, a, e, mf, old, new, gf) ==
    /\ mf \in Families /\ old \in Groups /\ StoredRight(mf, old, e.sample, new)
    /\ e.part = new.part /\ e.key.native = IsNative(e.sample) /\ GroupsRight(app, e.key, mf)
    /\ e.ref \in DOMAIN mf.groups => old = mf.groups[e.ref]
    /\ e.ref \notin DOMAIN mf.groups => old = EmptyGroup(e.sample.ts, e.ref)
    /\ ~ IsNative(e.sample) /\ mf.mtype \in {"histogram", "summary"} =>
          metadataForMetric(e.sample.name).type = mf.mtype
    /\ Canonical(mf, e.key)
    /\ e.key.native /\ mf.mtype = "histogram" =>
          \E i \in DOMAIN a : a[i].key = e.key /\ IsNHCB(a[i].sample)
    /\ gf.mtype = mf.mtype /\ gf.name = mf.name /\ gf.family = mf.family
    /\ DOMAIN gf.groups = DOMAIN mf.groups \cup {e.ref}
    /\ \A x \in DOMAIN mf.groups \ {e.ref} : gf.groups[x] = mf.groups[x]
    /\ gf.groups[e.ref] \in {new.mg, OneMore(new.mg)}

\* The family of the new sample is right once the sample is stored.
LEMMA FamilyGrown ==
    ASSUME NEW app \in Seq(EntryTypes), NEW e \in EntryTypes, NEW a, a = Append(app, e),
           NEW mf, NEW old, NEW new, NEW gf, Grows(app, a, e, mf, old, new, gf)
    PROVE  FamilyRight(a, e.key, gf)
<1> DEFINE k == e.key
           r == e.ref
<1> USE DEF Grows
<1>1. /\ \A i \in DOMAIN app : a[i] = app[i]
      /\ DOMAIN a = DOMAIN app \cup {Len(app) + 1} /\ a[Len(app) + 1] = e
  BY Grown
<1>2. /\ Of(app, k, r) \subseteq DOMAIN app
      /\ Of(a, k, r) = Of(app, k, r) \cup {Len(app) + 1}
  BY <1>1 DEF Of
<1>3. new.mg \in Groups /\ new.mg.ts = old.ts /\ new.part \in Parts
  BY DEF StoredRight
<1>4. Tracks(app, k, r, mf.mtype, old) /\ (Founded(app, k, r, old) \/ old.ts = e.sample.ts)
  <2>1. CASE r \in DOMAIN mf.groups
    BY <2>1 DEF GroupsRight
  <2>2. CASE r \notin DOMAIN mf.groups
    <3>1. \A i \in Of(app, k, r) : app[i].part \notin Parts
      BY <2>2 DEF GroupsRight, Of
    <3>2. old = EmptyGroup(e.sample.ts, r) /\ old.ts = e.sample.ts
      BY <2>2 DEF EmptyGroup
    <3> QED
      BY <3>1, <3>2, TracksEmpty
  <2> QED
    BY <2>1, <2>2
<1>5. Tracks(a, k, r, mf.mtype, new.mg)
  BY <1>4, TracksGrown
<1>6. Founded(a, k, r, new.mg)
  <2>1. CASE Founded(app, k, r, old)
    <3>1. Founded(a, k, r, old)
      BY <2>1, FoundedKept
    <3> QED
      BY <1>3, <3>1 DEF Founded
  <2>2. CASE old.ts = e.sample.ts
    BY <1>1, <1>2, <1>3, <2>2 DEF Founded
  <2> QED
    BY <1>4, <2>1, <2>2
<1>7. Tracks(a, k, r, mf.mtype, gf.groups[r]) /\ Founded(a, k, r, gf.groups[r])
  <2>1. /\ Tracks(a, k, r, mf.mtype, OneMore(new.mg)) /\ Founded(a, k, r, OneMore(new.mg))
    BY <1>3, <1>5, <1>6, TracksOneMore
  <2> QED
    BY <1>5, <1>6, <2>1
<1>8. \A x \in DOMAIN gf.groups : Tracks(a, k, x, gf.mtype, gf.groups[x]) /\ Founded(a, k, x, gf.groups[x])
  <2> SUFFICES ASSUME NEW x \in DOMAIN gf.groups
               PROVE  Tracks(a, k, x, gf.mtype, gf.groups[x]) /\ Founded(a, k, x, gf.groups[x])
    OBVIOUS
  <2>1. CASE x = r
    BY <1>7, <2>1
  <2>2. CASE x # r
    <3>1. x \in DOMAIN mf.groups /\ gf.groups[x] = mf.groups[x]
      BY <2>2
    <3>2. Tracks(app, k, x, mf.mtype, mf.groups[x]) /\ Founded(app, k, x, mf.groups[x])
      BY <3>1 DEF GroupsRight
    <3>3. Tracks(a, k, x, mf.mtype, mf.groups[x]) /\ Founded(a, k, x, mf.groups[x])
      BY <2>2, <3>2, TracksKept, FoundedKept, ZenonT(60)
    <3> QED
      BY <3>1, <3>3
  <2> QED
    BY <2>1, <2>2
<1>9. EntryRight(a, e, gf.mtype)
  BY <1>4, EntryMade
<1>10. \A i \in DOMAIN a : a[i].key = k /\ a[i].part \in Parts =>
          a[i].ref \in DOMAIN gf.groups /\ EntryRight(a, a[i], gf.mtype)
  <2> SUFFICES ASSUME NEW i \in DOMAIN a, a[i].key = k, a[i].part \in Parts
               PROVE  a[i].ref \in DOMAIN gf.groups /\ EntryRight(a, a[i], gf.mtype)
    OBVIOUS
  <2>1. CASE i \in DOMAIN app
    <3>1. a[i] = app[i] /\ app[i].ref \in DOMAIN mf.groups /\ EntryRight(app, app[i], mf.mtype)
      BY <1>1, <2>1 DEF GroupsRight
    <3>2. EntryRight(a, app[i], mf.mtype)
      BY <3>1, EntryKept
    <3> QED
      BY <3>1, <3>2
  <2>2. CASE i = Len(app) + 1
    BY <1>1, <1>9, <2>2
  <2> QED
    BY <1>1, <2>1, <2>2
<1>11. Canonical(gf, k)
  BY DEF Canonical
<1>12. k.native /\ gf.mtype = "histogram" =>
          \E i \in DOMAIN a : a[i].key = k /\ IsNHCB(a[i].sample)
  OBVIOUS
<1> QED
  BY <1>8, <1>10, <1>11, <1>12 DEF FamilyRight

-----------------------------------------------------------------------------
(* The type a family has, and the groups over a step.                       *)

\* A histogram or a summary family has metadata of that type.
LEMMA KindOfType ==
    ASSUME NEW t, NEW m, m \in {"histogram", "summary"}, m = convToMetricType(t, FALSE)
    PROVE  t = m
<1>1. t \in {"counter", "gauge", "unknown", "histogram", "summary", "info", "stateset"} \/
      t \notin {"counter", "gauge", "unknown", "histogram", "summary", "info", "stateset"}
  OBVIOUS
<1> QED
  BY <1>1 DEF convToMetricType

\* A canonical classic histogram or summary has its own metadata.
LEMMA CanonicalKind ==
    ASSUME NEW k, k.name \in Names, k.native = FALSE, NEW mf, Canonical(mf, k),
           mf.mtype \in {"histogram", "summary"}
    PROVE  metadataForMetric(k.name).type = mf.mtype /\ metadataForMetric(k.name).name = k.name
<1>1. PICK b \in BOOLEAN :
        LET nf == newMetricFamily(k.name, k.native, b)
        IN  /\ mf.mtype = nf.mtype /\ mf.family = nf.family
            /\ mf.name = nf.name /\ k.name = nf.name
  BY DEF Canonical
<1> DEFINE nf == newMetricFamily(k.name, FALSE, b)
<1>2. mf.mtype = nf.mtype /\ k.name = nf.name
  BY <1>1
<1>3. nf.mtype = convToMetricType(metadataForMetric(k.name).type, FALSE)
      /\ nf.name = metadataForMetric(k.name).name
  BY NewFamily
<1>4. convToMetricType(metadataForMetric(k.name).type, FALSE) = mf.mtype
  BY <1>2, <1>3
<1>5. metadataForMetric(k.name).type = mf.mtype
  BY <1>4, KindOfType
<1> QED
  BY <1>2, <1>3, <1>5

\* A histogram or a summary is one because the store says so.
LEMMA KindKnown ==
    ASSUME NEW n \in Names, metadataForMetric(n).name = n,
           metadataForMetric(n).type \in {"histogram", "summary"}
    PROVE  HasMetadata(n) /\ store[n] = metadataForMetric(n).type
<1> DEFINE norm == normalizeMetricName(n)
<1>1. CASE n \in internalMetricMetadata
  BY <1>1 DEF metadataForMetric, Metadata
<1>2. CASE n \notin internalMetricMetadata /\ HasMetadata(n)
  BY <1>2 DEF metadataForMetric, Metadata
<1>3. CASE n \notin internalMetricMetadata /\ ~ HasMetadata(n) /\ ~ HasMetadata(norm)
  BY <1>3 DEF metadataForMetric, Metadata
<1>4. CASE /\ n \notin internalMetricMetadata /\ ~ HasMetadata(n) /\ HasMetadata(norm)
           /\ store[norm] # "counter"
  <2>1. metadataForMetric(n).name = norm
    BY <1>4 DEF metadataForMetric, Metadata
  <2> QED
    BY <1>4, <2>1
<1>5. CASE /\ n \notin internalMetricMetadata /\ ~ HasMetadata(n) /\ HasMetadata(norm)
           /\ store[norm] = "counter"
  BY <1>5 DEF metadataForMetric, Metadata
<1> QED
  BY <1>1, <1>2, <1>3, <1>4, <1>5

\* A name without metadata has the type of the name it is trimmed to.
LEMMA KindShared ==
    ASSUME NEW n \in Names, NEW fn, fn = FamilyName(n), fn # n, fn = normalizeMetricName(n),
           HasMetadata(fn), store[fn] \in {"histogram", "summary"}
    PROVE  metadataForMetric(n).type = store[fn]
<1>1. ~ HasMetadata(n)
  BY DEF FamilyName
<1>2. n \notin internalMetricMetadata
  <2>1. normalizeMetricName(<<"up">>) = <<"up">>
    <3>1. Len(<<"up">>) = 1
      OBVIOUS
    <3> QED
      BY <3>1 DEF normalizeMetricName
  <2> QED
    BY <2>1 DEF internalMetricMetadata
<1> QED
  BY <1>1, <1>2 DEF metadataForMetric, Metadata

\* The type of the family a number goes to is the type of the number's metadata: a
\* histogram's buckets never land in a summary.
LEMMA KindRight ==
    ASSUME NEW fams \in Maps(Keys, Families), NEW resource, NEW s \in Samples, NEW f, NEW mf,
           FoundRight(fams, resource, s, f), mf = f.fams[f.key], Formed(f.key, mf),
           Canonical(mf, f.key), ~ IsNative(s), mf.mtype \in {"histogram", "summary"}
    PROVE  metadataForMetric(s.name).type = mf.mtype
<1> DEFINE K(x) == Key(resource, s.scope, IsNative(s), x)
           new == newMetricFamily(s.name, IsNative(s), IsNHCB(s))
           n == s.name
           fn == FamilyName(n)
<1>1. n \in Names
  BY SampleTypes
<1>2. \A x : K(x).name = x
  BY DEF Key
<1>3. f.key.native = FALSE
  BY NativeBoolean DEF FoundRight
<1>4. \/ f.key = K(n)
      \/ f.key = K(fn) /\ includesMetric(mf, n)
      \/ f.key = K(new.name) /\ mf = new
  BY DEF FoundRight
<1>5. mf \in Families /\ mf.name = f.key.name
  BY InMap DEF FoundRight, Formed
<1>6. f.key.name \in Names
  BY <1>5, FamilyFields
<1>7. metadataForMetric(f.key.name).type = mf.mtype /\ metadataForMetric(f.key.name).name = f.key.name
  BY <1>3, <1>6, CanonicalKind
<1>8. new.mtype = convToMetricType(metadataForMetric(n).type, FALSE)
  BY DEF newMetricFamily
<1> HIDE DEF K, new, n, fn
<1>9. CASE f.key = K(n)
  <2>1. f.key.name = n
    BY <1>2, <1>9
  <2> QED
    BY <1>7, <2>1 DEF n
<1>10. CASE f.key = K(fn) /\ includesMetric(mf, n) /\ fn # n
  <2>1. f.key.name = fn /\ mf.name = fn
    BY <1>2, <1>5, <1>10
  <2>2. Belongs(mf, n)
    BY <1>10, <2>1, Includes
  <2>3. normalizeMetricName(n) = fn
    BY <2>1, <2>2 DEF Belongs
  <2>4. HasMetadata(fn) /\ store[fn] = mf.mtype
    BY <1>6, <1>7, <2>1, KindKnown
  <2> QED
    BY <1>1, <1>10, <2>3, <2>4, KindShared DEF fn, n
<1>11. CASE mf = new
  <2>1. convToMetricType(metadataForMetric(n).type, FALSE) = mf.mtype
    BY <1>8, <1>11
  <2>2. metadataForMetric(n).type = mf.mtype
    BY <2>1, KindOfType
  <2> QED
    BY <2>2 DEF n
<1> QED
  BY <1>4, <1>9, <1>10, <1>11

\* The family of a sample that displaces nothing: the one that was there, or a new one.
LEMMA FoundOrMade ==
    ASSUME NEW fams \in Maps(Keys, Families), NEW resource \in Strings, NEW s \in Samples,
           NEW f, f = Find(fams, resource, s), ~ Collides(s),
           f.key \in DOMAIN fams => Canonical(fams[f.key], f.key)
    PROVE  /\ Canonical(f.fams[f.key], f.key)
           /\ f.key \in DOMAIN fams => f.fams = fams
           /\ f.key \notin DOMAIN fams =>
                 /\ DOMAIN f.fams[f.key].groups = {}
                 /\ IsNative(s) /\ f.fams[f.key].mtype = "histogram" => IsNHCB(s)
<1> DEFINE native == IsNative(s)
           nhcb == IsNHCB(s)
           n == s.name
           scope == s.scope
           new == newMetricFamily(n, native, nhcb)
<1>1. n \in Names /\ scope \in Strings
  BY SampleTypes
<1>2. native \in BOOLEAN /\ nhcb \in BOOLEAN
  BY NativeBoolean
<1>3. f = getOrCreateMetricFamily(fams, resource, scope, n, native, nhcb)
  BY DEF Find
<1>4. ~ Misfit(n, native, nhcb)
  BY DEF Misfit, Collides, IsNHCB
<1>5. FoundRight(fams, resource, s, f)
  BY FindRight
<1>6. \/ f.fams = fams /\ f.key \in DOMAIN fams
      \/ f.key = Key(resource, scope, native, new.name) /\ f.fams[f.key] = new
  BY <1>5 DEF FoundRight
<1> HIDE DEF native, nhcb, n, scope
<1>7. f.key \in DOMAIN fams => f.fams = fams
  BY <1>1, <1>2, <1>3, <1>4, OnlyMisfitsDisplace
<1>8. Canonical(new, Key(resource, scope, native, new.name))
  BY <1>1, <1>2, <1>4, MadeCanonical
<1>9. DOMAIN new.groups = {} /\ (native => new.mtype = IF nhcb THEN "histogram" ELSE "exponential")
  BY <1>1, <1>2, NewFamily
<1> HIDE DEF new
<1>10. native /\ new.mtype = "histogram" => nhcb
  BY <1>2, <1>9
<1> QED
  BY <1>6, <1>7, <1>8, <1>9, <1>10 DEF native, nhcb

\* A family that is not displaced with the new sample was not before.
LEMMA GoodBefore ==
    ASSUME NEW app \in Seq(EntryTypes), NEW e \in EntryTypes, NEW a, a = Append(app, e), NEW k
    PROVE  /\ Clean(a, k) => Clean(app, k) /\ (e.key = k => ~ Collides(e.sample))
           /\ Good(a, k) => Good(app, k) /\ (e.key = k => ~ Collides(e.sample))
<1>1. /\ \A i \in DOMAIN app : a[i] = app[i] /\ i \in DOMAIN a
      /\ Len(app) + 1 \in DOMAIN a /\ a[Len(app) + 1] = e
  BY Grown
<1> QED
  BY <1>1 DEF Clean, Good

\* The family a sample is added to, when neither it nor an earlier sample displaces it.
LEMMA GoodFamily ==
    ASSUME NEW app \in Seq(EntryTypes), NEW fams \in Maps(Keys, Families),
           \A k \in DOMAIN fams : Formed(k, fams[k]), Tracked(app, fams),
           NEW resource \in Strings, NEW s \in Samples, NEW f, f = Find(fams, resource, s),
           Good(app, f.key), ~ Collides(s)
    PROVE  LET mf == f.fams[f.key]
           IN  /\ Canonical(mf, f.key) /\ GroupsRight(app, f.key, mf)
               /\ ~ IsNative(s) /\ mf.mtype \in {"histogram", "summary"} =>
                     metadataForMetric(s.name).type = mf.mtype
               /\ IsNative(s) /\ mf.mtype = "histogram" =>
                     \/ IsNHCB(s)
                     \/ \E i \in DOMAIN app : app[i].key = f.key /\ IsNHCB(app[i].sample)
<1> DEFINE mf == f.fams[f.key]
<1>1. FoundRight(fams, resource, s, f)
  BY FindRight
<1>2. f.key \in DOMAIN fams => FamilyRight(app, f.key, fams[f.key])
  BY DEF Tracked
<1>3. f.key \in DOMAIN fams => Canonical(fams[f.key], f.key)
  BY <1>2 DEF FamilyRight
<1>4. /\ Canonical(mf, f.key) /\ (f.key \in DOMAIN fams => mf = fams[f.key])
      /\ f.key \notin DOMAIN fams => /\ DOMAIN mf.groups = {}
                                     /\ IsNative(s) /\ mf.mtype = "histogram" => IsNHCB(s)
  BY <1>3, FoundOrMade
<1>5. Formed(f.key, mf) /\ (f.key.native = IsNative(s))
  BY <1>1 DEF FoundRight
<1> HIDE DEF mf
<1>6. ~ IsNative(s) /\ mf.mtype \in {"histogram", "summary"} =>
         metadataForMetric(s.name).type = mf.mtype
  BY <1>1, <1>4, <1>5, KindRight DEF mf
<1>7. CASE f.key \in DOMAIN fams
  <2>1. GroupsRight(app, f.key, mf)
    BY <1>2, <1>4, <1>7 DEF FamilyRight, GroupsRight
  <2>2. f.key.native /\ mf.mtype = "histogram" =>
           \E i \in DOMAIN app : app[i].key = f.key /\ IsNHCB(app[i].sample)
    BY <1>2, <1>4, <1>7 DEF FamilyRight
  <2> QED
    BY <1>4, <1>5, <1>6, <2>1, <2>2 DEF mf
<1>8. CASE f.key \notin DOMAIN fams
  <2>1. \A i \in DOMAIN app : app[i].key = f.key => app[i].part \notin Parts
    BY <1>8 DEF Tracked
  <2>2. GroupsRight(app, f.key, mf)
    BY <1>4, <1>8, <2>1 DEF GroupsRight
  <2> QED
    BY <1>4, <1>6, <1>8, <2>2 DEF mf
<1> QED
  BY <1>7, <1>8

\* AppendSample keeps Tracked.
LEMMA TrackedStep ==
    ASSUME NEW app \in Seq(EntryTypes), NEW fams \in Maps(Keys, Families),
           \A k \in DOMAIN fams : Formed(k, fams[k]), Tracked(app, fams),
           NEW s \in Samples, NEW f, NEW mf, NEW old, NEW new, NEW to, NEW g, NEW e, NEW a,
           f = Find(fams, getJobAndInstance(s, external), s),
           AddedRight(f, mf, old, s, new, to), Effect(fams, s, to, mf, new, g),
           e \in EntryTypes, e = Entry(s, to.key, to.ref, to.part), a = Append(app, e)
    PROVE  Tracked(a, g)
<1>1. e.sample = s /\ e.key = to.key /\ e.ref = to.ref /\ e.part = to.part
  BY DEF Entry
<1>2. /\ to.key = f.key /\ to.part = new.part /\ StoredRight(mf, old, s, new)
      /\ mf = f.fams[f.key] /\ mf \in Families /\ old \in Groups
      /\ to.ref \in DOMAIN mf.groups => old = mf.groups[to.ref]
      /\ to.ref \notin DOMAIN mf.groups => old = EmptyGroup(s.ts, to.ref)
  BY DEF AddedRight
<1>3. /\ \A i \in DOMAIN app : a[i] = app[i]
      /\ DOMAIN a = DOMAIN app \cup {Len(app) + 1} /\ a[Len(app) + 1] = e
  BY Grown
<1>4. ASSUME NEW k \in DOMAIN g, Good(a, k) PROVE FamilyRight(a, k, g[k])
  <2>1. Good(app, k) /\ Own(k) /\ (to.key = k => ~ Collides(s))
    BY <1>1, <1>4, GoodBefore DEF Good
  <2>2. CASE k # to.key
    <3>1. k \in DOMAIN fams /\ g[k] = fams[k]
      BY <2>1, <2>2 DEF Effect
    <3>2. FamilyRight(app, k, fams[k])
      BY <2>1, <3>1 DEF Tracked
    <3> QED
      BY <1>1, <2>2, <3>1, <3>2, FamilyKept
  <2>3. CASE k = to.key
    <3>1. getJobAndInstance(s, external) \in Strings
      BY SampleTypes
    <3>2. /\ Canonical(mf, f.key) /\ GroupsRight(app, f.key, mf)
          /\ ~ IsNative(s) /\ mf.mtype \in {"histogram", "summary"} =>
                metadataForMetric(s.name).type = mf.mtype
          /\ IsNative(s) /\ mf.mtype = "histogram" =>
                \/ IsNHCB(s)
                \/ \E i \in DOMAIN app : app[i].key = f.key /\ IsNHCB(app[i].sample)
      BY <1>2, <2>1, <2>3, <3>1, GoodFamily
    <3>3. f.key.native = IsNative(s)
      <4>1. FoundRight(fams, getJobAndInstance(s, external), s, f)
        BY <3>1, FindRight
      <4> QED
        BY <4>1 DEF FoundRight
    <3>4. e.key.native /\ mf.mtype = "histogram" =>
             \E i \in DOMAIN a : a[i].key = e.key /\ IsNHCB(a[i].sample)
      BY <1>1, <1>2, <1>3, <3>2, <3>3
    <3> DEFINE gf == g[k]
    <3>5. /\ gf.mtype = mf.mtype /\ gf.name = mf.name /\ gf.family = mf.family
          /\ DOMAIN gf.groups = DOMAIN mf.groups \cup {e.ref}
          /\ \A x \in DOMAIN mf.groups \ {e.ref} : gf.groups[x] = mf.groups[x]
          /\ gf.groups[e.ref] \in {new.mg, OneMore(new.mg)}
      BY <1>1, <2>1, <2>3 DEF Effect
    <3> HIDE DEF gf
    <3>6. /\ StoredRight(mf, old, e.sample, new) /\ e.part = new.part
          /\ e.key.native = IsNative(e.sample) /\ GroupsRight(app, e.key, mf)
          /\ e.ref \in DOMAIN mf.groups => old = mf.groups[e.ref]
          /\ e.ref \notin DOMAIN mf.groups => old = EmptyGroup(e.sample.ts, e.ref)
          /\ ~ IsNative(e.sample) /\ mf.mtype \in {"histogram", "summary"} =>
                metadataForMetric(e.sample.name).type = mf.mtype
          /\ Canonical(mf, e.key)
      BY <1>1, <1>2, <3>2, <3>3
    <3>7. Grows(app, a, e, mf, old, new, gf)
      BY <1>2, <3>4, <3>5, <3>6 DEF Grows
    <3>8. FamilyRight(a, e.key, gf)
      BY <3>7, FamilyGrown
    <3> QED
      BY <1>1, <2>3, <3>8 DEF gf
  <2> QED
    BY <2>2, <2>3
<1>5. ASSUME NEW i \in DOMAIN a, a[i].part \in Parts, Good(a, a[i].key)
      PROVE  a[i].key \in DOMAIN g
  <2>1. DOMAIN fams \subseteq DOMAIN g /\ to.key \in DOMAIN g
    BY DEF Effect
  <2>2. CASE i \in DOMAIN app
    <3>1. Good(app, app[i].key) /\ a[i] = app[i]
      BY <1>3, <1>5, <2>2, GoodBefore
    <3> QED
      BY <1>5, <2>1, <2>2, <3>1 DEF Tracked
  <2>3. CASE i = Len(app) + 1
    BY <1>1, <1>3, <2>1, <2>3
  <2> QED
    BY <1>3, <2>2, <2>3
<1> QED
  BY <1>4, <1>5 DEF Tracked

-----------------------------------------------------------------------------
(* Exemplars over a step.                                                   *)

\* The samples of a series that came with an exemplar.
Mine(app, k, r) ==
    {i \in Of(app, k, r) : app[i].sample.exemplar /\ app[i].part \in Parts}
\* Without external labels a group counts the exemplars of its series.
Counted(app, fams) ==
    external = "none" => \A k \in DOMAIN fams : \A r \in DOMAIN fams[k].groups :
        Mine(app, k, r) = {} \/ Clean(app, k) =>
            fams[k].groups[r].exemplars = Cardinality(Mine(app, k, r))

\* The entry e is one of them.
Adds(e, k, r) == e.key = k /\ e.ref = r /\ e.sample.exemplar /\ e.part \in Parts

\* How the exemplars of a series change with a new entry.
SameMine(app, a, k, r) == Mine(a, k, r) = Mine(app, k, r)
MoreMine(app, a, k, r) ==
    Mine(a, k, r) # {} /\ Cardinality(Mine(a, k, r)) = Cardinality(Mine(app, k, r)) + 1

\* A sample of another series, or without exemplar, changes no count.
LEMMA MineKept ==
    ASSUME NEW app \in Seq(EntryTypes), NEW e \in EntryTypes, NEW a, a = Append(app, e),
           NEW k, NEW r, ~ Adds(e, k, r)
    PROVE  SameMine(app, a, k, r)
<1>1. /\ \A i \in DOMAIN app : a[i] = app[i]
      /\ DOMAIN a = DOMAIN app \cup {Len(app) + 1} /\ a[Len(app) + 1] = e
  BY Grown
<1> QED
  BY <1>1 DEF Mine, Of, Adds, SameMine

\* A sample with an exemplar makes one more.
LEMMA MineGrown ==
    ASSUME NEW app \in Seq(EntryTypes), NEW e \in EntryTypes, NEW a, a = Append(app, e),
           NEW k, NEW r, Adds(e, k, r)
    PROVE  MoreMine(app, a, k, r)
<1>1. /\ \A i \in DOMAIN app : a[i] = app[i]
      /\ DOMAIN app = 1..Len(app) /\ Len(app) \in Nat
      /\ DOMAIN a = DOMAIN app \cup {Len(app) + 1} /\ a[Len(app) + 1] = e
      /\ Len(app) + 1 \notin DOMAIN app
  BY Grown
<1>2. Mine(app, k, r) \subseteq 1..Len(app)
  BY <1>1 DEF Mine, Of
<1>3. IsFiniteSet(Mine(app, k, r))
  <2>1. IsFiniteSet(1..Len(app))
    BY <1>1, FS_Interval
  <2> QED
    BY <1>2, <2>1, FS_Subset
<1>5. Mine(a, k, r) = Mine(app, k, r) \cup {Len(app) + 1}
  BY <1>1 DEF Mine, Of, Adds
<1>6. Len(app) + 1 \notin Mine(app, k, r)
  BY <1>1, <1>2
<1>7. Cardinality(Mine(app, k, r) \cup {Len(app) + 1}) = Cardinality(Mine(app, k, r)) + 1
  BY <1>3, <1>6, FS_AddElement
<1> QED
  BY <1>5, <1>7 DEF MoreMine

\* AppendSample keeps Counted: the exemplar, which is looked up on its own by the labels as
\* they were scraped, finds the group its sample went to.
LEMMA CountedStep ==
    ASSUME NEW app \in Seq(EntryTypes), NEW fams \in Maps(Keys, Families),
           \A k \in DOMAIN fams : Formed(k, fams[k]), Tracked(app, fams), Counted(app, fams),
           NEW s \in Samples, NEW f, NEW mf, NEW old, NEW new, NEW to, NEW g, NEW e, NEW a,
           f = Find(fams, getJobAndInstance(s, external), s),
           AddedRight(f, mf, old, s, new, to), Effect(fams, s, to, mf, new, g),
           e \in EntryTypes, e = Entry(s, to.key, to.ref, to.part), a = Append(app, e)
    PROVE  Counted(a, g)
<1> SUFFICES ASSUME external = "none", NEW k \in DOMAIN g, NEW r \in DOMAIN g[k].groups,
                    Mine(a, k, r) = {} \/ Clean(a, k)
             PROVE  g[k].groups[r].exemplars = Cardinality(Mine(a, k, r))
  BY DEF Counted
<1>1. e.sample = s /\ e.key = to.key /\ e.ref = to.ref /\ e.part = to.part
  BY DEF Entry
<1>2. /\ to.key = f.key /\ to.part = new.part /\ StoredRight(mf, old, s, new)
      /\ mf = f.fams[f.key] /\ old \in Groups
      /\ to.ref \in DOMAIN mf.groups => old = mf.groups[to.ref]
      /\ to.ref \notin DOMAIN mf.groups => old = EmptyGroup(s.ts, to.ref)
  BY DEF AddedRight
<1>3. new.part \in Parts /\ new.mg \in Groups /\ new.mg.exemplars = old.exemplars
  BY <1>2 DEF StoredRight
<1>4. Clean(a, k) => Clean(app, k) /\ (to.key = k => ~ Collides(s))
  BY <1>1, GoodBefore
<1>5. Own(k)
  BY DEF Own
<1>6. /\ ~ Adds(e, k, r) => Mine(a, k, r) = Mine(app, k, r)
      /\ Mine(a, k, r) = {} => Mine(app, k, r) = {}
  <2>1. CASE Adds(e, k, r)
    <3>1. MoreMine(app, a, k, r)
      BY <2>1, MineGrown
    <3> QED
      BY <2>1, <3>1 DEF MoreMine
  <2>2. CASE ~ Adds(e, k, r)
    <3>1. SameMine(app, a, k, r)
      BY <2>2, MineKept
    <3> QED
      BY <3>1 DEF SameMine
  <2> QED
    BY <2>1, <2>2
<1>7. Mine(app, k, r) = {} \/ Clean(app, k)
  BY <1>4, <1>6
<1>8. CASE k # to.key
  <2>1. k \in DOMAIN fams /\ g[k] = fams[k]
    BY <1>5, <1>8 DEF Effect
  <2>2. Mine(a, k, r) = Mine(app, k, r)
    BY <1>1, <1>6, <1>8 DEF Adds
  <2> QED
    BY <1>7, <2>1, <2>2 DEF Counted
<1>9. CASE k = to.key
  <2>1. getJobAndInstance(s, external) \in Strings
    BY SampleTypes
  <2>2. FoundRight(fams, getJobAndInstance(s, external), s, f)
    BY <2>1, FindRight
  <2>3. r \in DOMAIN mf.groups =>
           mf.groups[r].exemplars = Cardinality(Mine(app, k, r))
    <3> SUFFICES ASSUME r \in DOMAIN mf.groups
                 PROVE  mf.groups[r].exemplars = Cardinality(Mine(app, k, r))
      OBVIOUS
    <3>1. f.fams = fams
      BY <1>2, <2>2, MadeEmpty
    <3>2. k \in DOMAIN fams /\ mf = fams[k]
      BY <1>2, <1>9, <2>2, <3>1 DEF FoundRight
    <3> QED
      BY <1>7, <3>2 DEF Counted
  <2>4. CASE r # to.ref
    <3>1. r \in DOMAIN mf.groups /\ g[k].groups[r] = mf.groups[r]
      BY <1>9, <2>4 DEF Effect
    <3>2. Mine(a, k, r) = Mine(app, k, r)
      BY <1>1, <1>6, <2>4 DEF Adds
    <3> QED
      BY <2>3, <3>1, <3>2
  <2>5. CASE r = to.ref
    <3>1. old.exemplars = Cardinality(Mine(app, k, r))
      <4>1. CASE r \in DOMAIN mf.groups
        BY <1>2, <2>3, <2>5, <4>1
      <4>2. CASE r \notin DOMAIN mf.groups
        <5>1. old.exemplars = 0
          BY <1>2, <2>5, <4>2 DEF EmptyGroup
        <5>2. Mine(app, k, r) = {}
          <6>1. CASE Mine(a, k, r) = {}
            BY <1>6, <6>1
          <6>2. CASE Clean(a, k)
            <7>1. Good(app, f.key) /\ ~ Collides(s)
              BY <1>2, <1>4, <1>5, <1>9, <6>2 DEF Good
            <7>2. GroupsRight(app, f.key, mf)
              BY <1>2, <2>1, <7>1, GoodFamily
            <7> QED
              BY <1>2, <1>9, <4>2, <7>2 DEF GroupsRight, Mine, Of
          <6> QED
            BY <6>1, <6>2
        <5> QED
          BY <5>1, <5>2, FS_EmptySet
      <4> QED
        BY <4>1, <4>2
    <3>2. s.exemplar \in BOOLEAN
      BY DEF Samples
    <3>3. CASE ~ s.exemplar
      <4>1. g[k].groups[r] = new.mg
        BY <1>9, <2>5, <3>3 DEF Effect
      <4>2. Mine(a, k, r) = Mine(app, k, r)
        BY <1>1, <1>6, <3>3 DEF Adds
      <4> QED
        BY <1>3, <3>1, <4>1, <4>2
    <3>4. CASE s.exemplar
      <4>1. g[k].groups[r] = OneMore(new.mg)
        BY <1>9, <2>5, <3>4 DEF Effect
      <4>2. OneMore(new.mg).exemplars = new.mg.exemplars + 1
        BY <1>3, OneMoreExemplar
      <4>3. Cardinality(Mine(a, k, r)) = Cardinality(Mine(app, k, r)) + 1
        <5>1. Adds(e, k, r)
          BY <1>1, <1>2, <1>3, <1>9, <2>5, <3>4 DEF Adds
        <5>2. MoreMine(app, a, k, r)
          BY <5>1, MineGrown
        <5> QED
          BY <5>2 DEF MoreMine
      <4> QED
        BY <1>3, <3>1, <4>1, <4>2, <4>3
    <3> QED
      BY <3>2, <3>3, <3>4
  <2> QED
    BY <2>4, <2>5
<1> QED
  BY <1>8, <1>9

-----------------------------------------------------------------------------
(* Entries that are no part of a group.                                     *)

\* Samples that are refused or are infos keep Tracked and Counted.
LEMMA OtherEntry ==
    ASSUME NEW app \in Seq(EntryTypes), NEW e \in EntryTypes, NEW a, a = Append(app, e),
           NEW fams, e.part \notin Parts
    PROVE  /\ Tracked(app, fams) => Tracked(a, fams)
           /\ Counted(app, fams) => Counted(a, fams)
<1>1. /\ \A i \in DOMAIN app : a[i] = app[i]
      /\ DOMAIN a = DOMAIN app \cup {Len(app) + 1} /\ a[Len(app) + 1] = e
  BY Grown
<1>2. ASSUME Tracked(app, fams) PROVE Tracked(a, fams)
  <2>1. ASSUME NEW k \in DOMAIN fams, Good(a, k) PROVE FamilyRight(a, k, fams[k])
    <3>1. FamilyRight(app, k, fams[k])
      BY <1>2, <2>1, GoodBefore DEF Tracked
    <3> QED
      BY <3>1, FamilyKept
  <2>2. ASSUME NEW i \in DOMAIN a, a[i].part \in Parts, Good(a, a[i].key)
        PROVE  a[i].key \in DOMAIN fams
    <3>1. i \in DOMAIN app /\ a[i] = app[i]
      BY <1>1, <2>2
    <3>2. Good(app, app[i].key)
      BY <2>2, <3>1, GoodBefore
    <3> QED
      BY <1>2, <2>2, <3>1, <3>2 DEF Tracked
  <2> QED
    BY <2>1, <2>2 DEF Tracked
<1>3. ASSUME Counted(app, fams) PROVE Counted(a, fams)
  <2> SUFFICES ASSUME external = "none", NEW k \in DOMAIN fams, NEW r \in DOMAIN fams[k].groups,
                      Mine(a, k, r) = {} \/ Clean(a, k)
               PROVE  fams[k].groups[r].exemplars = Cardinality(Mine(a, k, r))
    BY DEF Counted
  <2>1. ~ Adds(e, k, r)
    BY DEF Adds
  <2>2. SameMine(app, a, k, r)
    BY <2>1, MineKept
  <2>3. Mine(a, k, r) = Mine(app, k, r)
    BY <2>2 DEF SameMine
  <2>4. Clean(a, k) => Clean(app, k)
    BY GoodBefore
  <2> QED
    BY <1>3, <2>3, <2>4 DEF Counted
<1> QED
  BY <1>2, <1>3

-----------------------------------------------------------------------------
(* What target_info and otel_scope_info have said.                          *)

\* The entry is an info with this name about this resource.
Tells(e, n, r) == e.part = "info" /\ e.sample.name = n /\ e.key.resource = r
Infos(app, n, r) == {i \in DOMAIN app : Tells(app[i], n, r)}

\* The attributes of the resources and of the scope lib are those of the infos.
AttrRight(app, res, r) == res[r] = {app[i].sample.attr : i \in Infos(app, TargetInfo, r)}
LibRight(app, scopes, r) ==
    (<<r, "lib">> \in DOMAIN scopes /\ scopes[<<r, "lib">>] = "info")
      <=> \E i \in Infos(app, ScopeInfo, r) : app[i].key.scope = "lib"
Informed(app, res, scopes) ==
    /\ \A r \in DOMAIN res : AttrRight(app, res, r)
    /\ \A i \in DOMAIN app : app[i].part = "info" => app[i].key.resource \in DOMAIN res
    /\ \A r \in Strings : LibRight(app, scopes, r)

\* How the infos change with a new entry.
SameInfos(app, a, n, r) ==
    /\ Infos(a, n, r) = Infos(app, n, r)
    /\ \A i \in Infos(app, n, r) : a[i] = app[i]
MoreInfos(app, a, n, r) ==
    /\ Infos(a, n, r) = Infos(app, n, r) \cup {Len(app) + 1}
    /\ \A i \in Infos(app, n, r) : a[i] = app[i]

\* The resources and the scopes, and what initTransaction and
\* addScopeAttributesFromLabels add to them.
Resourced == Maps(Strings, SUBSET Strings)
Scoped == Maps(Strings \X Strings, {"info", "labels"})
Blank(R) == [r \in R |-> {}]
Labelled(R) == [k \in R \X {"attributes"} |-> "labels"]

\* initTransaction's resources have no attributes.
LEMMA BlankMap ==
    ASSUME NEW R, R \subseteq Strings
    PROVE  /\ Blank(R) \in Resourced /\ DOMAIN Blank(R) = R
           /\ \A r \in R : Blank(R)[r] = {}
<1>1. Blank(R) \in [R -> SUBSET Strings]
  BY DEF Blank
<1>2. Blank(R) \in Resourced
  BY <1>1, FunctionIsMap DEF Resourced
<1> QED
  BY <1>2 DEF Blank

\* Labels name the attributes of other scopes than lib.
LEMMA LabelledMap ==
    ASSUME NEW R, R \subseteq Strings, "attributes" \in Strings
    PROVE  /\ Labelled(R) \in Scoped /\ DOMAIN Labelled(R) = R \X {"attributes"}
           /\ \A r \in Strings : <<r, "lib">> \notin DOMAIN Labelled(R)
<1>1. R \X {"attributes"} \in SUBSET (Strings \X Strings)
  OBVIOUS
<1>2. Labelled(R) \in [R \X {"attributes"} -> {"info", "labels"}]
  BY DEF Labelled
<1>3. Labelled(R) \in Scoped
  BY <1>1, <1>2, FunctionIsMap DEF Scoped
<1>4. DOMAIN Labelled(R) = R \X {"attributes"}
  BY DEF Labelled
<1>5. \A r \in Strings : <<r, "lib">> \notin R \X {"attributes"}
  OBVIOUS
<1> QED
  BY <1>3, <1>4, <1>5

\* Resources were added, without attributes.
Extends(res, more) ==
    /\ DOMAIN res \subseteq DOMAIN more
    /\ \A r \in DOMAIN res : more[r] = res[r]
    /\ \A r \in DOMAIN more \ DOMAIN res : more[r] = {}

\* initTransaction adds resources and keeps the attributes of those there are.
LEMMA Enriched ==
    ASSUME NEW res \in Resourced, NEW R, R \subseteq Strings, NEW more, more = Or(res, Blank(R))
    PROVE  more \in Resourced /\ Extends(res, more) /\ R \subseteq DOMAIN more
<1>1. /\ Blank(R) \in Resourced /\ DOMAIN Blank(R) = R
      /\ \A r \in R : Blank(R)[r] = {}
  BY BlankMap
<1>2. /\ DOMAIN res \subseteq Strings /\ res \in [DOMAIN res -> SUBSET Strings]
      /\ Blank(R) \in [R -> SUBSET Strings]
  BY MapIsFunction DEF Resourced, Blank
<1>3. more \in [DOMAIN res \cup R -> SUBSET Strings]
  BY <1>1, <1>2 DEF Or
<1>4. more \in Resourced
  BY <1>2, <1>3, FunctionIsMap DEF Resourced
<1>5. /\ \A r \in DOMAIN res : more[r] = res[r]
      /\ \A r \in R \ DOMAIN res : more[r] = {}
  BY <1>1 DEF Or
<1> QED
  BY <1>3, <1>4, <1>5 DEF Extends

\* An entry that is no such info changes none.
LEMMA InfosKept ==
    ASSUME NEW app \in Seq(EntryTypes), NEW e \in EntryTypes, NEW a, a = Append(app, e),
           NEW n, NEW r, ~ Tells(e, n, r)
    PROVE  SameInfos(app, a, n, r)
<1>1. /\ \A i \in DOMAIN app : a[i] = app[i]
      /\ DOMAIN a = DOMAIN app \cup {Len(app) + 1} /\ a[Len(app) + 1] = e
  BY Grown
<1> QED
  BY <1>1 DEF Infos, SameInfos

\* An info is one more.
LEMMA InfosGrown ==
    ASSUME NEW app \in Seq(EntryTypes), NEW e \in EntryTypes, NEW a, a = Append(app, e),
           NEW n, NEW r, Tells(e, n, r)
    PROVE  MoreInfos(app, a, n, r)
<1>1. /\ \A i \in DOMAIN app : a[i] = app[i]
      /\ DOMAIN a = DOMAIN app \cup {Len(app) + 1} /\ a[Len(app) + 1] = e
  BY Grown
<1> QED
  BY <1>1 DEF Infos, MoreInfos

\* The attributes of the scope lib are as they were.
SameLib(scopes, more) ==
    \A r \in Strings :
        /\ <<r, "lib">> \in DOMAIN scopes <=> <<r, "lib">> \in DOMAIN more
        /\ <<r, "lib">> \in DOMAIN scopes => more[<<r, "lib">>] = scopes[<<r, "lib">>]

\* target_info and otel_scope_info are different names.
LEMMA InfoNamesDiffer == TargetInfo # ScopeInfo
BY DEF TargetInfo, ScopeInfo

\* Resources have the attributes of their infos still when a resource was added.
LEMMA ResourcesKept ==
    ASSUME NEW app \in Seq(EntryTypes), NEW e \in EntryTypes, NEW a, a = Append(app, e),
           NEW res, NEW more, NEW scopes, Informed(app, res, scopes), Extends(res, more),
           NEW r \in DOMAIN more,
           ~ Tells(e, TargetInfo, r)
    PROVE  AttrRight(a, more, r)
<1>1. SameInfos(app, a, TargetInfo, r)
  BY InfosKept
<1>2. CASE r \in DOMAIN res
  <2>1. more[r] = res[r] /\ res[r] = {app[i].sample.attr : i \in Infos(app, TargetInfo, r)}
    BY <1>2 DEF Extends, Informed, AttrRight
  <2> QED
    BY <1>1, <2>1 DEF SameInfos, AttrRight
<1>3. CASE r \notin DOMAIN res
  <2>1. more[r] = {}
    BY <1>3 DEF Extends
  <2>2. Infos(app, TargetInfo, r) = {}
    BY <1>3 DEF Infos, Informed, Tells
  <2> QED
    BY <1>1, <2>1, <2>2 DEF SameInfos, AttrRight
<1> QED
  BY <1>2, <1>3

\* The scope lib is known by its infos still when labels were added.
LEMMA ScopesKept ==
    ASSUME NEW app \in Seq(EntryTypes), NEW e \in EntryTypes, NEW a, a = Append(app, e),
           NEW res, NEW scopes, NEW more, Informed(app, res, scopes), SameLib(scopes, more),
           NEW r \in Strings,
           ~ Tells(e, ScopeInfo, r)
    PROVE  LibRight(a, more, r)
<1>1. SameInfos(app, a, ScopeInfo, r)
  BY InfosKept
<1>2. (<<r, "lib">> \in DOMAIN more /\ more[<<r, "lib">>] = "info")
        <=> (<<r, "lib">> \in DOMAIN scopes /\ scopes[<<r, "lib">>] = "info")
  BY DEF SameLib
<1>3. (<<r, "lib">> \in DOMAIN scopes /\ scopes[<<r, "lib">>] = "info")
        <=> \E i \in Infos(app, ScopeInfo, r) : app[i].key.scope = "lib"
  BY DEF Informed, LibRight
<1> QED
  BY <1>1, <1>2, <1>3 DEF SameInfos, LibRight

\* A sample that is no info keeps Informed.
LEMMA InformedKept ==
    ASSUME NEW app \in Seq(EntryTypes), NEW e \in EntryTypes, NEW a, a = Append(app, e),
           e.part # "info", NEW res, NEW res2, NEW scopes, NEW scopes2,
           Informed(app, res, scopes), Extends(res, res2), SameLib(scopes, scopes2)
    PROVE  Informed(a, res2, scopes2)
<1>1. /\ \A i \in DOMAIN app : a[i] = app[i]
      /\ DOMAIN a = DOMAIN app \cup {Len(app) + 1} /\ a[Len(app) + 1] = e
  BY Grown
<1>2. ASSUME NEW r \in DOMAIN res2
      PROVE  AttrRight(a, res2, r)
  <2>1. ~ Tells(e, TargetInfo, r)
    BY DEF Tells
  <2> QED
    BY <2>1, ResourcesKept
<1>3. ASSUME NEW i \in DOMAIN a, a[i].part = "info" PROVE a[i].key.resource \in DOMAIN res2
  BY <1>1, <1>3 DEF Informed, Extends
<1>4. ASSUME NEW r \in Strings
      PROVE  LibRight(a, scopes2, r)
  <2>1. ~ Tells(e, ScopeInfo, r)
    BY DEF Tells
  <2> QED
    BY <2>1, ScopesKept
<1> QED
  BY <1>2, <1>3, <1>4, Zenon DEF Informed

\* What an info adds.
Told(res, r, attr) == {attr} \cup (IF r \in DOMAIN res THEN res[r] ELSE {})

TargetTold(res, e, more) ==
    /\ e.part = "info" /\ e.sample.name = TargetInfo
    /\ more = Put(res, e.key.resource, Told(res, e.key.resource, e.sample.attr))
ScopeTold(scopes, e, more) ==
    /\ e.part = "info" /\ e.sample.name = ScopeInfo
    /\ more = Put(scopes, <<e.key.resource, e.key.scope>>, "info")

\* A target_info adds its attribute to those of its resource.
LEMMA InformedTarget ==
    ASSUME NEW app \in Seq(EntryTypes), NEW e \in EntryTypes, NEW a, a = Append(app, e),
           NEW res, NEW res2, NEW scopes,
           Informed(app, res, scopes),
           TargetTold(res, e, res2)
    PROVE  Informed(a, res2, scopes)
<1> DEFINE k == e.key.resource
<1>1. /\ \A i \in DOMAIN app : a[i] = app[i]
      /\ DOMAIN a = DOMAIN app \cup {Len(app) + 1} /\ a[Len(app) + 1] = e
  BY Grown
<1>2. /\ DOMAIN res2 = DOMAIN res \cup {k}
      /\ \A r \in DOMAIN res \ {k} : res2[r] = res[r]
      /\ res2[k] = {e.sample.attr} \cup (IF k \in DOMAIN res THEN res[k] ELSE {})
  BY DEF Put, Told, TargetTold
<1>3. ASSUME NEW r \in DOMAIN res2
      PROVE  AttrRight(a, res2, r)
  <2>1. CASE r # k
    <3>1. r \in DOMAIN res /\ res2[r] = res[r] /\ Extends(res, res)
      BY <1>2, <1>3, <2>1 DEF Extends
    <3>2. ~ Tells(e, TargetInfo, r)
      BY <2>1 DEF Tells
    <3>3. AttrRight(a, res, r)
      BY <3>1, <3>2, ResourcesKept
    <3> QED
      BY <3>1, <3>3 DEF AttrRight
  <2>2. CASE r = k
    <3>0. Tells(e, TargetInfo, k)
      BY DEF Tells, TargetTold
    <3>1. MoreInfos(app, a, TargetInfo, k)
      BY <3>0, InfosGrown
    <3>2. (IF k \in DOMAIN res THEN res[k] ELSE {})
            = {app[i].sample.attr : i \in Infos(app, TargetInfo, k)}
      <4>1. CASE k \in DOMAIN res
        BY <4>1 DEF Informed, AttrRight
      <4>2. CASE k \notin DOMAIN res
        <5>1. Infos(app, TargetInfo, k) = {}
          BY <4>2 DEF Informed, Infos, Tells
        <5> QED
          BY <4>2, <5>1
      <4> QED
        BY <4>1, <4>2
    <3> HIDE DEF k
    <3>3. {a[i].sample.attr : i \in Infos(a, TargetInfo, k)}
            = {e.sample.attr} \cup {app[i].sample.attr : i \in Infos(app, TargetInfo, k)}
      <4> DEFINE I == Infos(app, TargetInfo, k)
      <4>1. /\ Infos(a, TargetInfo, k) = I \cup {Len(app) + 1}
            /\ \A i \in I : a[i].sample.attr = app[i].sample.attr
            /\ a[Len(app) + 1].sample.attr = e.sample.attr
        BY <1>1, <3>1 DEF MoreInfos
      <4> HIDE DEF I
      <4>2. ASSUME NEW x \in {a[i].sample.attr : i \in I \cup {Len(app) + 1}}
            PROVE  x \in {e.sample.attr} \cup {app[i].sample.attr : i \in I}
        <5>1. PICK i \in I \cup {Len(app) + 1} : x = a[i].sample.attr
          OBVIOUS
        <5> QED
          BY <4>1, <5>1
      <4>3. ASSUME NEW x \in {e.sample.attr} \cup {app[i].sample.attr : i \in I}
            PROVE  x \in {a[i].sample.attr : i \in I \cup {Len(app) + 1}}
        <5>1. CASE x = e.sample.attr
          BY <4>1, <5>1
        <5>2. CASE x \in {app[i].sample.attr : i \in I}
          <6>1. PICK i \in I : x = app[i].sample.attr
            BY <5>2
          <6> QED
            BY <4>1, <6>1
        <5> QED
          BY <5>1, <5>2
      <4> QED
        BY <4>1, <4>2, <4>3 DEF I
    <3> QED
      BY <1>2, <2>2, <3>2, <3>3 DEF AttrRight
  <2> QED
    BY <2>1, <2>2
<1>4. ASSUME NEW i \in DOMAIN a, a[i].part = "info" PROVE a[i].key.resource \in DOMAIN res2
  BY <1>1, <1>2, <1>4 DEF Informed
<1>5. ASSUME NEW r \in Strings
      PROVE  LibRight(a, scopes, r)
  <2>1. SameLib(scopes, scopes)
    BY DEF SameLib
  <2>2. ~ Tells(e, ScopeInfo, r)
    BY InfoNamesDiffer DEF Tells, TargetTold
  <2> QED
    BY <2>1, <2>2, ScopesKept
<1> QED
  BY <1>3, <1>4, <1>5, Zenon DEF Informed

\* An otel_scope_info is about one scope of one resource.
LEMMA InformedScope ==
    ASSUME NEW app \in Seq(EntryTypes), NEW e \in EntryTypes, NEW a, a = Append(app, e),
           NEW res, NEW res2, NEW scopes, NEW scopes2,
           Informed(app, res, scopes), Extends(res, res2), e.key.resource \in DOMAIN res2,
           ScopeTold(scopes, e, scopes2)
    PROVE  Informed(a, res2, scopes2)
<1> DEFINE k == e.key.resource
           x == <<e.key.resource, e.key.scope>>
<1>1. /\ \A i \in DOMAIN app : a[i] = app[i]
      /\ DOMAIN a = DOMAIN app \cup {Len(app) + 1} /\ a[Len(app) + 1] = e
  BY Grown
<1>2. /\ DOMAIN scopes2 = DOMAIN scopes \cup {x} /\ scopes2[x] = "info"
      /\ \A y \in DOMAIN scopes \ {x} : scopes2[y] = scopes[y]
  BY DEF Put, ScopeTold
<1>3. ASSUME NEW r \in DOMAIN res2
      PROVE  AttrRight(a, res2, r)
  <2>1. ~ Tells(e, TargetInfo, r)
    BY InfoNamesDiffer DEF Tells, ScopeTold
  <2> QED
    BY <2>1, ResourcesKept
<1>4. ASSUME NEW i \in DOMAIN a, a[i].part = "info" PROVE a[i].key.resource \in DOMAIN res2
  BY <1>1, <1>4 DEF Informed, Extends
<1>5. ASSUME NEW r \in Strings
      PROVE  LibRight(a, scopes2, r)
  <2>1. (<<r, "lib">> \in DOMAIN scopes /\ scopes[<<r, "lib">>] = "info")
          <=> \E i \in Infos(app, ScopeInfo, r) : app[i].key.scope = "lib"
    BY DEF Informed, LibRight
  <2>2. (<<r, "lib">> \in DOMAIN scopes2 /\ scopes2[<<r, "lib">>] = "info")
          <=> \/ <<r, "lib">> \in DOMAIN scopes /\ scopes[<<r, "lib">>] = "info"
              \/ r = k /\ e.key.scope = "lib"
    BY <1>2
  <2>3. (\E i \in Infos(a, ScopeInfo, r) : a[i].key.scope = "lib")
          <=> \/ \E i \in Infos(app, ScopeInfo, r) : app[i].key.scope = "lib"
              \/ r = k /\ e.key.scope = "lib"
    BY <1>1 DEF Infos, Tells, ScopeTold
  <2> QED
    BY <2>1, <2>2, <2>3 DEF LibRight
<1> QED
  BY <1>3, <1>4, <1>5, Zenon DEF Informed

-----------------------------------------------------------------------------
(* The same target; the inductive invariant.                                *)

\* No step of a transaction changes the target or the external labels, and with them
\* nothing of what the names mean: the lemmas up to SameTracked carry the invariant's
\* parts over a step.
SameTarget == target' = target /\ external' = external

\* The metadata of a name stays.
LEMMA SameName ==
    ASSUME SameTarget, NEW n
    PROVE  /\ HasMetadata(n)' <=> HasMetadata(n)
           /\ store' = store
           /\ metadataForMetric(n)' = metadataForMetric(n)
BY DEF SameTarget, HasMetadata, store, metadataForMetric

\* The family that a name makes stays.
LEMMA SameNew ==
    ASSUME SameTarget, NEW n, NEW native, NEW nhcb
    PROVE  newMetricFamily(n, native, nhcb)' = newMetricFamily(n, native, nhcb)
BY SameName DEF newMetricFamily

\* What is native and what collides stays.
LEMMA SameCollides ==
    ASSUME SameTarget, NEW s
    PROVE  IsNative(s)' = IsNative(s) /\ (Collides(s)' <=> Collides(s))
<1>1. IsNative(s)' = IsNative(s)
  BY SameName DEF IsNative, detectAndStoreNativeHistogramStaleness
<1>2. newMetricFamily(metadataForMetric(s.name).name, IsNative(s), s.kind = "nhcb")'
        = newMetricFamily(metadataForMetric(s.name).name, IsNative(s), s.kind = "nhcb")
  BY SameName DEF newMetricFamily, IsNative, detectAndStoreNativeHistogramStaleness
<1> QED
  BY <1>1, <1>2, SameName DEF Collides

\* Which families are displaced stays.
LEMMA SameGood ==
    ASSUME SameTarget, NEW app, NEW k, NEW mf
    PROVE  /\ Own(k)' <=> Own(k)
           /\ Clean(app, k)' <=> Clean(app, k)
           /\ Good(app, k)' <=> Good(app, k)
           /\ Formed(k, mf)' <=> Formed(k, mf)
<1>1. Clean(app, k)' <=> Clean(app, k)
  BY SameCollides DEF Clean
<1> QED
  BY <1>1 DEF SameTarget, Own, Good, Formed

\* Canonical families stay so.
LEMMA SameCanonical ==
    ASSUME SameTarget, NEW k, NEW mf
    PROVE  Canonical(mf, k)' <=> Canonical(mf, k)
BY SameNew DEF Canonical

\* Why a sample became what it did stays.
LEMMA SameEntryRight ==
    ASSUME SameTarget, NEW app, NEW e, NEW mtype
    PROVE  EntryRight(app, e, mtype)' <=> EntryRight(app, e, mtype)
<1>1. IsNative(e.sample)' = IsNative(e.sample)
  BY SameCollides
<1>2. metadataForMetric(e.sample.name)' = metadataForMetric(e.sample.name)
  BY SameName
<1> QED
  BY <1>1, <1>2 DEF EntryRight

\* Right families stay right.
LEMMA SameFamilyRight ==
    ASSUME SameTarget, NEW app, NEW k, NEW mf
    PROVE  FamilyRight(app, k, mf)' <=> FamilyRight(app, k, mf)
BY SameCanonical, SameEntryRight DEF FamilyRight

\* Tracked and Counted depend on the history and the families alone.
LEMMA SameTracked ==
    ASSUME SameTarget, NEW app, NEW fams
    PROVE  /\ Tracked(app, fams)' <=> Tracked(app, fams)
           /\ Counted(app, fams)' <=> Counted(app, fams)
<1>1. Tracked(app, fams)' <=> Tracked(app, fams)
  BY SameGood, SameFamilyRight DEF Tracked
<1>2. Counted(app, fams)' <=> Counted(app, fams)
  BY SameGood DEF Counted, SameTarget
<1> QED
  BY <1>1, <1>2

\* The points depend on families, resources and scopes alone.
LEMMA SameMetrics ==
    ASSUME families' = families, nodeResources' = nodeResources, scopeAttributes' = scopeAttributes
    PROVE  getMetrics' = getMetrics
<1>1. ASSUME NEW k, NEW mf, NEW mg PROVE Point(k, mf, mg)' = Point(k, mf, mg)
  BY DEF Point
<1>2. ASSUME NEW k, NEW mf, NEW mg
      PROVE  /\ toDistributionPoint(k, mf, mg)' = toDistributionPoint(k, mf, mg)
             /\ toSummaryPoint(k, mf, mg)' = toSummaryPoint(k, mf, mg)
             /\ toExponentialHistogramDataPoints(k, mf, mg)'
                  = toExponentialHistogramDataPoints(k, mf, mg)
             /\ toNumberDataPoint(k, mf, mg)' = toNumberDataPoint(k, mf, mg)
  <2>1. Point(k, mf, mg)' = Point(k, mf, mg)
    BY <1>1
  <2>2. toDistributionPoint(k, mf, mg)' = toDistributionPoint(k, mf, mg)
    BY <2>1, Zenon DEF toDistributionPoint
  <2>3. toSummaryPoint(k, mf, mg)' = toSummaryPoint(k, mf, mg)
    BY <2>1, Zenon DEF toSummaryPoint
  <2>4. toExponentialHistogramDataPoints(k, mf, mg)' = toExponentialHistogramDataPoints(k, mf, mg)
    BY <2>1, Zenon DEF toExponentialHistogramDataPoints
  <2>5. toNumberDataPoint(k, mf, mg)' = toNumberDataPoint(k, mf, mg)
    BY <2>1, Zenon DEF toNumberDataPoint
  <2> QED
    BY <2>2, <2>3, <2>4, <2>5
<1>3. ASSUME NEW k PROVE appendMetric(k)' = appendMetric(k)
  BY <1>2 DEF appendMetric
<1> QED
  BY <1>3 DEF getMetrics

\* A transaction is new as long as every sample was refused with the context done.
Fresh == isNew => families = <<>> /\ \A i \in DOMAIN appended : appended[i].part = "failed"
\* What Commit sent is what the families give.
Delivered == Done => sent = IF isNew THEN {} ELSE getMetrics

\* The types of the state, with families under their names and resources known.
Typed ==
    /\ target \in Targets /\ external \in {"none", "label", "job"}
    /\ outcome \in {"open", "committed", "failed", "nothing", "noData", "rolledBack"}
    /\ cancelled \in BOOLEAN /\ isNew \in BOOLEAN
    /\ appended \in Seq(EntryTypes) /\ Len(appended) <= MaxSamples
    /\ nodeResources \in Resourced /\ scopeAttributes \in Scoped
    /\ families \in Maps(Keys, Families)
    /\ \A k \in DOMAIN families : Formed(k, families[k]) /\ k.resource \in DOMAIN nodeResources
    /\ \A i \in DOMAIN appended : appended[i].part \in Parts => Own(appended[i].key)
    /\ Ownless(families)

\* The inductive invariant.
AppInv ==
    /\ Typed /\ Fresh /\ Delivered
    /\ Tracked(appended, families)
    /\ Counted(appended, families)
    /\ Informed(appended, nodeResources, scopeAttributes)

\* It holds of a new transaction.
LEMMA AppInit == Init => AppInv
<1> SUFFICES ASSUME Init PROVE AppInv
  OBVIOUS
<1>1. /\ families = <<>> /\ appended = <<>> /\ outcome = "open"
      /\ nodeResources = [r \in {} |-> {}] /\ scopeAttributes = [r \in {} |-> NoLabel]
      /\ target \in Targets /\ external \in {"none", "label", "job"}
      /\ cancelled = FALSE /\ isNew = TRUE
  BY DEF Init
<1>2. /\ DOMAIN families = {} /\ DOMAIN appended = {}
      /\ DOMAIN nodeResources = {} /\ DOMAIN scopeAttributes = {}
  BY <1>1
<1>3. /\ families \in Maps(Keys, Families) /\ nodeResources \in Resourced
      /\ scopeAttributes \in Scoped
  BY <1>1, EmptyMap DEF Resourced, Scoped
<1>4. appended \in Seq(EntryTypes) /\ Len(appended) <= MaxSamples
  BY <1>1, AppenderAssumption
<1>5. Typed
  BY <1>1, <1>2, <1>3, <1>4 DEF Typed, Ownless
<1>6. Fresh /\ Delivered
  BY <1>1, <1>2 DEF Fresh, Delivered, Done
<1>7. Tracked(appended, families) /\ Counted(appended, families)
  BY <1>2 DEF Tracked, Counted
<1>8. Informed(appended, nodeResources, scopeAttributes)
  <2>1. \A n, r : Infos(appended, n, r) = {}
    BY <1>2 DEF Infos
  <2> QED
    BY <1>2, <2>1 DEF Informed, LibRight
<1> QED
  BY <1>5, <1>6, <1>7, <1>8 DEF AppInv

-----------------------------------------------------------------------------
(* The steps keep the invariant.                                            *)

\* addScopeAttributesFromLabels leaves the scope lib alone.
LEMMA LabelsAdded ==
    ASSUME NEW scopes \in Scoped, NEW R, R \subseteq Strings, "attributes" \in Strings,
           NEW more, more = Or(scopes, Labelled(R))
    PROVE  more \in Scoped /\ SameLib(scopes, more)
<1> DEFINE T == {"info", "labels"}
           S == Strings \X Strings
           d == Labelled(R)
<1>1. /\ d \in Maps(S, T) /\ DOMAIN d = R \X {"attributes"}
      /\ \A r \in Strings : <<r, "lib">> \notin DOMAIN d
  BY LabelledMap DEF Scoped
<1>2. scopes \in Maps(S, T)
  BY DEF Scoped
<1> HIDE DEF S, T, d
<1>3. /\ DOMAIN scopes \subseteq S /\ scopes \in [DOMAIN scopes -> T]
      /\ DOMAIN d \subseteq S /\ d \in [DOMAIN d -> T]
  BY <1>1, <1>2, MapIsFunction
<1>4. more \in [DOMAIN scopes \cup DOMAIN d -> T]
  BY <1>3 DEF Or, d
<1>5. more \in Maps(S, T)
  BY <1>3, <1>4, FunctionIsMap
<1>6. \A x \in DOMAIN scopes : more[x] = scopes[x]
  BY DEF Or
<1>7. DOMAIN more = DOMAIN scopes \cup DOMAIN d
  BY <1>4
<1> QED
  BY <1>1, <1>5, <1>6, <1>7 DEF Scoped, SameLib, S, T

\* The resources, and with a cancelled context nothing, that a refused sample leaves.
LEMMA FailsStep ==
    ASSUME AppInv, NEW s \in Samples, AppendFails(s) PROVE AppInv'
<1> DEFINE e == Entry(s, Nowhere, NoRef, "failed")
<1>1. /\ SameTarget /\ families' = families /\ scopeAttributes' = scopeAttributes
      /\ outcome = "open" /\ outcome' = "open" /\ cancelled' = cancelled
      /\ appended' = Append(appended, e) /\ Len(appended) < MaxSamples
      /\ isNew' \in {FALSE, isNew}
      /\ nodeResources' = nodeResources \/ nodeResources' = Or(nodeResources, Blank(Resources(s)))
  BY DEF AppendFails, SameTarget, initTransaction, Blank
<1>2. Typed /\ Fresh /\ Tracked(appended, families) /\ Counted(appended, families)
      /\ Informed(appended, nodeResources, scopeAttributes)
  BY DEF AppInv
<1>3. e \in EntryTypes /\ e.part = "failed"
  <2>1. NoLabel \in Strings
    BY DEF Strings
  <2>2. Nowhere \in Keys /\ NoRef \in Refs
    BY <2>1, EmptySeq DEF Nowhere, Key, NoRef, Keys, Refs, Boundary
  <2> QED
    BY <2>2 DEF Entry, EntryTypes
<1> HIDE DEF e
<1>4. appended \in Seq(EntryTypes) /\ nodeResources \in Resourced
  BY <1>2 DEF Typed
<1>5. /\ appended' \in Seq(EntryTypes) /\ Len(appended') = Len(appended) + 1
      /\ DOMAIN appended' = DOMAIN appended \cup {Len(appended) + 1}
      /\ \A i \in DOMAIN appended : appended'[i] = appended[i]
      /\ appended'[Len(appended) + 1] = e /\ Len(appended) \in Nat
  BY <1>1, <1>3, <1>4, Grown
<1>6. nodeResources' \in Resourced /\ Extends(nodeResources, nodeResources')
  <2>1. Resources(s) \subseteq Strings
    BY SampleTypes DEF Resources
  <2>2. CASE nodeResources' = nodeResources
    BY <1>4, <2>2 DEF Extends
  <2>3. CASE nodeResources' = Or(nodeResources, Blank(Resources(s)))
    BY <1>4, <2>1, <2>3, Enriched
  <2> QED
    BY <1>1, <2>2, <2>3
<1>7. Typed'
  <2>1. Len(appended') <= MaxSamples
    BY <1>1, <1>5, AppenderAssumption
  <2>2. \A k \in DOMAIN families' :
          Formed(k, families[k])' /\ k.resource \in DOMAIN nodeResources'
    BY <1>1, <1>2, <1>6, SameGood DEF Typed, Extends
  <2>3. \A i \in DOMAIN appended' : appended'[i].part \in Parts => Own(appended[i].key)'
    BY <1>1, <1>2, <1>3, <1>5, SameGood DEF Typed, Parts
  <2>4. Ownless(families)'
    BY <1>1, <1>2, SameGood DEF Typed, Ownless
  <2> QED
    BY <1>1, <1>2, <1>5, <1>6, <2>1, <2>2, <2>3, <2>4 DEF Typed, SameTarget
<1>8. Fresh'
  BY <1>1, <1>2, <1>3, <1>5 DEF Fresh
<1>9. Delivered'
  BY <1>1 DEF Delivered, Done
<1>10. Tracked(appended', families) /\ Counted(appended', families)
  BY <1>1, <1>2, <1>3, <1>4, OtherEntry DEF Parts
<1>11. Tracked(appended, families)' /\ Counted(appended, families)'
  BY <1>1, <1>10, SameTracked
<1>12. Informed(appended', nodeResources', scopeAttributes')
  <2>1. SameLib(scopeAttributes, scopeAttributes')
    BY <1>1 DEF SameLib
  <2> QED
    BY <1>1, <1>2, <1>3, <1>4, <1>6, <2>1, InformedKept
<1> QED
  BY <1>7, <1>8, <1>9, <1>11, <1>12 DEF AppInv

\* AppendInfo keeps the invariant.
LEMMA InfoStep ==
    ASSUME AppInv, NEW s \in Samples, AppendInfo(s) PROVE AppInv'
<1> DEFINE r == getJobAndInstance(s, external)
           e == Entry(s, Key(r, s.scope, FALSE, s.name), NoRef, "info")
<1>1. /\ SameTarget /\ families' = families /\ outcome = "open" /\ outcome' = "open"
      /\ cancelled' = cancelled /\ isNew' = FALSE /\ Len(appended) < MaxSamples
      /\ appended' = Append(appended, e)
  BY DEF AppendInfo, SameTarget
<1>2. Typed /\ Tracked(appended, families) /\ Counted(appended, families)
      /\ Informed(appended, nodeResources, scopeAttributes)
  BY DEF AppInv
<1>3. r \in Strings /\ s.scope \in Strings /\ s.name \in Names /\ s.attr \in Strings
  BY SampleTypes DEF Samples, Strings
<1>4. /\ e \in EntryTypes /\ e.part = "info" /\ e.sample = s
      /\ e.key.resource = r /\ e.key.scope = s.scope
  <2>1. NoLabel \in Strings
    BY DEF Strings
  <2>2. Key(r, s.scope, FALSE, s.name) \in Keys /\ NoRef \in Refs
    BY <1>3, <2>1 DEF Key, NoRef, Keys, Refs, Boundary, Names
  <2> QED
    BY <2>2 DEF Entry, EntryTypes, Key
<1>5. \/ /\ s.name = TargetInfo /\ scopeAttributes' = scopeAttributes
         /\ nodeResources' =
              Put(nodeResources, r, Told(nodeResources, r, s.attr))
      \/ /\ s.name = ScopeInfo /\ nodeResources' = Or(nodeResources, Blank({r}))
         /\ scopeAttributes' = Put(scopeAttributes, <<r, s.scope>>, "info")
  BY DEF AppendInfo, Blank, addScopeInfo, Told
<1> HIDE DEF e, r
<1>6. /\ appended \in Seq(EntryTypes) /\ nodeResources \in Resourced
      /\ scopeAttributes \in Scoped
  BY <1>2 DEF Typed
<1>7. /\ appended' \in Seq(EntryTypes) /\ Len(appended') = Len(appended) + 1
      /\ DOMAIN appended' = DOMAIN appended \cup {Len(appended) + 1}
      /\ \A i \in DOMAIN appended : appended'[i] = appended[i]
      /\ appended'[Len(appended) + 1] = e /\ Len(appended) \in Nat
  BY <1>1, <1>4, <1>6, Grown
<1>8. /\ nodeResources' \in Resourced /\ DOMAIN nodeResources \subseteq DOMAIN nodeResources'
      /\ scopeAttributes' \in Scoped
      /\ Informed(appended', nodeResources', scopeAttributes')
  <2>1. CASE s.name = TargetInfo /\ scopeAttributes' = scopeAttributes
             /\ nodeResources' = Put(nodeResources, r, Told(nodeResources, r, s.attr))
    <3> DEFINE v == Told(nodeResources, r, s.attr)
               T == SUBSET Strings
    <3>1. v \in T /\ nodeResources \in Maps(Strings, T)
      BY <1>3, <1>6, InMap DEF Resourced, Told
    <3>2. nodeResources' = Put(nodeResources, r, v)
      BY <2>1
    <3> HIDE DEF v, T
    <3>3. nodeResources' \in Maps(Strings, T)
      BY <1>3, <3>1, <3>2, PutMap
    <3>5. DOMAIN nodeResources' = DOMAIN nodeResources \cup {r}
      BY <3>2 DEF Put
    <3>4. Informed(appended', nodeResources', scopeAttributes)
      <4>1. TargetTold(nodeResources, e, nodeResources')
        BY <1>4, <2>1 DEF TargetTold
      <4> QED
        BY <1>1, <1>2, <1>4, <1>6, <4>1, InformedTarget
    <3> QED
      BY <1>6, <2>1, <3>3, <3>4, <3>5 DEF Resourced, T
  <2>2. CASE /\ s.name = ScopeInfo /\ nodeResources' = Or(nodeResources, Blank({r}))
             /\ scopeAttributes' = Put(scopeAttributes, <<r, s.scope>>, "info")
    <3>1. nodeResources' \in Resourced /\ Extends(nodeResources, nodeResources')
          /\ r \in DOMAIN nodeResources'
      <4>1. {r} \subseteq Strings
        BY <1>3
      <4> QED
        BY <1>6, <2>2, <4>1, Enriched
    <3>2. scopeAttributes' \in Scoped
      <4> DEFINE S == Strings \X Strings
                 T == {"info", "labels"}
                 x == <<r, s.scope>>
                 i == "info"
      <4>1. x \in S /\ i \in T /\ scopeAttributes \in Maps(S, T)
        BY <1>3, <1>6 DEF Scoped
      <4>2. scopeAttributes' = Put(scopeAttributes, x, i)
        BY <2>2
      <4> HIDE DEF S, T, x, i
      <4>3. scopeAttributes' \in Maps(S, T)
        BY <4>1, <4>2, PutMap
      <4> QED
        BY <4>3 DEF Scoped, S, T
    <3>3. Informed(appended', nodeResources', scopeAttributes')
      <4>1. /\ ScopeTold(scopeAttributes, e, scopeAttributes')
            /\ e.key.resource \in DOMAIN nodeResources'
        BY <1>4, <2>2, <3>1 DEF ScopeTold
      <4> QED
        BY <1>1, <1>2, <1>4, <1>6, <3>1, <4>1, InformedScope
    <3> QED
      BY <3>1, <3>2, <3>3 DEF Extends
  <2> QED
    BY <1>5, <2>1, <2>2
<1>9. Typed'
  <2>1. Len(appended') <= MaxSamples
    BY <1>1, <1>7, AppenderAssumption
  <2>2. \A k \in DOMAIN families' :
          Formed(k, families[k])' /\ k.resource \in DOMAIN nodeResources'
    BY <1>1, <1>2, <1>8, SameGood DEF Typed
  <2>3. \A i \in DOMAIN appended' : appended'[i].part \in Parts => Own(appended[i].key)'
    BY <1>1, <1>2, <1>4, <1>7, SameGood DEF Typed, Parts
  <2>4. Ownless(families)'
    BY <1>1, <1>2, SameGood DEF Typed, Ownless
  <2> QED
    BY <1>1, <1>2, <1>7, <1>8, <2>1, <2>2, <2>3, <2>4 DEF Typed, SameTarget
<1>10. Fresh' /\ Delivered'
  BY <1>1 DEF Fresh, Delivered, Done
<1>11. Tracked(appended', families) /\ Counted(appended', families)
  BY <1>1, <1>2, <1>4, <1>6, OtherEntry DEF Parts
<1>12. Tracked(appended, families)' /\ Counted(appended, families)'
  BY <1>1, <1>11, SameTracked
<1> QED
  BY <1>8, <1>9, <1>10, <1>12 DEF AppInv

\* AppendSample keeps the invariant.
LEMMA SampleStep ==
    ASSUME AppInv, NEW s \in Samples, AppendSample(s) PROVE AppInv'
<1> DEFINE resource == getJobAndInstance(s, external)
           f == Find(families, resource, s)
           to == addDatapoint(families, resource, s, IsNative(s), IsNHCB(s))
           e == Entry(s, to.key, to.ref, to.part)
<1>1. /\ SameTarget /\ outcome = "open" /\ outcome' = "open" /\ s.bad = "no"
      /\ cancelled' = cancelled /\ isNew' = FALSE /\ Len(appended) < MaxSamples
      /\ appended' = Append(appended, e)
      /\ families' = appendExemplar(to.fams, s, IsNative(s))
      /\ nodeResources' = Or(nodeResources, Blank(Resources(s)))
  BY DEF AppendSample, SameTarget, initTransaction, Blank, IsNHCB
<1>2. Typed /\ Tracked(appended, families) /\ Counted(appended, families)
      /\ Informed(appended, nodeResources, scopeAttributes)
  BY DEF AppInv
<1>3. /\ families \in Maps(Keys, Families) /\ appended \in Seq(EntryTypes)
      /\ nodeResources \in Resourced /\ scopeAttributes \in Scoped
      /\ \A k \in DOMAIN families : Formed(k, families[k])
  BY <1>2 DEF Typed
<1>4. resource \in Strings /\ s.scope \in Strings /\ Resources(s) \subseteq Strings
  BY SampleTypes DEF Resources
<1>5. PICK mf, old, new : AddedRight(f, mf, old, s, new, to)
  BY <1>3, <1>4, Added
<1>6. FoundRight(families, resource, s, f)
  BY <1>3, <1>4, FindRight
<1>7. /\ e \in EntryTypes /\ e.part \in Parts
      /\ e.key = to.key
  <2>1. to.key \in Keys /\ to.ref \in Refs /\ to.part \in Parts
    BY <1>5, <1>6 DEF AddedRight, FoundRight, StoredRight
  <2> HIDE DEF to
  <2> QED
    BY <2>1 DEF Entry, EntryTypes
<1> HIDE DEF to
<1>8. Effect(families, s, to, mf, new, families') /\ Own(to.key)
  BY <1>1, <1>3, <1>5, SampleEffect
<1>9. Tracked(appended', families')
  BY <1>1, <1>2, <1>3, <1>5, <1>7, <1>8, TrackedStep
<1>10. Counted(appended', families')
  BY <1>1, <1>2, <1>3, <1>5, <1>7, <1>8, CountedStep
<1> HIDE DEF e, f
<1>11. Tracked(appended, families)' /\ Counted(appended, families)'
  BY <1>1, <1>9, <1>10, SameTracked
<1>12. /\ nodeResources' \in Resourced /\ Extends(nodeResources, nodeResources')
       /\ Resources(s) \subseteq DOMAIN nodeResources'
  BY <1>1, <1>3, <1>4, Enriched
<1>13. scopeAttributes' \in Scoped /\ SameLib(scopeAttributes, scopeAttributes')
  <2>1. CASE s.scope = "attributes"
    <3>1. scopeAttributes' = Or(scopeAttributes, Labelled(Resources(s)))
      BY <2>1 DEF AppendSample, addScopeAttributesFromLabels, Labelled
    <3> QED
      BY <1>3, <1>4, <2>1, <3>1, LabelsAdded
  <2>2. CASE s.scope # "attributes"
    <3>1. scopeAttributes' = scopeAttributes
      BY <2>2 DEF AppendSample, addScopeAttributesFromLabels
    <3> QED
      BY <1>3, <3>1 DEF SameLib
  <2> QED
    BY <2>1, <2>2
<1>14. Informed(appended', nodeResources', scopeAttributes')
  <2>1. e.part # "info"
    BY <1>7 DEF Parts
  <2> QED
    BY <1>1, <1>2, <1>3, <1>7, <1>12, <1>13, <2>1, InformedKept
<1>15. /\ appended' \in Seq(EntryTypes) /\ Len(appended') = Len(appended) + 1
       /\ DOMAIN appended' = DOMAIN appended \cup {Len(appended) + 1}
       /\ \A i \in DOMAIN appended : appended'[i] = appended[i]
       /\ appended'[Len(appended) + 1] = e /\ Len(appended) \in Nat
  BY <1>1, <1>3, <1>7, Grown
<1>16. Typed'
  <2>1. Len(appended') <= MaxSamples
    BY <1>1, <1>15, AppenderAssumption
  <2>2. \A k \in DOMAIN families' : Formed(k, families[k])'
    BY <1>1, <1>8, SameGood DEF Effect
  <2>3. \A k \in DOMAIN families' : k.resource \in DOMAIN nodeResources'
    BY <1>2, <1>8, <1>12 DEF Effect, Typed, Extends
  <2>4. \A i \in DOMAIN appended' : appended'[i].part \in Parts => Own(appended[i].key)'
    BY <1>1, <1>2, <1>7, <1>8, <1>15, SameGood DEF Typed
  <2>5. families' \in Maps(Keys, Families)
    BY <1>8 DEF Effect
  <2>6. Ownless(families)'
    <3>1. \A k \in DOMAIN families' : ~ Own(k) => DOMAIN families'[k].groups = {}
      BY <1>2, <1>8 DEF Typed, Effect, Ownless
    <3> QED
      BY <1>1, <3>1, SameGood DEF Ownless
  <2> QED
    BY <1>1, <1>2, <1>12, <1>13, <1>15, <2>1, <2>2, <2>3, <2>4, <2>5, <2>6 DEF Typed, SameTarget
<1>17. Fresh' /\ Delivered'
  BY <1>1 DEF Fresh, Delivered, Done
<1> QED
  BY <1>11, <1>14, <1>16, <1>17 DEF AppInv

\* Commit, Rollback and Cancel touch nothing that was appended.
LEMMA KeptStep ==
    ASSUME AppInv, SameTarget, families' = families, appended' = appended, isNew' = isNew,
           nodeResources' = nodeResources, scopeAttributes' = scopeAttributes,
           cancelled' \in BOOLEAN, Delivered',
           outcome' \in {"open", "committed", "failed", "nothing", "noData", "rolledBack"}
    PROVE  AppInv'
<1>1. Typed /\ Fresh /\ Tracked(appended, families) /\ Counted(appended, families)
      /\ Informed(appended, nodeResources, scopeAttributes)
  BY DEF AppInv
<1>2. Typed'
  <2>1. \A k \in DOMAIN families' :
          Formed(k, families[k])' /\ k.resource \in DOMAIN nodeResources'
    BY <1>1, SameGood DEF Typed
  <2>2. \A i \in DOMAIN appended' : appended'[i].part \in Parts => Own(appended[i].key)'
    BY <1>1, SameGood DEF Typed
  <2>3. Ownless(families)'
    BY <1>1, SameGood DEF Typed, Ownless
  <2> QED
    BY <1>1, <2>1, <2>2, <2>3 DEF Typed, SameTarget
<1>3. Fresh' /\ Informed(appended', nodeResources', scopeAttributes')
  BY <1>1 DEF Fresh
<1>4. Tracked(appended, families)' /\ Counted(appended, families)'
  BY <1>1, SameTracked
<1> QED
  BY <1>2, <1>3, <1>4 DEF AppInv

\* Every step keeps the invariant.
LEMMA AppNext == AppInv /\ [Next]_vars => AppInv'
<1> SUFFICES ASSUME AppInv, [Next]_vars PROVE AppInv'
  OBVIOUS
<1>1. \A s \in target.samples : s \in Samples
  BY AppenderAssumption DEF AppInv, Typed
<1>2. ASSUME NEW s \in target.samples, AppendFails(s) PROVE AppInv'
  BY <1>1, <1>2, FailsStep
<1>3. ASSUME NEW s \in target.samples, AppendInfo(s) PROVE AppInv'
  BY <1>1, <1>3, InfoStep
<1>4. ASSUME NEW s \in target.samples, AppendSample(s) PROVE AppInv'
  BY <1>1, <1>4, SampleStep
<1>5. ASSUME NEW ok \in BOOLEAN, Commit(ok) PROVE AppInv'
  <2>1. getMetrics' = getMetrics
    BY <1>5, SameMetrics DEF Commit
  <2>2. Delivered'
    BY <1>5, <2>1 DEF Commit, Delivered
  <2> QED
    BY <1>5, <2>2, KeptStep DEF Commit, SameTarget, AppInv, Typed
<1>6. CASE Rollback
  <2>1. Delivered'
    BY <1>6 DEF Rollback, Delivered, Done
  <2> QED
    BY <1>6, <2>1, KeptStep DEF Rollback, SameTarget, AppInv, Typed
<1>7. CASE Cancel
  <2>1. Delivered'
    BY <1>7 DEF Cancel, Delivered, Done
  <2> QED
    BY <1>7, <2>1, KeptStep DEF Cancel, SameTarget, AppInv, Typed
<1>8. CASE UNCHANGED vars
  <2>1. Delivered'
    BY <1>8, SameMetrics DEF vars, Delivered, Done, AppInv
  <2> QED
    BY <1>8, <2>1, KeptStep DEF vars, SameTarget, AppInv, Typed
<1> QED
  BY <1>2, <1>3, <1>4, <1>5, <1>6, <1>7, <1>8 DEF Next

-----------------------------------------------------------------------------
(* From groups to points.                                                   *)

\* What every point says of the group it was made from.
Describes(k, mf, mg, p) ==
    /\ p.key = k /\ p.ls = mg.ls /\ p.ts = mg.ts /\ p.mtype = mf.mtype
    /\ p.exemplars = (IF mf.mtype = "summary" THEN 0 ELSE mg.exemplars)
    /\ p.resource = nodeResources[k.resource]
    /\ p.scope = (IF k.scope # NoLabel /\ <<k.resource, k.scope>> \in DOMAIN scopeAttributes
                  THEN scopeAttributes[<<k.resource, k.scope>>] ELSE NoLabel)

\* The points of one group.
GroupPoints(k, mf, mg) ==
    IF mf.mtype = "histogram" THEN toDistributionPoint(k, mf, mg)
    ELSE IF mf.mtype = "summary" THEN toSummaryPoint(k, mf, mg)
    ELSE IF mf.mtype = "exponential" THEN toExponentialHistogramDataPoints(k, mf, mg)
    ELSE toNumberDataPoint(k, mf, mg)

\* Every conversion takes the key, the labels, the time, the exemplars, the resource and
\* the scope over.
LEMMA PointDescribes ==
    ASSUME NEW k, NEW mf, NEW mg, NEW p \in GroupPoints(k, mf, mg)
    PROVE  Describes(k, mf, mg, p)
<1> DEFINE q == Point(k, mf, mg)
<1>1. Describes(k, mf, mg, q)
  BY DEF Describes, Point
<1>2. CASE p \in toDistributionPoint(k, mf, mg)
  BY <1>2, ZenonT(60) DEF toDistributionPoint, Point, Describes
<1>3. CASE p \in toSummaryPoint(k, mf, mg)
  BY <1>3, ZenonT(60) DEF toSummaryPoint, Point, Describes
<1>4. CASE p \in toExponentialHistogramDataPoints(k, mf, mg)
  <2> DEFINE off == IF mg.h.spans = <<>> THEN 0 ELSE Head(mg.h.spans).offset - 1
             b == IF mg.counts = "integer" THEN convertDeltaBuckets(mg.h)
                  ELSE convertAbsoluteBuckets(mg.h)
  <2>1. \/ p = [q EXCEPT !.stale = TRUE]
        \/ p = [q EXCEPT !.count = mg.count, !.sum = mg.sum, !.offset = off, !.buckets = b]
    BY <1>4 DEF toExponentialHistogramDataPoints
  <2> HIDE DEF off, b
  <2> QED
    BY <2>1, ZenonT(60) DEF Point, Describes
<1>5. CASE p \in toNumberDataPoint(k, mf, mg)
  BY <1>5 DEF toNumberDataPoint, Point, Describes
<1> QED
  BY <1>2, <1>3, <1>4, <1>5 DEF GroupPoints

\* getMetrics gives the points of every group of every family whose resource is known.
LEMMA MetricsAreGroups ==
    \A p : p \in getMetrics <=>
        \E k \in DOMAIN families :
            /\ k.resource \in DOMAIN nodeResources
            /\ \E r \in DOMAIN families[k].groups :
                  p \in GroupPoints(k, families[k], families[k].groups[r])
<1>1. ASSUME NEW k, NEW r
      PROVE  (CASE families[k].mtype = "histogram" ->
                     toDistributionPoint(k, families[k], families[k].groups[r])
                [] families[k].mtype = "summary" ->
                     toSummaryPoint(k, families[k], families[k].groups[r])
                [] families[k].mtype = "exponential" ->
                     toExponentialHistogramDataPoints(k, families[k], families[k].groups[r])
                [] OTHER -> toNumberDataPoint(k, families[k], families[k].groups[r]))
             = GroupPoints(k, families[k], families[k].groups[r])
  BY Zenon DEF GroupPoints
<1>2. ASSUME NEW k
      PROVE  appendMetric(k)
               = UNION {GroupPoints(k, families[k], families[k].groups[r])
                          : r \in DOMAIN families[k].groups}
  BY <1>1 DEF appendMetric
<1> QED
  BY <1>2 DEF getMetrics

\* A point that was sent is one of a group, which has the point's key and labels.
LEMMA SentFromGroup ==
    ASSUME AppInv, Done, NEW p \in sent
    PROVE  /\ p.key \in DOMAIN families /\ p.key \in Keys
           /\ p.key.resource \in DOMAIN nodeResources
           /\ p.ls \in DOMAIN families[p.key].groups
           /\ p \in GroupPoints(p.key, families[p.key], families[p.key].groups[p.ls])
           /\ Describes(p.key, families[p.key], families[p.key].groups[p.ls], p)
<1>1. p \in getMetrics
  BY DEF AppInv, Delivered
<1>2. PICK k \in DOMAIN families : \E r \in DOMAIN families[k].groups :
        k.resource \in DOMAIN nodeResources /\ p \in GroupPoints(k, families[k], families[k].groups[r])
  BY <1>1, MetricsAreGroups
<1>3. PICK r \in DOMAIN families[k].groups :
        k.resource \in DOMAIN nodeResources /\ p \in GroupPoints(k, families[k], families[k].groups[r])
  BY <1>2
<1>4. Describes(k, families[k], families[k].groups[r], p)
  BY <1>3, PointDescribes
<1>5. families[k].groups[r].ls = r
  BY DEF AppInv, Typed, Formed
<1>6. p.key = k /\ p.ls = r
  BY <1>4, <1>5 DEF Describes
<1>7. k \in Keys
  BY InMap DEF AppInv, Typed
<1> QED
  BY <1>3, <1>4, <1>6, <1>7

\* What the types say of a sample in the history.
LEMMA EntriesTyped ==
    ASSUME AppInv, NEW e \in Entries
    PROVE  /\ e \in EntryTypes /\ e.sample \in Samples /\ e.key \in Keys
           /\ e.part \in Parts \cup {"failed", "info"}
           /\ e.part \in Parts => Own(e.key)
<1>1. PICK i \in DOMAIN appended : e = appended[i]
  BY DEF Entries
<1>2. appended \in Seq(EntryTypes)
  BY DEF AppInv, Typed
<1>3. e \in EntryTypes
  BY <1>1, <1>2, ElementOfSeq, LenProperties
<1>4. e.part \in Parts => Own(e.key)
  BY <1>1 DEF AppInv, Typed
<1> QED
  BY <1>3, <1>4 DEF EntryTypes

\* The family of a sample, and its group, are there unless displaced.
LEMMA UndisplacedGood ==
    ASSUME AppInv, NEW e \in Entries, e.part \in Parts, ~ Displaced(e)
    PROVE  /\ Good(appended, e.key) /\ e.key \in DOMAIN families
           /\ FamilyRight(appended, e.key, families[e.key])
           /\ e.ref \in DOMAIN families[e.key].groups
<1>1. Good(appended, e.key)
  BY EntriesTyped DEF Good, Clean, Displaced, Entries
<1>2. e.key \in DOMAIN families
  BY <1>1 DEF AppInv, Tracked, Entries
<1>3. FamilyRight(appended, e.key, families[e.key])
  BY <1>1, <1>2 DEF AppInv, Tracked
<1>4. e.ref \in DOMAIN families[e.key].groups
  BY <1>3 DEF FamilyRight, Entries
<1> QED
  BY <1>1, <1>2, <1>3, <1>4

\* The invariant holds throughout every transaction.
LEMMA AppenderInductive == Spec => []AppInv
<1> QED
  BY AppInit, AppNext, PTL DEF Spec

\* Type correctness of the transaction: families stay under their own names, groups
\* under their own labels, with a resource that initTransaction made known.
THEOREM AppenderTyped == Spec => []TypeOK
<1>1. AppInv => TypeOK
  <2> SUFFICES ASSUME AppInv PROVE TypeOK
    OBVIOUS
  <2>1. Typed
    BY DEF AppInv
  <2>2. ASSUME NEW k \in DOMAIN families
        PROVE  /\ families[k].mtype \in MetricTypes /\ families[k].name = k.name
               /\ k.resource \in DOMAIN nodeResources
               /\ \A r \in DOMAIN families[k].groups :
                     LET mg == families[k].groups[r]
                     IN  {mg.count, mg.sum, mg.value} \subseteq Number /\ mg.ls = r
    <3>1. families[k] \in Families
      BY <2>1, InMap DEF Typed
    <3>2. families[k].mtype \in MetricTypes /\ families[k].groups \in Maps(Refs, Groups)
      BY <3>1, FamilyFields
    <3>3. \A r \in DOMAIN families[k].groups : families[k].groups[r] \in Groups
      BY <3>2, InMap
    <3>4. /\ families[k].name = k.name /\ k.resource \in DOMAIN nodeResources
          /\ \A r \in DOMAIN families[k].groups : families[k].groups[r].ls = r
      BY <2>1 DEF Typed, Formed
    <3> QED
      BY <3>2, <3>3, <3>4 DEF Groups
  <2> QED
    BY <2>1, <2>2 DEF TypeOK, Typed
<1> QED
  BY <1>1, AppenderInductive, PTL

\* transaction.go and metricfamily.go refuse a sample whose time is not its group's: no
\* point mixes samples of different times.
THEOREM NoMixedTimes == Spec => []OneTimestamp
<1>1. AppInv => OneTimestamp
  <2> SUFFICES ASSUME AppInv, Done, NEW e \in Entries, NEW p \in sent, In(e, p),
                      e.part \notin {"error", "failed", "info"}, ~ Displaced(e)
               PROVE  p.ts = e.sample.ts
    BY DEF OneTimestamp
  <2>1. e.part \in Parts \ {"error"} /\ p.key = e.key /\ p.ls = e.ref
    BY EntriesTyped DEF In
  <2>2. /\ FamilyRight(appended, e.key, families[e.key])
        /\ e.ref \in DOMAIN families[e.key].groups
    BY <2>1, UndisplacedGood
  <2>3. Tracks(appended, e.key, e.ref, families[e.key].mtype, families[e.key].groups[e.ref])
    BY <2>2 DEF FamilyRight
  <2>4. e.sample.ts = families[e.key].groups[e.ref].ts
    BY <2>1, <2>3 DEF Tracks, Of, Entries
  <2>5. Describes(e.key, families[e.key], families[e.key].groups[e.ref], p)
    BY <2>1, SentFromGroup
  <2> QED
    BY <2>4, <2>5 DEF Describes
<1> QED
  BY <1>1, AppenderInductive, PTL

\* AppendExemplar looks the family and the group up anew, with the labels as they were
\* scraped; without external labels every exemplar arrives with its series.
THEOREM ExemplarsKept == Spec => []ExemplarsFollow
<1>1. AppInv => ExemplarsFollow
  <2> SUFFICES ASSUME AppInv, Done, external = "none", NEW p \in sent, p.mtype # "summary"
               PROVE  LET mine == {i \in DOMAIN appended :
                                     /\ In(appended[i], p) /\ appended[i].sample.exemplar
                                     /\ appended[i].part \notin {"failed", "info"}}
                      IN  (\A i \in mine : ~ Displaced(appended[i]))
                            => p.exemplars = Cardinality(mine)
    BY DEF ExemplarsFollow
  <2>1. \A i \in DOMAIN appended :
          appended[i] \in Entries
            /\ (appended[i].part \notin {"failed", "info"} <=> appended[i].part \in Parts)
    BY EntriesTyped DEF Entries, Parts
  <2>2. {i \in DOMAIN appended : /\ In(appended[i], p) /\ appended[i].sample.exemplar
                                 /\ appended[i].part \notin {"failed", "info"}}
          = Mine(appended, p.key, p.ls)
    BY <2>1 DEF Mine, Of, In
  <2>3. ASSUME \A i \in Mine(appended, p.key, p.ls) : ~ Displaced(appended[i])
        PROVE  p.exemplars = Cardinality(Mine(appended, p.key, p.ls))
    <3>1. /\ p.key \in DOMAIN families /\ p.ls \in DOMAIN families[p.key].groups
          /\ Describes(p.key, families[p.key], families[p.key].groups[p.ls], p)
      BY SentFromGroup
    <3>2. Mine(appended, p.key, p.ls) = {} \/ Clean(appended, p.key)
      BY <2>3 DEF Clean, Displaced, Entries, Mine, Of
    <3>3. families[p.key].groups[p.ls].exemplars = Cardinality(Mine(appended, p.key, p.ls))
      BY <3>1, <3>2 DEF AppInv, Counted
    <3> QED
      BY <3>1, <3>3 DEF Describes
  <2> QED
    BY <2>2, <2>3
<1> QED
  BY <1>1, AppenderInductive, PTL

\* A label that is not there names no scope.
LEMMA NoLabelIsNone == NoLabel # "lib" /\ NoLabel # "info"
BY Zenon DEF NoLabel

\* The attributes of target_info and otel_scope_info are kept by resource and scope and
\* added in getMetrics: they reach every point, also those scraped before the info.
THEOREM InfoEverywhere == Spec => []InfoReachesAll
<1>1. AppInv => InfoReachesAll
  <2> SUFFICES ASSUME AppInv, Done, NEW p \in sent
               PROVE  LET infos(n) == {e \in Entries : e.part = "info" /\ e.sample.name = n
                                                        /\ e.key.resource = p.key.resource}
                      IN  /\ p.resource = {e.sample.attr : e \in infos(TargetInfo)}
                          /\ p.key.scope = "lib" =>
                               (p.scope = "info" <=> \E e \in infos(ScopeInfo) : e.key.scope = "lib")
    BY DEF InfoReachesAll
  <2> DEFINE k == p.key
             infos(n) == {e \in Entries : e.part = "info" /\ e.sample.name = n
                                            /\ e.key.resource = k.resource}
  <2>1. /\ k \in Keys /\ k.resource \in DOMAIN nodeResources
        /\ Describes(k, families[k], families[k].groups[p.ls], p)
    BY SentFromGroup
  <2>2. ASSUME NEW n PROVE infos(n) = {appended[i] : i \in Infos(appended, n, k.resource)}
    BY DEF Entries, Infos, Tells
  <2>3. p.resource = {appended[i].sample.attr : i \in Infos(appended, TargetInfo, k.resource)}
    BY <2>1 DEF Describes, AppInv, Informed, AttrRight
  <2>4. p.resource = {e.sample.attr : e \in infos(TargetInfo)}
    <3> DEFINE I == Infos(appended, TargetInfo, k.resource)
               E == infos(TargetInfo)
    <3>1. E = {appended[i] : i \in I} /\ p.resource = {appended[i].sample.attr : i \in I}
      BY <2>2, <2>3
    <3> HIDE DEF I, E
    <3>2. {e.sample.attr : e \in E} = {appended[i].sample.attr : i \in I}
      BY <3>1
    <3> QED
      BY <3>1, <3>2 DEF E
  <2>5. ASSUME k.scope = "lib"
        PROVE  p.scope = "info" <=> \E e \in infos(ScopeInfo) : e.key.scope = "lib"
    <3>1. LibRight(appended, scopeAttributes, k.resource)
      BY <2>1 DEF AppInv, Informed, Keys
    <3>2. p.scope = "info" <=> /\ <<k.resource, "lib">> \in DOMAIN scopeAttributes
                               /\ scopeAttributes[<<k.resource, "lib">>] = "info"
      BY <2>1, <2>5, NoLabelIsNone DEF Describes
    <3>3. p.scope = "info"
            <=> \E i \in Infos(appended, ScopeInfo, k.resource) : appended[i].key.scope = "lib"
      BY <3>1, <3>2 DEF LibRight
    <3>4. infos(ScopeInfo) = {appended[i] : i \in Infos(appended, ScopeInfo, k.resource)}
      BY <2>2
    <3> HIDE DEF infos, k
    <3> QED
      BY <3>3, <3>4
  <2> QED
    BY <2>4, <2>5
<1> QED
  BY <1>1, AppenderInductive, PTL

-----------------------------------------------------------------------------
(* Sorted boundaries.                                                       *)

\* The points that come no later than a point when they are sorted.
UpTo(pts, i) ==
    {j \in DOMAIN pts : \/ pts[j].boundary < pts[i].boundary
                        \/ pts[j].boundary = pts[i].boundary /\ j <= i}

\* Ranks are positions, each taken once.
LEMMA RankRight ==
    ASSUME NEW pts \in Seq([boundary : Boundary, value : Values]), NEW i \in DOMAIN pts
    PROVE  /\ Rank(pts, i) \in 1..Len(pts)
           /\ \A j \in DOMAIN pts : Rank(pts, j) = Rank(pts, i) => j = i
<1>1. DOMAIN pts = 1..Len(pts) /\ Len(pts) \in Nat
  BY LenProperties
<1>2. \A j \in DOMAIN pts : pts[j].boundary \in Int
  <2>1. \A j \in DOMAIN pts : pts[j] \in [boundary : Boundary, value : Values]
    BY <1>1, ElementOfSeq
  <2> QED
    BY <2>1 DEF Boundary, None
<1>3. ASSUME NEW j \in DOMAIN pts
      PROVE  /\ UpTo(pts, j) \subseteq 1..Len(pts) /\ j \in UpTo(pts, j)
             /\ IsFiniteSet(UpTo(pts, j))
             /\ Rank(pts, j) = Cardinality(UpTo(pts, j))
  <2>1. UpTo(pts, j) \subseteq 1..Len(pts) /\ j \in UpTo(pts, j)
    BY <1>1, <1>2 DEF UpTo
  <2>2. IsFiniteSet(1..Len(pts))
    BY <1>1, FS_Interval
  <2> QED
    BY <2>1, <2>2, FS_Subset DEF Rank, UpTo
<1>4. Rank(pts, i) \in 1..Len(pts)
  <2>1. IsFiniteSet(1..Len(pts)) /\ Cardinality(1..Len(pts)) = Len(pts)
    <3>1. ASSUME NEW n \in Nat PROVE IsFiniteSet(1..n) /\ Cardinality(1..n) = n
      <4>1. /\ IsFiniteSet(1..n)
            /\ Cardinality(1..n) = IF 1 > n THEN 0 ELSE n - 1 + 1
        BY FS_Interval
      <4> QED
        BY <4>1
    <3> QED
      BY <1>1, <3>1
  <2>2. Cardinality(UpTo(pts, i)) <= Len(pts) /\ Cardinality(UpTo(pts, i)) \in Nat
    BY <1>3, <2>1, FS_Subset, FS_CardinalityType
  <2>3. Cardinality(UpTo(pts, i)) # 0
    BY <1>3, FS_EmptySet
  <2> QED
    BY <1>1, <1>3, <2>2, <2>3
<1>5. ASSUME NEW j \in DOMAIN pts, NEW l \in DOMAIN pts, l # j, l \in UpTo(pts, j)
      PROVE  Rank(pts, l) # Rank(pts, j)
  <2>1. UpTo(pts, l) \subseteq UpTo(pts, j) /\ j \notin UpTo(pts, l)
    BY <1>1, <1>2, <1>5 DEF UpTo
  <2>2. UpTo(pts, l) # UpTo(pts, j)
    BY <1>3, <2>1
  <2> QED
    BY <1>3, <2>1, <2>2, FS_Subset
<1>6. ASSUME NEW j \in DOMAIN pts, j # i PROVE Rank(pts, j) # Rank(pts, i)
  <2>1. j \in UpTo(pts, i) \/ i \in UpTo(pts, j)
    BY <1>1, <1>2 DEF UpTo
  <2> QED
    BY <1>5, <1>6, <2>1
<1> QED
  BY <1>4, <1>6

\* sortPoints loses no point.
LEMMA SortedHasAll ==
    ASSUME NEW mg, mg.points \in Seq([boundary : Boundary, value : Values]),
           NEW j \in DOMAIN mg.points
    PROVE  /\ DOMAIN sortPoints(mg) = 1..Len(mg.points)
           /\ \E m \in 1..Len(mg.points) : sortPoints(mg)[m] = mg.points[j]
<1> DEFINE pts == mg.points
           At(k) == CHOOSE i \in DOMAIN pts : Rank(pts, i) = k
           m == Rank(pts, j)
<1>1. m \in 1..Len(pts) /\ \A i \in DOMAIN pts : Rank(pts, i) = m => i = j
  BY RankRight
<1>2. At(m) = j
  BY <1>1
<1>3. sortPoints(mg) = [k \in 1..Len(pts) |-> pts[At(k)]]
  BY DEF sortPoints
<1> HIDE DEF At, m, pts
<1>4. DOMAIN sortPoints(mg) = 1..Len(pts) /\ sortPoints(mg)[m] = pts[j]
  BY <1>1, <1>2, <1>3
<1> QED
  BY <1>1, <1>4 DEF pts

\* The boundaries of a classic histogram's point are those of its group.
LEMMA BoundsComplete ==
    ASSUME NEW mg, mg.points \in Seq([boundary : Boundary, value : Values]),
           NEW j \in DOMAIN mg.points
    PROVE  \/ mg.points[j].boundary = Inf
           \/ \E i \in DOMAIN ClassicBuckets(mg).bounds :
                 ClassicBuckets(mg).bounds[i] = mg.points[j].boundary
<1> DEFINE pts == sortPoints(mg)
           n == IF pts # <<>> /\ Last(pts).boundary = Inf THEN Len(pts) - 1 ELSE Len(pts)
<1>1. PICK m \in 1..Len(mg.points) : pts[m] = mg.points[j]
  BY SortedHasAll
<1>2. DOMAIN pts = 1..Len(mg.points) /\ Len(mg.points) \in Nat
  BY SortedHasAll, LenProperties
<1>3. Len(pts) = Len(mg.points)
  BY <1>2 DEF sortPoints
<1>4. ClassicBuckets(mg).bounds = [i \in 1..n |-> pts[i].boundary]
  BY DEF ClassicBuckets
<1> HIDE DEF pts
<1>5. CASE m \in 1..n
  BY <1>1, <1>4, <1>5
<1>6. CASE m \notin 1..n
  <2>1. m = Len(pts) /\ Last(pts).boundary = Inf
    BY <1>2, <1>3, <1>6
  <2> QED
    BY <1>1, <2>1 DEF Last
<1> QED
  BY <1>5, <1>6

-----------------------------------------------------------------------------
(* The points there are: staleness markers and samples.                     *)

\* toNumberDataPoint: a group with a value gives a point, stale for a marker.
LEMMA NumberPoint ==
    ASSUME NEW k, NEW mf, NEW mg, mf.mtype \notin {"histogram", "summary", "exponential"},
           mg.value # None
    PROVE  \E p \in GroupPoints(k, mf, mg) :
              IF mg.value = Stale THEN p.stale ELSE p.value = mg.value
<1> DEFINE p == [Point(k, mf, mg) EXCEPT
                   !.stale = mg.value = Stale, !.value = IF mg.value = Stale THEN 0 ELSE mg.value]
<1>1. p \in GroupPoints(k, mf, mg)
  BY DEF GroupPoints, toNumberDataPoint
<1>2. IF mg.value = Stale THEN p.stale ELSE p.value = mg.value
  BY DEF Point
<1> QED
  BY <1>1, <1>2

\* toExponentialHistogramDataPoints: a group with a count gives a point with it, stale
\* for a marker.
LEMMA ExponentialPoint ==
    ASSUME NEW k, NEW mf, NEW mg, mf.mtype = "exponential", mg.count # None
    PROVE  \E p \in GroupPoints(k, mf, mg) :
              IF mg.sum = Stale THEN p.stale ELSE p.count = mg.count
<1>1. CASE mg.sum = Stale
  <2> DEFINE p == [Point(k, mf, mg) EXCEPT !.stale = TRUE]
  <2>1. p \in GroupPoints(k, mf, mg)
    BY <1>1 DEF GroupPoints, toExponentialHistogramDataPoints
  <2>2. p.stale
    BY DEF Point
  <2> QED
    BY <1>1, <2>1, <2>2
<1>2. CASE mg.sum # Stale
  <2> DEFINE o == IF mg.h.spans = <<>> THEN 0 ELSE Head(mg.h.spans).offset - 1
             b == IF mg.counts = "integer" THEN convertDeltaBuckets(mg.h)
                  ELSE convertAbsoluteBuckets(mg.h)
             p == [Point(k, mf, mg) EXCEPT !.count = mg.count, !.sum = mg.sum,
                                           !.offset = o, !.buckets = b]
  <2>1. p \in GroupPoints(k, mf, mg)
    BY <1>2 DEF GroupPoints, toExponentialHistogramDataPoints
  <2> HIDE DEF o, b
  <2>2. p.count = mg.count
    BY DEF Point
  <2> QED
    BY <1>2, <2>1, <2>2
<1> QED
  BY <1>1, <1>2

\* The numbers of a histogram's or a summary's point.
Totals(mg, p) ==
    \/ p.stale
    \/ p.count = mg.count /\ (mg.sum # None => p.sum = mg.sum)

\* Its boundaries, but for the infinite one, are all there.
Bounded(mg, p) ==
    \A j \in DOMAIN mg.points :
        \/ mg.points[j].boundary = Inf
        \/ \E x \in DOMAIN p.bounds : p.bounds[x] = mg.points[j].boundary

\* The quantiles of a summary's point are those of its group, with their values.
Quantiled(mg, p) ==
    \A j \in DOMAIN mg.points : \E x \in DOMAIN p.bounds :
        /\ p.bounds[x].boundary = mg.points[j].boundary
        /\ p.stale \/ p.bounds[x].value = mg.points[j].value

\* toDistributionPoint: a group with a count gives a point with its totals and, for
\* classic buckets, all boundaries.
LEMMA DistributionPoint ==
    ASSUME NEW k, NEW mf, NEW mg, mf.mtype = "histogram", mg.count # None,
           ~ (mg.nhcb /\ mg.h.custom = 0),
           mg.points \in Seq([boundary : Boundary, value : Values])
    PROVE  \E p \in GroupPoints(k, mf, mg) :
              Totals(mg, p) /\ (mg.nhcb = FALSE => Bounded(mg, p))
<1> DEFINE b == IF mg.nhcb THEN CustomBuckets(mg) ELSE ClassicBuckets(mg)
           st == IsStale(mg)
           c == IF IsStale(mg) THEN 0 ELSE mg.count
           t == IF IsStale(mg) \/ mg.sum = None THEN 0 ELSE mg.sum
           p == [Point(k, mf, mg) EXCEPT !.stale = st, !.bounds = b.bounds,
                   !.buckets = b.buckets, !.count = c, !.sum = t]
<1>1. p \in GroupPoints(k, mf, mg)
  BY DEF GroupPoints, toDistributionPoint
<1>2. st \/ (c = mg.count /\ (mg.sum # None => t = mg.sum))
  BY DEF IsStale
<1>3. mg.nhcb = FALSE => b.bounds = ClassicBuckets(mg).bounds
  OBVIOUS
<1> HIDE DEF b, st, c, t
<1>4. p.stale = st /\ p.bounds = b.bounds /\ p.count = c /\ p.sum = t
  BY DEF Point
<1> HIDE DEF p
<1>5. Totals(mg, p)
  BY <1>2, <1>4 DEF Totals
<1>6. ASSUME mg.nhcb = FALSE PROVE Bounded(mg, p)
  <2>1. p.bounds = ClassicBuckets(mg).bounds
    BY <1>3, <1>4, <1>6
  <2>2. ASSUME NEW j \in DOMAIN mg.points
        PROVE  \/ mg.points[j].boundary = Inf
               \/ \E i \in DOMAIN p.bounds : p.bounds[i] = mg.points[j].boundary
    BY <2>1, BoundsComplete
  <2> QED
    BY <2>2 DEF Bounded
<1> QED
  BY <1>1, <1>5, <1>6

\* toSummaryPoint: a group with a count gives a point with all quantiles.
LEMMA SummaryPoint ==
    ASSUME NEW k, NEW mf, NEW mg, mf.mtype = "summary", mg.count # None,
           mg.points \in Seq([boundary : Boundary, value : Values])
    PROVE  \E p \in GroupPoints(k, mf, mg) : Totals(mg, p) /\ Quantiled(mg, p)
<1> DEFINE b == [i \in DOMAIN mg.points |->
                   [sortPoints(mg)[i] EXCEPT !.value = IF IsStale(mg) THEN 0 ELSE @]]
           st == IsStale(mg)
           c == IF IsStale(mg) THEN 0 ELSE mg.count
           t == IF IsStale(mg) \/ mg.sum = None THEN 0 ELSE mg.sum
           p == [Point(k, mf, mg) EXCEPT !.stale = st, !.bounds = b, !.count = c, !.sum = t]
<1>1. p \in GroupPoints(k, mf, mg)
  BY DEF GroupPoints, toSummaryPoint
<1>2. st \/ (c = mg.count /\ (mg.sum # None => t = mg.sum))
  BY DEF IsStale
<1>3. ASSUME NEW j \in DOMAIN mg.points
      PROVE  \E i \in DOMAIN b : /\ b[i].boundary = mg.points[j].boundary
                                 /\ st \/ b[i].value = mg.points[j].value
  <2>1. PICK m \in 1..Len(mg.points) : sortPoints(mg)[m] = mg.points[j]
    BY SortedHasAll
  <2>2. m \in DOMAIN mg.points /\ mg.points[j] \in [boundary : Boundary, value : Values]
    BY LenProperties, ElementOfSeq
  <2>3. b[m] = [mg.points[j] EXCEPT !.value = IF IsStale(mg) THEN 0 ELSE @]
    BY <2>1, <2>2
  <2>4. b[m].boundary = mg.points[j].boundary /\ (st \/ b[m].value = mg.points[j].value)
    BY <2>2, <2>3
  <2>5. DOMAIN b = DOMAIN mg.points
    OBVIOUS
  <2> HIDE DEF b
  <2> QED
    BY <2>2, <2>4, <2>5
<1> HIDE DEF b, st, c, t
<1>4. p.stale = st /\ p.bounds = b /\ p.count = c /\ p.sum = t
  BY DEF Point
<1> HIDE DEF p
<1>5. Totals(mg, p)
  BY <1>2, <1>4 DEF Totals
<1>6. Quantiled(mg, p)
  BY <1>3, <1>4 DEF Quantiled
<1> QED
  BY <1>1, <1>5, <1>6

\* The points of a group are sent.
LEMMA GroupSent ==
    ASSUME AppInv, Done, ~ isNew, NEW k \in DOMAIN families, NEW r \in DOMAIN families[k].groups,
           NEW p \in GroupPoints(k, families[k], families[k].groups[r])
    PROVE  p \in sent /\ p.key = k /\ p.ls = r /\ p.mtype = families[k].mtype
<1>1. k.resource \in DOMAIN nodeResources /\ families[k].groups[r].ls = r
  BY DEF AppInv, Typed, Formed
<1>2. p \in getMetrics
  BY <1>1, MetricsAreGroups
<1>3. p \in sent
  BY <1>2 DEF AppInv, Delivered
<1>4. Describes(k, families[k], families[k].groups[r], p)
  BY PointDescribes
<1> QED
  BY <1>1, <1>3, <1>4 DEF Describes

\* With a marker that was appended the transaction is no longer new.
LEMMA AppendedIsOld ==
    ASSUME AppInv, NEW e \in Entries, e.part \in Parts PROVE ~ isNew
BY DEF AppInv, Fresh, Entries, Parts

\* The types of a group.
LEMMA GroupTyped ==
    ASSUME AppInv, NEW k \in DOMAIN families, NEW r \in DOMAIN families[k].groups
    PROVE  /\ families[k].groups[r] \in Groups /\ k \in Keys
           /\ families[k].groups[r].points \in Seq([boundary : Boundary, value : Values])
           /\ families[k].groups[r].nhcb \in BOOLEAN
<1>1. families[k] \in Families /\ k \in Keys
  BY InMap DEF AppInv, Typed
<1>2. families[k].groups \in Maps(Refs, Groups)
  BY <1>1, FamilyFields
<1>3. families[k].groups[r] \in Groups
  BY <1>2, InMap
<1> QED
  BY <1>1, <1>3 DEF Groups

\* The type of a family that nothing displaced.
LEMMA KindOfKey ==
    ASSUME NEW k \in Keys, NEW mf, Canonical(mf, k)
    PROVE  /\ k.native => mf.mtype \in {"histogram", "exponential"}
           /\ ~ k.native => mf.mtype # "exponential"
<1>1. PICK b \in BOOLEAN : mf.mtype = newMetricFamily(k.name, k.native, b).mtype
  BY DEF Canonical
<1>2. CASE k.native
  <2>1. mf.mtype = convToMetricType("histogram", ~ b)
    BY <1>1, <1>2 DEF newMetricFamily, Keys
  <2> QED
    BY <1>2, <2>1, Zenon DEF convToMetricType
<1>3. CASE ~ k.native
  <2>1. PICK t : mf.mtype = convToMetricType(t, FALSE)
    BY <1>1, <1>3 DEF newMetricFamily, Keys
  <2>2. convToMetricType(t, FALSE) # "exponential"
    BY DEF convToMetricType
  <2> QED
    BY <1>3, <2>1, <2>2
<1> QED
  BY <1>2, <1>3

\* Everything the invariant says of a sample whose family was not displaced.
Settled(e) ==
    /\ e.part \in Parts /\ e.sample \in Samples /\ e.sample.val # None
    /\ e.key \in DOMAIN families /\ e.key \in Keys /\ e.ref \in DOMAIN families[e.key].groups
    /\ Tracks(appended, e.key, e.ref, families[e.key].mtype, families[e.key].groups[e.ref])
    /\ \A i \in DOMAIN appended : appended[i].key = e.key /\ appended[i].part \in Parts =>
          EntryRight(appended, appended[i], families[e.key].mtype)
    /\ EntryRight(appended, e, families[e.key].mtype)
    /\ Canonical(families[e.key], e.key)
    /\ e.key.native /\ families[e.key].mtype = "histogram" =>
          \E x \in Entries : x.key = e.key /\ IsNHCB(x.sample)

\* The invariant settles every sample that was not displaced.
LEMMA UndisplacedSettled ==
    ASSUME AppInv, NEW e \in Entries, e.part \in Parts, ~ Displaced(e)
    PROVE  Settled(e)
<1>1. /\ Good(appended, e.key) /\ e.key \in DOMAIN families
      /\ FamilyRight(appended, e.key, families[e.key])
      /\ e.ref \in DOMAIN families[e.key].groups
  BY UndisplacedGood
<1>2. e.sample \in Samples /\ e.key \in Keys
  BY EntriesTyped
<1>3. e.sample.val # None
  BY <1>2 DEF Samples, Stale, None
<1>4. /\ Tracks(appended, e.key, e.ref, families[e.key].mtype, families[e.key].groups[e.ref])
      /\ Canonical(families[e.key], e.key)
      /\ \A i \in DOMAIN appended : appended[i].key = e.key /\ appended[i].part \in Parts =>
            EntryRight(appended, appended[i], families[e.key].mtype)
  BY <1>1 DEF FamilyRight
<1>5. EntryRight(appended, e, families[e.key].mtype)
  BY <1>4 DEF Entries
<1>6. e.key.native /\ families[e.key].mtype = "histogram" =>
        \E x \in Entries : x.key = e.key /\ IsNHCB(x.sample)
  BY <1>1 DEF FamilyRight, Entries
<1> QED
  BY <1>1, <1>2, <1>3, <1>4, <1>5, <1>6 DEF Settled

\* The value of a group is that of no earlier sample.
LEMMA Latest ==
    ASSUME NEW app, NEW k, NEW r, NEW P, NEW v, Holds(app, k, r, P, v),
           NEW i \in Of(app, k, r), app[i].part \in P
    PROVE  \E j \in Of(app, k, r) : app[j].part \in P /\ v = app[j].sample.val /\ i <= j
BY DEF Holds

\* A name's own metadata tells a stale native histogram.
LEMMA MarkerIsNative ==
    ASSUME NEW s, s.val = Stale, HasMetadata(s.name),
           metadataForMetric(s.name).type = "histogram"
    PROVE  IsNative(s)
BY DEF IsNative, detectAndStoreNativeHistogramStaleness, metadataForMetric, Metadata

\* A marker that is the only sample of its series but for creation times.
Lone(e) ==
    /\ e.sample.val = Stale /\ e.sample.kind = "number" /\ e.part # "created"
    /\ metadataForMetric(e.sample.name).type # "summary"
    /\ metadataForMetric(e.sample.name).type = "histogram" => HasMetadata(e.sample.name)
    /\ \A x \in Entries \ {e} : x.key = e.key =>
          /\ x.sample.kind # "nhcb"
          /\ x.ref = e.ref => x.part = "created" /\ x.sample.ts = e.sample.ts

\* A marker without other samples of its series is stored where it can be seen: as the
\* value of a number, or in an exponential histogram.
LEMMA LoneMarkerStored ==
    ASSUME AppInv, NEW e \in Entries, Settled(e), Lone(e)
    PROVE  LET mtype == families[e.key].mtype
           IN  \/ e.part = "histogram" /\ mtype = "exponential"
               \/ e.part = "value" /\ mtype \notin {"histogram", "summary", "exponential"}
<1> DEFINE mtype == families[e.key].mtype
<1>1. /\ EntryRight(appended, e, mtype) /\ e.part \in Parts \ {"created"} /\ e.key \in Keys
      /\ Canonical(families[e.key], e.key)
  BY DEF Settled, Lone
<1>2. ~ IsNHCB(e.sample)
  BY DEF Lone, IsNHCB
<1>3. \A i \in Of(appended, e.key, e.ref) :
        appended[i] = e \/ (appended[i].part = "created" /\ appended[i].sample.ts = e.sample.ts)
  BY DEF Lone, Of, Entries
<1>4. ~ \E j \in Of(appended, e.key, e.ref) : appended[j].sample.ts # e.sample.ts
  BY <1>3
<1>5. e.key.native = IsNative(e.sample)
  BY <1>1 DEF EntryRight
<1>6. /\ e.key.native => mtype \in {"histogram", "exponential"}
      /\ ~ e.key.native => mtype # "exponential"
  BY <1>1, KindOfKey
<1>7. CASE IsNative(e.sample)
  <2>1. mtype = "exponential"
    <3>1. ~ \E x \in Entries : x.key = e.key /\ IsNHCB(x.sample)
      BY <1>2 DEF Lone, IsNHCB
    <3> QED
      BY <1>5, <1>6, <1>7, <3>1 DEF Settled
  <2>2. e.part \in {"histogram", "error"}
    BY <1>1, <1>7 DEF EntryRight
  <2>3. e.part # "error"
    <3> SUFFICES ASSUME e.part = "error" PROVE FALSE
      OBVIOUS
    <3>1. ~ \E j \in Of(appended, e.key, e.ref) : appended[j].part = "histogram"
      BY <1>3
    <3> QED
      BY <1>1, <1>2, <1>4, <1>7, <2>1, <3>1 DEF EntryRight
  <2> QED
    BY <2>1, <2>2, <2>3
<1>8. CASE ~ IsNative(e.sample)
  <2>1. mtype \notin {"histogram", "summary"}
    <3> SUFFICES ASSUME mtype \in {"histogram", "summary"} PROVE FALSE
      OBVIOUS
    <3>1. metadataForMetric(e.sample.name).type = mtype
      BY <1>1, <1>8 DEF EntryRight
    <3>2. mtype = "histogram" /\ HasMetadata(e.sample.name)
      BY <3>1 DEF Lone
    <3> QED
      BY <1>8, <3>1, <3>2, MarkerIsNative DEF Lone
  <2>2. mtype # "exponential"
    BY <1>5, <1>6, <1>8
  <2>3. e.part # "error"
    BY <1>1, <1>4, <1>8, <2>1 DEF EntryRight
  <2>4. e.part \notin {"histogram", "count", "sum", "point", "ignored"}
    BY <1>1, <1>8, <2>1, <2>2 DEF EntryRight
  <2> QED
    BY <1>1, <2>1, <2>2, <2>3, <2>4 DEF Parts
<1> QED
  BY <1>7, <1>8

\* A marker that ends a gauge, a counter or a native histogram is sent as a point
\* without a recorded value (detectAndStoreNativeHistogramStaleness, toNumberDataPoint,
\* toExponentialHistogramDataPoints).
THEOREM StaleMarkersSeen == Spec => []StaleSeen
<1>1. AppInv => StaleSeen
  <2> SUFFICES ASSUME AppInv, Done, NEW e \in Entries, Lone(e),
                      e.part \notin {"failed", "info", "created"}, ~ Displaced(e)
               PROVE  \E p \in sent : In(e, p) /\ p.stale
    BY DEF StaleSeen, Lone
  <2> DEFINE k == e.key
             mf == families[k]
             mg == mf.groups[e.ref]
  <2>1. e.part \in Parts
    BY EntriesTyped
  <2>2. Settled(e) /\ ~ isNew
    BY <2>1, UndisplacedSettled, AppendedIsOld
  <2>3. \/ e.part = "histogram" /\ mf.mtype = "exponential"
        \/ e.part = "value" /\ mf.mtype \notin {"histogram", "summary", "exponential"}
    BY <2>2, LoneMarkerStored
  <2>4. /\ k \in DOMAIN families /\ e.ref \in DOMAIN mf.groups
        /\ Tracks(appended, k, e.ref, mf.mtype, mg)
    BY <2>2 DEF Settled
  <2>5. PICK i \in DOMAIN appended : e = appended[i]
    BY DEF Entries
  <2>6. i \in Of(appended, k, e.ref)
    BY <2>5 DEF Of
  <2>7. ASSUME NEW P, NEW v, Holds(appended, k, e.ref, P, v), e.part \in P, "created" \notin P
        PROVE  v = Stale
    <3>1. PICK j \in Of(appended, k, e.ref) : appended[j].part \in P /\ v = appended[j].sample.val
      BY <2>5, <2>6, <2>7, Latest
    <3>2. appended[j] = e
      BY <2>7, <3>1 DEF Lone, Of, Entries
    <3> QED
      BY <3>1, <3>2 DEF Lone
  <2>8. ASSUME NEW p \in GroupPoints(k, mf, mg) PROVE p \in sent /\ In(e, p)
    BY <2>2, <2>4, GroupSent DEF In
  <2>9. CASE e.part = "histogram" /\ mf.mtype = "exponential"
    <3>1. mg.count = Stale /\ mg.sum = Stale
      BY <2>4, <2>7, <2>9 DEF Tracks
    <3>2. \E p \in GroupPoints(k, mf, mg) : mg.sum = Stale => p.stale
      BY <2>9, <3>1, ExponentialPoint DEF Stale, None
    <3> QED
      BY <2>8, <3>1, <3>2
  <2>10. CASE e.part = "value" /\ mf.mtype \notin {"histogram", "summary", "exponential"}
    <3>1. mg.value = Stale
      BY <2>4, <2>7, <2>10 DEF Tracks
    <3>2. \E p \in GroupPoints(k, mf, mg) : IF mg.value = Stale THEN p.stale ELSE p.value = mg.value
      BY <2>10, <3>1, NumberPoint DEF Stale, None
    <3> QED
      BY <2>8, <3>1, <3>2
  <2> QED
    BY <2>3, <2>9, <2>10
<1> QED
  BY <1>1, AppenderInductive, PTL

\* Why a sample may be missing from the batch: a later one of its series took its
\* place, or nothing made a point of its group.
Excused(i, e) ==
    \/ e.part # "point" /\ \E j \in Of(appended, e.key, e.ref) : j > i /\ appended[j].part = e.part
    \/ e.part \in {"sum", "point"}
         /\ \A j \in Of(appended, e.key, e.ref) : appended[j].part # "count"
    \/ e.part = "histogram"
         /\ \E j \in Of(appended, e.key, e.ref) : IsNHCB(appended[j].sample)
                                                /\ appended[j].sample.h.custom = 0

\* A sample's value is in its group unless a later sample replaced it.
LEMMA LatestOrReplaced ==
    ASSUME AppInv, NEW i \in DOMAIN appended, NEW e, e = appended[i], NEW P, NEW v,
           Holds(appended, e.key, e.ref, P, v), e.part \in P, e.part # "point",
           \A j \in Of(appended, e.key, e.ref) : appended[j].part \in P => appended[j].part = e.part
    PROVE  v = e.sample.val \/ Excused(i, e)
<1>1. i \in Of(appended, e.key, e.ref)
  BY DEF Of
<1>2. PICK j \in Of(appended, e.key, e.ref) :
        appended[j].part \in P /\ v = appended[j].sample.val /\ i <= j
  BY <1>1, Latest
<1>3. CASE j = i
  BY <1>2, <1>3
<1>4. CASE j # i
  <2>1. i \in Nat /\ j \in Nat
    BY LenProperties DEF AppInv, Typed, Of
  <2>2. j > i
    BY <1>2, <1>4, <2>1
  <2>3. appended[j].part = e.part
    BY <1>2
  <2> QED
    BY <1>2, <2>2, <2>3 DEF Excused
<1> QED
  BY <1>3, <1>4

\* A number is carried by the point of its group.
LEMMA ValueSent ==
    ASSUME AppInv, Done, NEW i \in DOMAIN appended, NEW e, e = appended[i], e \in Entries,
           Settled(e), e.part = "value"
    PROVE  (\E p \in sent : In(e, p) /\ Carries(p, e)) \/ Excused(i, e)
<1> DEFINE k == e.key
           mf == families[k]
           mg == mf.groups[e.ref]
<1>1. /\ k \in DOMAIN families /\ e.ref \in DOMAIN mf.groups
      /\ Holds(appended, k, e.ref, {"value"}, mg.value)
      /\ mf.mtype \notin {"histogram", "summary", "exponential"} /\ e.sample.val # None
  BY DEF Settled, Tracks, EntryRight
<1>2. mg.value = e.sample.val \/ Excused(i, e)
  <2>1. \A j \in Of(appended, e.key, e.ref) :
          appended[j].part \in {"value"} => appended[j].part = e.part
    OBVIOUS
  <2> QED
    BY <1>1, <2>1, LatestOrReplaced
<1>3. ASSUME mg.value = e.sample.val PROVE \E p \in sent : In(e, p) /\ Carries(p, e)
  <2>1. PICK p \in GroupPoints(k, mf, mg) :
          IF mg.value = Stale THEN p.stale ELSE p.value = mg.value
    BY <1>1, <1>3, NumberPoint
  <2>2. ~ isNew
    BY AppendedIsOld DEF Parts
  <2>3. p \in sent /\ In(e, p)
    BY <1>1, <2>2, GroupSent DEF In
  <2>4. Carries(p, e)
    BY <1>3, <2>1 DEF Carries
  <2> QED
    BY <2>3, <2>4
<1> QED
  BY <1>2, <1>3

\* The count, the sum and the boundaries are carried by the point of a histogram or
\* a summary.
LEMMA PartSent ==
    ASSUME AppInv, Done, NEW i \in DOMAIN appended, NEW e, e = appended[i], e \in Entries,
           Settled(e), e.part \in {"count", "sum", "point"}
    PROVE  (\E p \in sent : In(e, p) /\ Carries(p, e)) \/ Excused(i, e)
<1> DEFINE k == e.key
           mf == families[k]
           mg == mf.groups[e.ref]
<1>1. /\ k \in DOMAIN families /\ e.ref \in DOMAIN mf.groups /\ e.sample.val # None
      /\ Tracks(appended, k, e.ref, mf.mtype, mg)
      /\ mf.mtype \in {"histogram", "summary"} /\ EntryRight(appended, e, mf.mtype)
  BY DEF Settled, EntryRight
<1>2. ~ k.native
  BY <1>1 DEF EntryRight
<1>3. \A j \in Of(appended, k, e.ref) : appended[j].part # "histogram"
  <2> SUFFICES ASSUME NEW j \in Of(appended, k, e.ref), appended[j].part = "histogram" PROVE FALSE
    OBVIOUS
  <2>1. EntryRight(appended, appended[j], mf.mtype) /\ appended[j].key = k
    BY DEF Settled, Of, Parts
  <2> QED
    BY <1>2, <2>1 DEF EntryRight
<1>4. mg.nhcb = FALSE /\ mg.points \in Seq([boundary : Boundary, value : Values])
  BY <1>1, <1>2, GroupTyped DEF Tracks
<1>5. CASE mg.count = None
  <2>1. \A j \in Of(appended, k, e.ref) : appended[j].part # "count"
    <3> SUFFICES ASSUME NEW j \in Of(appended, k, e.ref), appended[j].part = "count" PROVE FALSE
      OBVIOUS
    <3>1. PICK l \in Of(appended, k, e.ref) : mg.count = appended[l].sample.val
      <4>1. Holds(appended, k, e.ref, {"count", "histogram"}, mg.count)
        BY <1>1 DEF Tracks
      <4> QED
        BY <4>1, Latest
    <3>2. appended[l] \in Entries
      BY DEF Of, Entries
    <3>3. appended[l].sample.val # None
      BY <3>2, EntriesTyped DEF Samples, Stale, None
    <3> QED
      BY <1>5, <3>1, <3>3
  <2>2. e.part # "count"
    BY <2>1 DEF Of
  <2> QED
    BY <2>1, <2>2 DEF Excused
<1>6. CASE mg.count # None
  <2>1. ~ isNew
    BY AppendedIsOld DEF Parts
  <2>2. PICK p \in GroupPoints(k, mf, mg) :
           Totals(mg, p) /\ IF mf.mtype = "summary" THEN Quantiled(mg, p) ELSE Bounded(mg, p)
    <3>1. CASE mf.mtype = "histogram"
      BY <1>4, <1>6, <3>1, DistributionPoint
    <3>2. CASE mf.mtype = "summary"
      BY <1>4, <1>6, <3>2, SummaryPoint
    <3> QED
      BY <1>1, <3>1, <3>2
  <2>3. p \in sent /\ In(e, p) /\ p.mtype = mf.mtype
    BY <1>1, <2>1, GroupSent DEF In
  <2>4. CASE e.part = "count"
    <3>1. mg.count = e.sample.val \/ Excused(i, e)
      <4>1. Holds(appended, k, e.ref, {"count", "histogram"}, mg.count)
        BY <1>1 DEF Tracks
      <4> QED
        BY <1>3, <2>4, <4>1, LatestOrReplaced
    <3>2. mg.count = e.sample.val => Carries(p, e)
      BY <2>2, <2>4 DEF Carries, Totals
    <3> QED
      BY <2>3, <3>1, <3>2
  <2>5. CASE e.part = "sum"
    <3>1. mg.sum = e.sample.val \/ Excused(i, e)
      <4>1. Holds(appended, k, e.ref, {"sum", "histogram"}, mg.sum)
        BY <1>1 DEF Tracks
      <4> QED
        BY <1>3, <2>5, <4>1, LatestOrReplaced
    <3>2. mg.sum = e.sample.val => Carries(p, e)
      BY <1>1, <2>2, <2>5 DEF Carries, Totals
    <3> QED
      BY <2>3, <3>1, <3>2
  <2>6. CASE e.part = "point"
    <3>1. PICK j \in DOMAIN mg.points : mg.points[j] = PointOf(mf.mtype, e.sample)
      BY <1>1, <2>6 DEF Tracks, Pointed, Of
    <3>2. /\ mg.points[j].boundary = getBoundary(mf.mtype, e.sample)
          /\ mg.points[j].value = e.sample.val
      BY <3>1 DEF PointOf
    <3>3. ASSUME mf.mtype = "summary" PROVE Carries(p, e)
      <4>1. PICK x \in DOMAIN p.bounds : /\ p.bounds[x].boundary = e.sample.quantile
                                         /\ p.stale \/ p.bounds[x].value = e.sample.val
        BY <2>2, <3>2, <3>3 DEF Quantiled, getBoundary
      <4> QED
        BY <2>3, <2>6, <3>3, <4>1 DEF Carries
    <3>4. ASSUME mf.mtype = "histogram" PROVE Carries(p, e)
      <4>1. e.sample.le = Inf \/ \E x \in DOMAIN p.bounds : p.bounds[x] = e.sample.le
        BY <2>2, <3>2, <3>4 DEF Bounded, getBoundary
      <4> QED
        BY <2>3, <2>6, <3>4, <4>1 DEF Carries
    <3>5. Carries(p, e)
      BY <1>1, <3>3, <3>4
    <3> QED
      BY <2>3, <3>5
  <2> QED
    BY <2>4, <2>5, <2>6
<1> QED
  BY <1>5, <1>6

\* A native histogram makes a point, unless custom buckets without boundaries came
\* with its series.
LEMMA HistogramSent ==
    ASSUME AppInv, Done, NEW i \in DOMAIN appended, NEW e, e = appended[i], e \in Entries,
           Settled(e), e.part = "histogram"
    PROVE  (\E p \in sent : In(e, p) /\ Carries(p, e)) \/ Excused(i, e)
<1> DEFINE k == e.key
           mf == families[k]
           mg == mf.groups[e.ref]
<1>1. /\ k \in DOMAIN families /\ e.ref \in DOMAIN mf.groups
      /\ Tracks(appended, k, e.ref, mf.mtype, mg)
      /\ mf.mtype \in {"histogram", "exponential"}
  BY DEF Settled, EntryRight
<1>2. i \in Of(appended, k, e.ref)
  BY DEF Of
<1>3. mg.count # None
  <2>1. Holds(appended, k, e.ref, {"count", "histogram"}, mg.count)
    BY <1>1 DEF Tracks
  <2>2. PICK l \in Of(appended, k, e.ref) : mg.count = appended[l].sample.val
    BY <1>2, <2>1, Latest
  <2>3. appended[l] \in Entries
    BY DEF Of, Entries
  <2> QED
    BY <2>2, <2>3, EntriesTyped DEF Samples, Stale, None
<1>4. mg.count = e.sample.val \/ Excused(i, e)
  <2>1. Holds(appended, k, e.ref, {"count", "histogram"}, mg.count)
    BY <1>1 DEF Tracks
  <2>2. ASSUME NEW j \in Of(appended, k, e.ref), appended[j].part \in {"count", "histogram"}
        PROVE  appended[j].part = e.part
    <3>1. /\ EntryRight(appended, appended[j], mf.mtype) /\ appended[j].key = k
          /\ EntryRight(appended, e, mf.mtype)
      BY <2>2 DEF Settled, Of, Parts
    <3>2. IsNative(e.sample) /\ k.native = IsNative(e.sample)
      BY <3>1 DEF EntryRight
    <3> QED
      BY <2>2, <3>1, <3>2 DEF EntryRight
  <2> QED
    BY <2>1, <2>2, LatestOrReplaced
<1>5. ASSUME NEW p \in GroupPoints(k, mf, mg), p.stale \/ p.count = mg.count,
             mg.count = e.sample.val
      PROVE  p \in sent /\ In(e, p) /\ Carries(p, e)
  <2>1. ~ isNew
    BY AppendedIsOld DEF Parts
  <2>2. p \in sent /\ In(e, p)
    BY <1>1, <2>1, GroupSent DEF In
  <2>3. Carries(p, e)
    BY <1>5 DEF Carries
  <2> QED
    BY <2>2, <2>3
<1>6. CASE mf.mtype = "exponential"
  <2>1. PICK p \in GroupPoints(k, mf, mg) : IF mg.sum = Stale THEN p.stale ELSE p.count = mg.count
    BY <1>3, <1>6, ExponentialPoint
  <2> QED
    BY <1>4, <1>5, <2>1
<1>7. CASE mf.mtype = "histogram" /\ ~ (mg.nhcb /\ mg.h.custom = 0)
  <2>1. mg.points \in Seq([boundary : Boundary, value : Values])
    BY <1>1, GroupTyped
  <2>2. PICK p \in GroupPoints(k, mf, mg) : Totals(mg, p)
    BY <1>3, <1>7, <2>1, DistributionPoint
  <2> QED
    BY <1>4, <1>5, <2>2 DEF Totals
<1>8. CASE mf.mtype = "histogram" /\ mg.nhcb /\ mg.h.custom = 0
  <2>1. mg.counts # "none"
    BY <1>1, <1>2 DEF Tracks, Sourced
  <2>2. PICK j \in Of(appended, k, e.ref) :
          appended[j].part = "histogram" /\ appended[j].sample.h = mg.h
    BY <1>1, <2>1 DEF Tracks, Sourced, Brought
  <2>3. EntryRight(appended, appended[j], mf.mtype)
    BY <2>2 DEF Settled, Of, Parts
  <2>4. IsNHCB(appended[j].sample)
    BY <1>8, <2>2, <2>3 DEF EntryRight
  <2> QED
    BY <1>8, <2>2, <2>4 DEF Excused
<1> QED
  BY <1>1, <1>6, <1>7, <1>8

\* Every sample that became part of a group whose family keeps its place, each bucket and
\* each quantile for itself, is in the batch that Commit makes, or a later sample of its
\* series replaced it, or nothing made a point of the group.
THEOREM NoSampleLost == Spec => []NothingLost
<1>1. AppInv => NothingLost
  <2> SUFFICES ASSUME AppInv, Done, NEW i \in DOMAIN appended, NEW e, e = appended[i],
                      Taken(i), ~ Displaced(e)
               PROVE  (\E p \in sent : In(e, p) /\ Carries(p, e)) \/ Excused(i, e)
    BY DEF NothingLost, Arrives, Excused, Of, In, IsNHCB
  <2>1. e \in Entries /\ e.part \in Parts
    BY DEF Entries, Parts, Taken
  <2>2. Settled(e)
    BY <2>1, UndisplacedSettled
  <2>3. CASE e.part = "value"
    BY <2>1, <2>2, <2>3, ValueSent
  <2>4. CASE e.part \in {"count", "sum", "point"}
    BY <2>1, <2>2, <2>4, PartSent
  <2>5. CASE e.part = "histogram"
    BY <2>1, <2>2, <2>5, HistogramSent
  <2> QED
    BY <2>3, <2>4, <2>5 DEF Taken
<1> QED
  BY <1>1, AppenderInductive, PTL

-----------------------------------------------------------------------------
(* Induction over the natural numbers, and functions that are defined by it.*)

\* Every non-empty set of numbers has a least one.
LEMMA Least ==
    ASSUME NEW T \in SUBSET Nat, T # {}
    PROVE  \E x \in T : \A y \in T : x <= y
<1> DEFINE R == OpToRel(<, Nat)
<1>1. IsWellFoundedOn(R, Nat)
  BY NatLessThanWellFounded
<1> HIDE DEF R
<1>2. PICK x \in T : \A y \in T : ~ (<<y, x>> \in R)
  BY <1>1, WFMin
<1>3. ASSUME NEW y \in T, y < x PROVE <<y, x>> \in R
  <2>1. <<y, x>> \in Nat \X Nat /\ <<y, x>>[1] = y /\ <<y, x>>[2] = x
    OBVIOUS
  <2> QED
    BY <1>3, <2>1, Zenon DEF R, OpToRel
<1>4. \A y \in T : ~ (y < x)
  BY <1>2, <1>3, Zenon
<1> QED
  BY <1>4

\* Induction on a set of numbers.
LEMMA Induct ==
    ASSUME NEW T, 0 \in T, \A n \in Nat : n \in T => n + 1 \in T
    PROVE  Nat \subseteq T
<1> SUFFICES ASSUME Nat \ T # {} PROVE FALSE
  OBVIOUS
<1>1. PICK x \in Nat \ T : \A y \in Nat \ T : x <= y
  BY Least
<1>2. x - 1 \in Nat /\ x - 1 \in T
  BY <1>1
<1> QED
  BY <1>1, <1>2

\* g is what n steps of F make of base.
Recurs(g, n, base, F) == g[0] = base /\ \A i \in 1..n : g[i] = F[<<g[i - 1], i>>]

\* A recursive function there is, for any number of steps.
LEMMA Recursion ==
    ASSUME NEW X, NEW base \in X, NEW F \in [X \X Nat -> X], NEW m \in Nat
    PROVE  \E g \in [0..m -> X] : Recurs(g, m, base, F)
<1> DEFINE T == {n \in Nat : \E g \in [0..n -> X] : Recurs(g, n, base, F)}
<1>1. 0 \in T
  <2> DEFINE z == [i \in 0..0 |-> base]
  <2>1. z \in [0..0 -> X] /\ Recurs(z, 0, base, F)
    BY DEF Recurs
  <2> HIDE DEF z
  <2> QED
    BY <2>1
<1>2. \A n \in Nat : n \in T => n + 1 \in T
  <2> SUFFICES ASSUME NEW n \in Nat, NEW g \in [0..n -> X], Recurs(g, n, base, F)
               PROVE  n + 1 \in T
    OBVIOUS
  <2> DEFINE h == [i \in 0..(n + 1) |-> IF i = n + 1 THEN F[<<g[n], n + 1>>] ELSE g[i]]
  <2>1. F[<<g[n], n + 1>>] \in X
    <3>1. <<g[n], n + 1>> \in X \X Nat
      OBVIOUS
    <3> QED
      BY <3>1
  <2>2. h \in [0..(n + 1) -> X]
    BY <2>1
  <2>3. Recurs(h, n + 1, base, F)
    <3>1. h[0] = base
      BY DEF Recurs
    <3>2. ASSUME NEW i \in 1..(n + 1) PROVE h[i] = F[<<h[i - 1], i>>]
      <4>1. CASE i = n + 1
        <5>1. h[i - 1] = g[n] /\ h[i] = F[<<g[n], n + 1>>]
          BY <4>1
        <5> QED
          BY <5>1, <4>1
      <4>2. CASE i \in 1..n
        <5>1. h[i] = g[i] /\ h[i - 1] = g[i - 1] /\ g[i] = F[<<g[i - 1], i>>]
          BY <4>2 DEF Recurs
        <5> QED
          BY <5>1
      <4> QED
        BY <4>1, <4>2
    <3> HIDE DEF h
    <3> QED
      BY <3>1, <3>2 DEF Recurs
  <2> HIDE DEF h
  <2>4. \E f \in [0..(n + 1) -> X] : Recurs(f, n + 1, base, F)
    BY <2>2, <2>3, Zenon
  <2> QED
    BY <2>4
<1> HIDE DEF T
<1>3. m \in T
  BY <1>1, <1>2, Induct
<1> QED
  BY <1>3 DEF T

\* The first steps do not depend on how many there are.
LEMMA SameSteps ==
    ASSUME NEW m \in Nat, NEW n \in Nat, m <= n, NEW base, NEW F, NEW g, NEW h,
           Recurs(g, m, base, F), Recurs(h, n, base, F)
    PROVE  \A i \in 0..m : g[i] = h[i]
<1> DEFINE S == {i \in Nat : i > m \/ g[i] = h[i]}
<1>1. 0 \in S
  BY DEF Recurs
<1>2. \A i \in Nat : i \in S => i + 1 \in S
  <2> SUFFICES ASSUME NEW i \in Nat, i + 1 <= m, g[i] = h[i] PROVE g[i + 1] = h[i + 1]
    OBVIOUS
  <2>1. i + 1 \in 1..m /\ i + 1 \in 1..n /\ i + 1 - 1 = i
    OBVIOUS
  <2>2. g[i + 1] = F[<<g[i], i + 1>>] /\ h[i + 1] = F[<<h[i], i + 1>>]
    BY <2>1 DEF Recurs
  <2> QED
    BY <2>2
<1> HIDE DEF S
<1>3. Nat \subseteq S
  BY <1>1, <1>2, Induct
<1> QED
  BY <1>3 DEF S

\* Total adds the counts up one by one.
LEMMA TotalSteps ==
    ASSUME NEW m \in Nat, NEW c, \A i \in 1..m : c[i] \in Int
    PROVE  /\ Total(c, 0) = 0
           /\ \A n \in 0..m : Total(c, n) \in Int
           /\ \A n \in 1..m : Total(c, n) = Total(c, n - 1) + c[n]
<1> DEFINE F == [p \in Int \X Nat |-> IF p[2] \in 1..m THEN p[1] + c[p[2]] ELSE 0]
           S(n) == CHOOSE s : s = [i \in 0..n |-> IF i = 0 THEN 0 ELSE s[i - 1] + c[i]]
<1>1. \A n : Total(c, n) = S(n)[n]
  BY DEF Total
<1>2. F \in [Int \X Nat -> Int] /\ 0 \in Int
  OBVIOUS
<1>3. \A x \in Int, i \in 1..m : <<x, i>> \in Int \X Nat /\ F[<<x, i>>] = x + c[i]
  OBVIOUS
<1> HIDE DEF F
<1>4. ASSUME NEW n \in 0..m PROVE Recurs(S(n), n, 0, F) /\ S(n) \in [0..n -> Int]
  <2>0. n \in Nat
    OBVIOUS
  <2>1. PICK g \in [0..n -> Int] : Recurs(g, n, 0, F)
    BY <1>2, <2>0, Recursion, Zenon
  <2>2. ASSUME NEW i \in 0..n PROVE g[i] = IF i = 0 THEN 0 ELSE g[i - 1] + c[i]
    <3>1. CASE i = 0
      BY <2>1, <3>1 DEF Recurs
    <3>2. CASE i # 0
      <4>1. i \in 1..n /\ i \in 1..m /\ i - 1 \in 0..n
        BY <3>2
      <4>2. g[i - 1] \in Int
        BY <4>1
      <4>3. F[<<g[i - 1], i>>] = g[i - 1] + c[i]
        BY <1>3, <4>1, <4>2
      <4> QED
        BY <2>1, <4>1, <4>3, <3>2 DEF Recurs
    <3> QED
      BY <3>1, <3>2
  <2>3. g = [i \in 0..n |-> IF i = 0 THEN 0 ELSE g[i - 1] + c[i]]
    BY <2>2
  <2>4. S(n) = [i \in 0..n |-> IF i = 0 THEN 0 ELSE S(n)[i - 1] + c[i]]
    BY <2>3, Zenon
  <2> DEFINE s == S(n)
  <2> HIDE DEF s
  <2>5. s = [i \in 0..n |-> IF i = 0 THEN 0 ELSE s[i - 1] + c[i]]
    BY <2>4 DEF s
  <2> HIDE DEF S
  <2>6. s[0] = 0 /\ \A i \in 1..n : s[i] = s[i - 1] + c[i]
    BY <2>5
  <2> DEFINE T == {i \in Nat : i > n \/ s[i] \in Int}
  <2>7. 0 \in T /\ \A i \in Nat : i \in T => i + 1 \in T
    <3> SUFFICES ASSUME NEW i \in Nat, i \in T, i + 1 <= n PROVE s[i + 1] \in Int
      BY <2>6
    <3>1. i + 1 \in 1..n /\ i + 1 - 1 = i /\ s[i] \in Int
      OBVIOUS
    <3> QED
      BY <2>6, <3>1, SMTT(30)
  <2> HIDE DEF T
  <2>8. Nat \subseteq T
    BY <2>7, Induct
  <2>9. \A i \in 0..n : s[i] \in Int
    BY <2>8 DEF T
  <2>10. s \in [0..n -> Int]
    BY <2>5, <2>9
  <2>11. Recurs(s, n, 0, F)
    <3>1. ASSUME NEW i \in 1..n PROVE s[i] = F[<<s[i - 1], i>>]
      <4>1. i - 1 \in 0..n /\ i \in 1..m
        OBVIOUS
      <4>2. s[i - 1] \in Int
        BY <2>9, <4>1
      <4> QED
        BY <1>3, <2>6, <4>1, <4>2
    <3> QED
      BY <2>6, <3>1 DEF Recurs
  <2> QED
    BY <2>10, <2>11 DEF s
<1> HIDE DEF S
<1>5. 0 \in 0..m /\ Total(c, 0) = 0
  BY <1>1, <1>4 DEF Recurs
<1>6. \A n \in 0..m : Total(c, n) \in Int
  BY <1>1, <1>4
<1>7. ASSUME NEW n \in 1..m PROVE Total(c, n) = Total(c, n - 1) + c[n]
  <2>1. n - 1 \in 0..m /\ n \in 0..m /\ n - 1 \in Nat /\ n \in Nat /\ n - 1 <= n /\ n - 1 \in 0..(n - 1)
    OBVIOUS
  <2>2. Recurs(S(n), n, 0, F) /\ Recurs(S(n - 1), n - 1, 0, F) /\ S(n - 1)[n - 1] \in Int
    BY <1>4, <2>1
  <2>3. S(n - 1)[n - 1] = S(n)[n - 1]
    BY <2>1, <2>2, SameSteps
  <2>4. S(n)[n] = F[<<S(n)[n - 1], n>>]
    BY <2>1, <2>2 DEF Recurs
  <2> QED
    BY <1>1, <1>3, <2>2, <2>3, <2>4
<1> QED
  BY <1>5, <1>6, <1>7

-----------------------------------------------------------------------------
(* Sums: the buckets of a classic histogram add up to what was scraped.     *)

\* A count below 2^64 is its own low bits.
LEMMA SmallCount ==
    ASSUME NEW x \in 0..(Word - 1) PROVE Uint64(x) = x
BY AppenderAssumption DEF Uint64

\* A total of counts that are none below zero grows.
LEMMA TotalGrows ==
    ASSUME NEW m \in Nat, NEW c, \A i \in 1..m : c[i] \in Nat, NEW i \in 0..m, NEW j \in i..m
    PROVE  Total(c, i) <= Total(c, j) /\ Total(c, i) \in Nat
<1>1. /\ Total(c, 0) = 0
      /\ \A n \in 0..m : Total(c, n) \in Int
      /\ \A n \in 1..m : Total(c, n) = Total(c, n - 1) + c[n]
  BY TotalSteps
<1>2. \A n \in Nat : n + 1 <= m => Total(c, n + 1) = Total(c, n) + c[n + 1] /\ c[n + 1] \in Nat
                                   /\ Total(c, n) \in Int
  <2> SUFFICES ASSUME NEW n \in Nat, n + 1 <= m
               PROVE  Total(c, n + 1) = Total(c, n) + c[n + 1] /\ c[n + 1] \in Nat /\ Total(c, n) \in Int
    OBVIOUS
  <2>1. n + 1 \in 1..m /\ n + 1 - 1 = n /\ n \in 0..m
    OBVIOUS
  <2> QED
    BY <1>1, <2>1
<1> DEFINE U == {n \in Nat : n > m \/ (Total(c, n) \in Nat /\ (n >= i => Total(c, i) <= Total(c, n)))}
<1>3. 0 \in U
  BY <1>1
<1>4. \A n \in Nat : n \in U => n + 1 \in U
  <2> SUFFICES ASSUME NEW n \in Nat, n \in U, n + 1 <= m
               PROVE  Total(c, n + 1) \in Nat /\ (n + 1 >= i => Total(c, i) <= Total(c, n + 1))
    OBVIOUS
  <2>1. Total(c, n + 1) = Total(c, n) + c[n + 1] /\ c[n + 1] \in Nat /\ Total(c, n) \in Nat
    BY <1>2
  <2>2. n >= i => Total(c, i) <= Total(c, n)
    OBVIOUS
  <2>3. Total(c, i) \in Int
    BY <1>1
  <2>4. CASE n >= i
    BY <2>1, <2>2, <2>3, <2>4
  <2>5. CASE n < i
    <3>1. n + 1 >= i => n + 1 = i
      BY <2>5
    <3> QED
      BY <2>1, <2>3, <3>1
  <2> QED
    BY <2>4, <2>5
<1> HIDE DEF U
<1>5. Nat \subseteq U
  BY <1>3, <1>4, Induct
<1> QED
  BY <1>5 DEF U

\* A point with a smaller boundary comes before.
LEMMA RankOrder ==
    ASSUME NEW pts \in Seq([boundary : Boundary, value : Values]), NEW i \in DOMAIN pts,
           NEW j \in DOMAIN pts, pts[j].boundary < pts[i].boundary
    PROVE  Rank(pts, j) <= Rank(pts, i)
<1>1. DOMAIN pts = 1..Len(pts) /\ Len(pts) \in Nat
  BY LenProperties
<1>2. \A l \in DOMAIN pts : pts[l].boundary \in Int
  <2>1. \A l \in DOMAIN pts : pts[l] \in [boundary : Boundary, value : Values]
    BY <1>1, ElementOfSeq
  <2> QED
    BY <2>1 DEF Boundary, None
<1>3. UpTo(pts, j) \subseteq UpTo(pts, i) /\ UpTo(pts, i) \subseteq 1..Len(pts)
  BY <1>1, <1>2 DEF UpTo
<1>4. IsFiniteSet(UpTo(pts, i))
  <2>1. ASSUME NEW n \in Nat PROVE IsFiniteSet(1..n)
    BY FS_Interval
  <2> QED
    BY <1>1, <1>3, <2>1, FS_Subset
<1> QED
  BY <1>3, <1>4, FS_Subset DEF Rank, UpTo

\* sort.Slice orders the points by boundary and adds none.
LEMMA SortedRight ==
    ASSUME NEW mg, mg.points \in Seq([boundary : Boundary, value : Values])
    PROVE  /\ DOMAIN sortPoints(mg) = 1..Len(mg.points)
           /\ \A m \in 1..Len(mg.points) : \E j \in DOMAIN mg.points :
                 sortPoints(mg)[m] = mg.points[j]
           /\ \A l, m \in 1..Len(mg.points) :
                 l < m => sortPoints(mg)[l].boundary <= sortPoints(mg)[m].boundary
<1> DEFINE pts == mg.points
           N == Len(pts)
           At(k) == CHOOSE i \in DOMAIN pts : Rank(pts, i) = k
           f == [i \in 1..N |-> Rank(pts, i)]
<1>1. DOMAIN pts = 1..N /\ N \in Nat
  BY LenProperties
<1>2. sortPoints(mg) = [k \in 1..N |-> pts[At(k)]]
  BY DEF sortPoints
<1>3. pts \in Seq([boundary : Boundary, value : Values])
  OBVIOUS
<1> HIDE DEF pts, N
<1>4. \A i \in 1..N : /\ Rank(pts, i) \in 1..N
                      /\ \A j \in 1..N : Rank(pts, j) = Rank(pts, i) => j = i
  BY <1>1, <1>3, RankRight DEF N
<1>5. \A k \in 1..N : \E i \in 1..N : Rank(pts, i) = k
  <2>1. f \in [1..N -> 1..N]
    BY <1>4
  <2>2. f \in Injection(1..N, 1..N)
    BY <1>4, <2>1 DEF Injection, IsInjective
  <2>3. IsFiniteSet(1..N)
    BY <1>1, FS_Interval
  <2>4. f \in Surjection(1..N, 1..N)
    <3> HIDE DEF f
    <3> QED
      BY <2>2, <2>3, FS_Injection
  <2> QED
    BY <2>4 DEF Surjection
<1>6. \A k \in 1..N : At(k) \in 1..N /\ Rank(pts, At(k)) = k
  BY <1>1, <1>5
<1> HIDE DEF At
<1>7. DOMAIN sortPoints(mg) = 1..N
  BY <1>2
<1>8. \A m \in 1..N : \E j \in DOMAIN pts : sortPoints(mg)[m] = pts[j]
  BY <1>1, <1>2, <1>6
<1>9. ASSUME NEW l \in 1..N, NEW m \in 1..N, l < m
      PROVE  sortPoints(mg)[l].boundary <= sortPoints(mg)[m].boundary
  <2>1. At(l) \in DOMAIN pts /\ At(m) \in DOMAIN pts /\ Rank(pts, At(l)) = l /\ Rank(pts, At(m)) = m
    BY <1>1, <1>6
  <2>2. pts[At(l)].boundary \in Int /\ pts[At(m)].boundary \in Int
    <3>1. pts[At(l)] \in [boundary : Boundary, value : Values]
      BY <1>1, <1>3, <2>1, ElementOfSeq DEF N
    <3>2. pts[At(m)] \in [boundary : Boundary, value : Values]
      BY <1>1, <1>3, <2>1, ElementOfSeq DEF N
    <3> QED
      BY <3>1, <3>2 DEF Boundary, None
  <2>3. ~ (pts[At(m)].boundary < pts[At(l)].boundary)
    <3> SUFFICES ASSUME pts[At(m)].boundary < pts[At(l)].boundary PROVE FALSE
      OBVIOUS
    <3>1. Rank(pts, At(m)) <= Rank(pts, At(l))
      BY <1>3, <2>1, RankOrder
    <3> QED
      BY <1>9, <2>1, <3>1
  <2> QED
    BY <1>2, <2>2, <2>3
<1> QED
  BY <1>7, <1>8, <1>9 DEF pts, N

\* What a target that counts cumulatively gives: the group's points grow with their
\* boundaries, up to the count.
Growing(mg) ==
    /\ mg.points \in Seq([boundary : Boundary, value : Values])
    /\ mg.count \in Nat /\ mg.count < Word
    /\ \A j \in DOMAIN mg.points : mg.points[j].value \in Nat /\ mg.points[j].value <= mg.count
    /\ \A i, j \in DOMAIN mg.points :
          mg.points[i].boundary <= mg.points[j].boundary => mg.points[i].value <= mg.points[j].value

\* The buckets of cumulative points add up to the points again.
LEMMA BucketsAddUp ==
    ASSUME NEW mg, Growing(mg), ~ IsStale(mg), NEW b, b = ClassicBuckets(mg)
    PROVE  /\ Len(b.bounds) \in Nat /\ DOMAIN b.bounds = 1..Len(b.bounds)
           /\ Len(b.buckets) = Len(b.bounds) + 1
           /\ Total(b.buckets, Len(b.buckets)) = mg.count
           /\ \A i \in DOMAIN b.bounds : \E j \in DOMAIN mg.points :
                 b.bounds[i] = mg.points[j].boundary /\ Total(b.buckets, i) = mg.points[j].value
<1> DEFINE pts == sortPoints(mg)
           N == Len(mg.points)
           n == IF pts # <<>> /\ Last(pts).boundary = Inf THEN Len(pts) - 1 ELSE Len(pts)
           below(i) == IF i = 1 THEN 0 ELSE pts[i - 1].value
           upto(i) == IF i = n + 1 THEN mg.count ELSE pts[i].value
           c == [i \in 1..(n + 1) |-> Uint64(upto(i) - below(i))]
<1>1. N \in Nat /\ mg.points \in Seq([boundary : Boundary, value : Values])
  BY LenProperties DEF Growing
<1>2. /\ DOMAIN pts = 1..N
      /\ \A m \in 1..N : \E j \in DOMAIN mg.points : pts[m] = mg.points[j]
      /\ \A l, m \in 1..N : l < m => pts[l].boundary <= pts[m].boundary
  BY <1>1, SortedRight
<1>3. Len(pts) = N
  BY <1>1, <1>2 DEF sortPoints
<1>4. b.bounds = [i \in 1..n |-> pts[i].boundary] /\ b.buckets = c
  BY DEF ClassicBuckets
<1>5. n \in {N, N - 1} /\ n \in Nat
  <2>1. N = 0 => pts = <<>>
    BY <1>1 DEF sortPoints
  <2> HIDE DEF pts, N
  <2> QED
    BY <1>1, <1>3, <2>1
<1> HIDE DEF pts, N, n
<1>6. /\ \A m \in 1..n : pts[m].value \in Nat /\ pts[m].value <= mg.count
      /\ \A m \in 1..(n - 1) : pts[m].value <= pts[m + 1].value
  <2>1. ASSUME NEW m \in 1..n PROVE pts[m].value \in Nat /\ pts[m].value <= mg.count
    <3>1. m \in 1..N
      BY <1>1, <1>5
    <3>2. PICK j \in DOMAIN mg.points : pts[m] = mg.points[j]
      BY <1>2, <3>1
    <3> QED
      BY <3>2 DEF Growing
  <2>2. ASSUME NEW m \in 1..(n - 1) PROVE pts[m].value <= pts[m + 1].value
    <3>1. m \in 1..N /\ m + 1 \in 1..N /\ m < m + 1
      BY <1>1, <1>5
    <3>2. PICK i \in DOMAIN mg.points : pts[m] = mg.points[i]
      BY <1>2, <3>1
    <3>3. PICK j \in DOMAIN mg.points : pts[m + 1] = mg.points[j]
      BY <1>2, <3>1
    <3>4. pts[m].boundary <= pts[m + 1].boundary
      BY <1>2, <3>1
    <3> QED
      BY <3>2, <3>3, <3>4 DEF Growing
  <2> QED
    BY <2>1, <2>2
<1>7. mg.count \in Nat /\ mg.count < Word /\ Word \in Nat
  BY AppenderAssumption DEF Growing
<1>8. ASSUME NEW i \in 1..(n + 1)
      PROVE  c[i] = upto(i) - below(i) /\ c[i] \in Nat /\ upto(i) \in Nat
  <2>1. upto(i) \in Nat /\ below(i) \in Nat /\ below(i) <= upto(i) /\ upto(i) <= mg.count
    <3>1. CASE i = 1
      BY <1>5, <1>6, <1>7, <3>1
    <3>2. CASE i # 1 /\ i = n + 1
      <4>1. i - 1 \in 1..n
        BY <1>5, <3>2
      <4> QED
        BY <1>6, <1>7, <3>2, <4>1
    <3>3. CASE i # 1 /\ i # n + 1
      <4>1. i - 1 \in 1..(n - 1) /\ i - 1 \in 1..n /\ i \in 1..n /\ i - 1 + 1 = i
        BY <1>5, <3>3
      <4> QED
        BY <1>6, <1>7, <3>3, <4>1
    <3> QED
      BY <3>1, <3>2, <3>3
  <2>2. upto(i) - below(i) \in 0..(Word - 1)
    BY <1>7, <2>1
  <2>3. Uint64(upto(i) - below(i)) = upto(i) - below(i)
    BY <2>2, SmallCount
  <2> QED
    BY <2>1, <2>2, <2>3
<1>9. /\ Total(c, 0) = 0
      /\ \A m \in 1..(n + 1) : Total(c, m) = Total(c, m - 1) + c[m]
  <2>1. n + 1 \in Nat /\ \A i \in 1..(n + 1) : c[i] \in Int
    BY <1>5, <1>8
  <2> HIDE DEF c
  <2> QED
    BY <2>1, TotalSteps
<1>10. \A m \in 1..n : below(m + 1) = upto(m)
  BY <1>5
<1>11. below(1) = 0
  OBVIOUS
<1>12. upto(n + 1) = mg.count /\ \A m \in 1..n : upto(m) = pts[m].value
  BY <1>5
<1>13. Len(c) = n + 1 /\ DOMAIN c = 1..(n + 1)
  BY <1>5
<1> HIDE DEF c, below, upto
<1> DEFINE T == {m \in Nat : m \in 1..(n + 1) => Total(c, m) = upto(m)}
<1>14. 0 \in T
  OBVIOUS
<1>15. \A m \in Nat : m \in T => m + 1 \in T
  <2> SUFFICES ASSUME NEW m \in Nat, m \in T, m + 1 \in 1..(n + 1)
               PROVE  Total(c, m + 1) = upto(m + 1)
    OBVIOUS
  <2>1. /\ Total(c, m + 1) = Total(c, m) + c[m + 1] /\ c[m + 1] = upto(m + 1) - below(m + 1)
        /\ upto(m + 1) \in Nat
    BY <1>8, <1>9
  <2>2. CASE m = 0
    BY <1>9, <1>11, <2>1, <2>2
  <2>3. CASE m # 0
    <3>1. m \in 1..n /\ m \in 1..(n + 1)
      BY <1>5, <2>3
    <3>2. Total(c, m) = upto(m) /\ below(m + 1) = upto(m) /\ upto(m) \in Nat
      BY <1>8, <1>10, <3>1
    <3> QED
      BY <2>1, <3>2
  <2> QED
    BY <2>2, <2>3
<1> HIDE DEF T
<1>16. Nat \subseteq T
  BY <1>14, <1>15, Induct
<1>17. \A m \in 1..(n + 1) : Total(c, m) = upto(m)
  BY <1>5, <1>16 DEF T
<1>18. DOMAIN b.bounds = 1..n /\ Len(b.bounds) = n
  BY <1>4, <1>5
<1>19. Total(c, n + 1) = mg.count
  BY <1>5, <1>12, <1>17
<1>20. ASSUME NEW i \in 1..n
       PROVE  \E j \in DOMAIN mg.points :
                 b.bounds[i] = mg.points[j].boundary /\ Total(c, i) = mg.points[j].value
  <2>1. i \in 1..N /\ i \in 1..(n + 1)
    BY <1>1, <1>5
  <2>2. PICK j \in DOMAIN mg.points : pts[i] = mg.points[j]
    BY <1>2, <2>1
  <2>3. b.bounds[i] = pts[i].boundary /\ Total(c, i) = pts[i].value
    BY <1>4, <1>12, <1>17, <2>1
  <2> QED
    BY <2>2, <2>3
<1> QED
  BY <1>4, <1>5, <1>13, <1>18, <1>19, <1>20

-----------------------------------------------------------------------------
(* Spans: where the buckets of a native histogram stand.                    *)

\* Where the first k spans end.
SpansEnd(h, k) == Total(Offsets(h), k) + Total(Lengths(h), k)

\* Spans follow one another, and so do their counts.
LEMMA SpanSteps ==
    ASSUME NEW h \in Histograms
    PROVE  /\ Len(h.spans) \in Nat /\ DOMAIN h.spans = 1..Len(h.spans)
           /\ Len(h.counts) \in Nat /\ DOMAIN h.counts = 1..Len(h.counts)
           /\ \A i \in DOMAIN h.counts : h.counts[i] \in Int
           /\ SpansEnd(h, 0) = 0 /\ Before(h, 1) = 0
           /\ \A k \in 0..Len(h.spans) : SpansEnd(h, k) \in Int /\ Before(h, k + 1) \in Nat
           /\ \A k \in 1..Len(h.spans) :
                 /\ h.spans[k].offset \in Int /\ h.spans[k].length \in Nat
                 /\ SpanStart(h, k) \in Int /\ SpansEnd(h, k - 1) \in Int
                 /\ SpanStart(h, k) = SpansEnd(h, k - 1) + h.spans[k].offset
                 /\ SpansEnd(h, k) = SpanStart(h, k) + h.spans[k].length
                 /\ Before(h, k) \in Nat /\ Before(h, k + 1) = Before(h, k) + h.spans[k].length
                 /\ Before(h, k + 1) <= Before(h, Len(h.spans) + 1)
<1> DEFINE n == Len(h.spans)
           O == Offsets(h)
           L == Lengths(h)
<1>1. /\ h.spans \in Seq([offset : Int, length : Nat]) /\ h.counts \in Seq(Int)
  BY DEF Histograms
<1>2. /\ Len(h.spans) \in Nat /\ DOMAIN h.spans = 1..Len(h.spans)
      /\ Len(h.counts) \in Nat /\ DOMAIN h.counts = 1..Len(h.counts)
  BY <1>1, LenProperties
<1>3. \A i \in DOMAIN h.counts : h.counts[i] \in Int
  BY <1>1, <1>2, ElementOfSeq
<1>4. \A k \in 1..n : h.spans[k].offset \in Int /\ h.spans[k].length \in Nat
  <2>1. \A k \in 1..n : h.spans[k] \in [offset : Int, length : Nat]
    BY <1>1, <1>2, ElementOfSeq
  <2> QED
    BY <2>1
<1>5. \A k \in 1..n : O[k] = h.spans[k].offset /\ L[k] = h.spans[k].length
  BY <1>2 DEF Offsets, Lengths
<1> HIDE DEF O, L, n
<1>6. /\ Total(O, 0) = 0 /\ \A k \in 0..n : Total(O, k) \in Int
      /\ \A k \in 1..n : Total(O, k) = Total(O, k - 1) + O[k]
  <2>1. n \in Nat /\ \A k \in 1..n : O[k] \in Int
    BY <1>2, <1>4, <1>5 DEF n
  <2> QED
    BY <2>1, TotalSteps
<1>7. n \in Nat /\ \A k \in 1..n : L[k] \in Nat
  BY <1>2, <1>4, <1>5 DEF n
<1>8. /\ Total(L, 0) = 0
      /\ \A k \in 1..n : Total(L, k) = Total(L, k - 1) + L[k]
  <2>1. \A k \in 1..n : L[k] \in Int
    BY <1>7
  <2> QED
    BY <1>7, <2>1, TotalSteps
<1>9. ASSUME NEW k \in 0..n PROVE Total(L, k) \in Nat /\ Total(L, k) <= Total(L, n)
  <2>1. n \in k..n
    BY <1>7
  <2> QED
    BY <1>7, <2>1, TotalGrows
<1>10. \A k : /\ SpansEnd(h, k) = Total(O, k) + Total(L, k) /\ Before(h, k) = Total(L, k - 1)
              /\ SpanStart(h, k) = Total(O, k) + Total(L, k - 1)
  BY DEF SpansEnd, Before, SpanStart, O, L
<1>11. SpansEnd(h, 0) = 0 /\ Before(h, 1) = 0
  BY <1>6, <1>8, <1>10
<1>12. \A k \in 0..n : SpansEnd(h, k) \in Int /\ Before(h, k + 1) \in Nat /\ Before(h, k + 1) = Total(L, k)
  BY <1>6, <1>7, <1>9, <1>10
<1>13. ASSUME NEW k \in 1..n
       PROVE  /\ SpanStart(h, k) \in Int /\ SpansEnd(h, k - 1) \in Int
              /\ SpanStart(h, k) = SpansEnd(h, k - 1) + h.spans[k].offset
              /\ SpansEnd(h, k) = SpanStart(h, k) + h.spans[k].length
              /\ Before(h, k) \in Nat /\ Before(h, k + 1) = Before(h, k) + h.spans[k].length
              /\ Before(h, k + 1) <= Before(h, n + 1)
  <2>1. /\ Total(O, k) = Total(O, k - 1) + h.spans[k].offset
        /\ Total(L, k) = Total(L, k - 1) + h.spans[k].length
        /\ h.spans[k].offset \in Int /\ h.spans[k].length \in Nat
    BY <1>4, <1>5, <1>6, <1>8
  <2>2. k - 1 \in 0..n /\ k \in 0..n /\ n \in 0..n
    BY <1>7
  <2>3. Total(O, k - 1) \in Int /\ Total(L, k - 1) \in Nat /\ Total(L, k) <= Total(L, n)
    BY <1>6, <1>9, <2>2
  <2>4. Before(h, k + 1) = Total(L, k) /\ Before(h, n + 1) = Total(L, n)
    BY <1>12, <2>2
  <2> QED
    BY <1>10, <2>1, <2>3, <2>4
<1> QED
  BY <1>2, <1>3, <1>4, <1>11, <1>12, <1>13 DEF n

\* Where the buckets of a span stand, counted from the bucket first.
Buckets(h, first, k) ==
    (SpanStart(h, k) - first + 1)..(SpanStart(h, k) - first + h.spans[k].length)

\* The first k spans' buckets are in out, below len, and nothing else is.
Placed(h, counts, first, k, out, len) ==
    /\ \A j \in 1..k : \A i \in 1..h.spans[j].length :
          /\ SpanStart(h, j) - first + i \in 1..len
          /\ out[SpanStart(h, j) - first + i] = Uint64(counts[Before(h, j) + i])
    /\ \A x \in DOMAIN out : out[x] = 0 \/ \E j \in 1..k : x \in Buckets(h, first, j)

\* A further span: what was there stays, its buckets are its counts, the rest is zero.
LEMMA PlacedMore ==
    ASSUME NEW h \in Histograms, NEW counts, NEW first \in Int, NEW k \in 1..Len(h.spans),
           NEW out, NEW len \in Nat, Placed(h, counts, first, k - 1, out, len),
           NEW start, start = SpanStart(h, k) - first, start >= len, NEW more,
           \A x \in 1..len : more[x] = out[x],
           \A i \in 1..h.spans[k].length : more[start + i] = Uint64(counts[Before(h, k) + i]),
           \A x \in DOMAIN more : \/ x \in (start + 1)..(start + h.spans[k].length)
                                  \/ more[x] = 0
                                  \/ x \in DOMAIN out /\ more[x] = out[x]
    PROVE  Placed(h, counts, first, k, more, start + h.spans[k].length)
<1>1. /\ Len(h.spans) \in Nat /\ h.spans[k].length \in Nat /\ SpanStart(h, k) \in Int
      /\ \A j \in 1..Len(h.spans) : h.spans[j].length \in Nat
  BY SpanSteps
<1>2. start \in Int /\ start >= 0
  BY <1>1
<1>3. ASSUME NEW j \in 1..k, NEW i \in 1..h.spans[j].length
      PROVE  /\ SpanStart(h, j) - first + i \in 1..(start + h.spans[k].length)
             /\ more[SpanStart(h, j) - first + i] = Uint64(counts[Before(h, j) + i])
  <2>1. CASE j = k
    <3>1. SpanStart(h, j) - first + i = start + i /\ i \in 1..h.spans[k].length
      BY <1>3, <2>1
    <3>2. start + i \in 1..(start + h.spans[k].length)
      <4>1. ASSUME NEW s \in Nat, NEW l \in Nat, NEW x \in 1..l PROVE s + x \in 1..(s + l)
        BY SMTT(30)
      <4>2. start \in Nat
        BY <1>2
      <4> QED
        BY <1>1, <3>1, <4>1, <4>2
    <3> QED
      BY <2>1, <3>1, <3>2
  <2>2. CASE j # k
    <3>1. j \in 1..(k - 1)
      BY <2>2
    <3>2. /\ SpanStart(h, j) - first + i \in 1..len
          /\ out[SpanStart(h, j) - first + i] = Uint64(counts[Before(h, j) + i])
      BY <1>3, <3>1 DEF Placed
    <3>3. SpanStart(h, j) - first + i \in 1..(start + h.spans[k].length)
      BY <1>1, <1>2, <3>2, SMTT(30)
    <3> QED
      BY <3>2, <3>3
  <2> QED
    BY <2>1, <2>2
<1>4. ASSUME NEW x \in DOMAIN more, more[x] # 0
      PROVE  \E j \in 1..k : x \in Buckets(h, first, j)
  <2>1. CASE x \in (start + 1)..(start + h.spans[k].length)
    <3>1. x \in Buckets(h, first, k) /\ k \in 1..k
      BY <2>1 DEF Buckets
    <3> QED
      BY <3>1
  <2>2. CASE x \in DOMAIN out /\ more[x] = out[x]
    <3>1. PICK j \in 1..(k - 1) : x \in Buckets(h, first, j)
      BY <1>4, <2>2 DEF Placed
    <3>2. j \in 1..k
      OBVIOUS
    <3> QED
      BY <3>1, <3>2
  <2> QED
    BY <1>4, <2>1, <2>2
<1> QED
  BY <1>3, <1>4 DEF Placed

-----------------------------------------------------------------------------
(* Spans that are laid out one after the other (convertDeltaBuckets).       *)

\* Two functions that take the same steps from the same value are one.
LEMMA Unique ==
    ASSUME NEW n \in Nat, NEW g, NEW f, g[0] = f[0],
           \A k \in 1..n : g[k - 1] = f[k - 1] => g[k] = f[k]
    PROVE  \A k \in 0..n : g[k] = f[k]
<1> DEFINE S == {k \in Nat : k <= n => g[k] = f[k]}
<1>1. 0 \in S
  OBVIOUS
<1>2. \A k \in Nat : k \in S => k + 1 \in S
  <2> SUFFICES ASSUME NEW k \in Nat, k \in S, k + 1 <= n PROVE g[k + 1] = f[k + 1]
    OBVIOUS
  <2>1. k + 1 \in 1..n /\ k + 1 - 1 = k /\ g[k] = f[k]
    OBVIOUS
  <2> QED
    BY <2>1
<1> HIDE DEF S
<1>3. Nat \subseteq S
  BY <1>1, <1>2, Induct
<1> QED
  BY <1>3 DEF S

\* One span of LayOut.
LaySpan(spans, counts, k, a) ==
    [out |-> a.out \o (IF k = 1 THEN <<>> ELSE Zeros(spans[k].offset))
                   \o [i \in 1..spans[k].length |-> Uint64(counts[a.idx + i])],
     idx |-> a.idx + spans[k].length]

\* The buckets counts can give.
Cells(counts) == {0} \cup {Uint64(counts[j]) : j \in Int}
Laid(counts) == [out : Seq(Cells(counts)), idx : Nat]
NothingLaid == [out |-> <<>>, idx |-> 0]

\* A row of zeros, also for a negative number of them.
LEMMA ZerosAre ==
    ASSUME NEW n \in Int, NEW S, 0 \in S
    PROVE  /\ Zeros(n) \in Seq(S) /\ Len(Zeros(n)) = IF n >= 0 THEN n ELSE 0
           /\ \A i \in 1..n : Zeros(n)[i] = 0
<1>1. CASE n >= 0
  BY <1>1 DEF Zeros
<1>2. CASE n < 0
  <2>1. 1..n = {} /\ 1..n = 1..0
    BY <1>2
  <2>2. Zeros(n) = [i \in 1..0 |-> 0]
    BY <2>1 DEF Zeros
  <2>3. Zeros(n) \in Seq(S) /\ Len(Zeros(n)) = 0
    BY <2>2
  <2> QED
    BY <1>2, <2>1, <2>3
<1> QED
  BY <1>1, <1>2

\* A span makes buckets of buckets.
LEMMA LaySpanTyped ==
    ASSUME NEW spans \in Seq([offset : Int, length : Nat]), NEW counts,
           NEW k \in 1..Len(spans), NEW a \in Laid(counts)
    PROVE  LaySpan(spans, counts, k, a) \in Laid(counts)
<1> DEFINE C == Cells(counts)
           z == IF k = 1 THEN <<>> ELSE Zeros(spans[k].offset)
           b == [i \in 1..spans[k].length |-> Uint64(counts[a.idx + i])]
<1>1. spans[k] \in [offset : Int, length : Nat]
  BY ElementOfSeq
<1>2. spans[k].offset \in Int /\ spans[k].length \in Nat
  BY <1>1
<1>3. a.out \in Seq(C) /\ a.idx \in Nat
  BY DEF Laid
<1>4. 0 \in C /\ \A j \in Int : Uint64(counts[j]) \in C
  BY DEF Cells
<1> HIDE DEF C
<1>5. z \in Seq(C)
  <2>1. <<>> \in Seq(C)
    OBVIOUS
  <2>2. Zeros(spans[k].offset) \in Seq(C)
    BY <1>2, <1>4, ZerosAre
  <2> QED
    BY <2>1, <2>2
<1>6. b \in Seq(C)
  <2>1. \A i \in 1..spans[k].length : a.idx + i \in Int
    BY <1>2, <1>3, SMTT(30)
  <2>2. b \in [1..spans[k].length -> C]
    BY <1>4, <2>1
  <2>3. ASSUME NEW m \in Nat, NEW f \in [1..m -> C] PROVE f \in Seq(C)
    OBVIOUS
  <2> HIDE DEF b
  <2> QED
    BY <1>2, <2>2, <2>3
<1> HIDE DEF z, b
<1>7. (a.out \o z) \o b \in Seq(C)
  <2>1. a.out \o z \in Seq(C)
    BY <1>3, <1>5, ConcatProperties
  <2> QED
    BY <1>6, <2>1, ConcatProperties
<1>8. LaySpan(spans, counts, k, a) = [out |-> (a.out \o z) \o b, idx |-> a.idx + spans[k].length]
  BY DEF LaySpan, z, b
<1> QED
  BY <1>2, <1>3, <1>7, <1>8, SMTT(30) DEF Laid, C

\* LayOut takes one step for each span.
LEMMA LayOutSteps ==
    ASSUME NEW spans \in Seq([offset : Int, length : Nat]), NEW counts
    PROVE  \E a \in [0..Len(spans) -> Laid(counts)] :
              /\ LayOut(spans, counts) = a[Len(spans)].out /\ a[0] = NothingLaid
              /\ \A k \in 1..Len(spans) : a[k] = LaySpan(spans, counts, k, a[k - 1])
<1> DEFINE n == Len(spans)
           X == Laid(counts)
           F == [p \in X \X Nat |-> IF p[2] \in 1..n THEN LaySpan(spans, counts, p[2], p[1])
                                    ELSE NothingLaid]
           R(f) == f = [k \in 0..n |-> IF k = 0 THEN NothingLaid
                                      ELSE LaySpan(spans, counts, k, f[k - 1])]
           after == CHOOSE f : R(f)
<1>1. LayOut(spans, counts) = after[n].out
  BY Zenon DEF LayOut, LaySpan, NothingLaid
<1>2. n \in Nat
  BY LenProperties
<1>3. NothingLaid \in X
  BY DEF NothingLaid, Laid
<1>4. \A x \in X, k \in 1..n : LaySpan(spans, counts, k, x) \in X
  BY LaySpanTyped
<1> HIDE DEF X, n
<1>5. F \in [X \X Nat -> X]
  BY <1>3, <1>4
<1>6. \A x \in X, k \in 1..n : F[<<x, k>>] = LaySpan(spans, counts, k, x)
  <2>1. ASSUME NEW x \in X, NEW k \in 1..n PROVE F[<<x, k>>] = LaySpan(spans, counts, k, x)
    <3>1. <<x, k>> \in X \X Nat /\ <<x, k>>[1] = x /\ <<x, k>>[2] = k
      BY <1>2
    <3> QED
      BY <3>1
  <2> HIDE DEF F
  <2> QED
    BY <2>1, Zenon
<1> HIDE DEF F
<1>7. PICK g \in [0..n -> X] : Recurs(g, n, NothingLaid, F)
  BY <1>2, <1>3, <1>5, Recursion, Zenon
<1>8. g[0] = NothingLaid /\ \A k \in 1..n : g[k] = LaySpan(spans, counts, k, g[k - 1])
  <2>1. ASSUME NEW k \in 1..n PROVE g[k] = LaySpan(spans, counts, k, g[k - 1])
    <3>1. k - 1 \in 0..n
      BY <1>2
    <3>2. g[k - 1] \in X
      BY <3>1
    <3> QED
      BY <1>6, <1>7, <3>2 DEF Recurs
  <2> QED
    BY <1>7, <2>1 DEF Recurs
<1>9. R(g)
  <2>1. ASSUME NEW k \in 0..n
        PROVE  g[k] = IF k = 0 THEN NothingLaid ELSE LaySpan(spans, counts, k, g[k - 1])
    <3>1. k = 0 \/ k \in 1..n
      BY <1>2
    <3> QED
      BY <1>8, <3>1
  <2> QED
    BY <2>1
<1>10. R(after)
  BY <1>9, Zenon
<1> HIDE DEF after
<1>11. after[0] = NothingLaid /\ \A k \in 1..n : after[k] = LaySpan(spans, counts, k, after[k - 1])
  BY <1>2, <1>10
<1>12. \A k \in 0..n : after[k] = g[k]
  <2>1. \A k \in 1..n : after[k - 1] = g[k - 1] => after[k] = g[k]
    BY <1>8, <1>11
  <2>2. after[0] = g[0]
    BY <1>8, <1>11
  <2> QED
    BY <1>2, <2>1, <2>2, Unique, ZenonT(60)
<1>13. after \in [0..n -> X]
  <2>1. DOMAIN after = 0..n /\ after = [k \in 0..n |-> after[k]]
    BY <1>10
  <2> QED
    BY <1>12, <2>1
<1> QED
  BY <1>1, <1>11, <1>13 DEF X, n

\* The second of two sequences comes after the first.
LEMMA ConcatRight ==
    ASSUME NEW C, NEW u \in Seq(C), NEW v \in Seq(C), NEW i \in 1..Len(v)
    PROVE  (u \o v)[Len(u) + i] = v[i]
<1>1. Len(u) \in Nat /\ Len(v) \in Nat
  BY LenProperties
<1> QED
  BY <1>1

\* out is old with a gap of zeros and l more buckets.
Longer(out, old, gap, l, counts, idx) ==
    /\ Len(old) \in Nat /\ DOMAIN old = 1..Len(old)
    /\ Len(out) = Len(old) + gap + l /\ DOMAIN out = 1..Len(out)
    /\ \A x \in 1..Len(old) : out[x] = old[x]
    /\ \A x \in (Len(old) + 1)..(Len(old) + gap) : out[x] = 0
    /\ \A i \in 1..l : out[Len(old) + gap + i] = Uint64(counts[idx + i])

\* What a span adds to the buckets: zeros for the gap before it, then its counts.
LEMMA LaySpanAdds ==
    ASSUME NEW spans \in Seq([offset : Int, length : Nat]), NEW counts, NEW k \in 1..Len(spans),
           NEW a \in Laid(counts), NEW gap \in Nat, gap = (IF k = 1 THEN 0 ELSE spans[k].offset),
           NEW out, out = LaySpan(spans, counts, k, a).out
    PROVE  Longer(out, a.out, gap, spans[k].length, counts, a.idx)
<1> DEFINE C == Cells(counts)
           l == spans[k].length
           z == IF k = 1 THEN <<>> ELSE Zeros(spans[k].offset)
           b == [i \in 1..l |-> Uint64(counts[a.idx + i])]
           m == Len(a.out)
<1>1. spans[k] \in [offset : Int, length : Nat]
  BY ElementOfSeq
<1>2. spans[k].offset \in Int /\ l \in Nat
  BY <1>1
<1>3. l \in Nat
  BY <1>2
<1>4. a.out \in Seq(C) /\ a.idx \in Nat
  BY DEF Laid
<1>5. 0 \in C /\ \A j \in Int : Uint64(counts[j]) \in C
  BY DEF Cells
<1> HIDE DEF C
<1>6. z \in Seq(C) /\ Len(z) = gap /\ \A i \in 1..gap : z[i] = 0
  <2>1. CASE k = 1
    BY <2>1
  <2>2. CASE k # 1
    <3>1. /\ Zeros(gap) \in Seq(C) /\ Len(Zeros(gap)) = IF gap >= 0 THEN gap ELSE 0
          /\ \A i \in 1..gap : Zeros(gap)[i] = 0
      <4>1. gap \in Int
        OBVIOUS
      <4>2. 0 \in C
        BY <1>5
      <4> QED
        BY <4>1, <4>2, ZerosAre
    <3>2. z = Zeros(gap)
      BY <2>2
    <3> HIDE DEF z
    <3> QED
      BY <3>1, <3>2, SMTT(30)
  <2> QED
    BY <2>1, <2>2
<1>7. b \in Seq(C) /\ Len(b) = l /\ \A i \in 1..l : b[i] = Uint64(counts[a.idx + i])
  <2>1. \A i \in 1..l : a.idx + i \in Int
    BY <1>2, <1>4
  <2>2. b \in [1..l -> C] /\ \A i \in 1..l : b[i] = Uint64(counts[a.idx + i])
    BY <1>5, <2>1
  <2>3. ASSUME NEW n \in Nat, NEW f \in [1..n -> C] PROVE f \in Seq(C) /\ Len(f) = n
    OBVIOUS
  <2> HIDE DEF b, l
  <2> QED
    BY <1>2, <2>2, <2>3
<1>8. out = (a.out \o z) \o b
  BY DEF LaySpan
<1> HIDE DEF z, b, l
<1>9. m \in Nat /\ DOMAIN a.out = 1..m
  BY <1>4, LenProperties
<1> HIDE DEF m
<1> DEFINE y == a.out \o z
<1>10. /\ y \in Seq(C) /\ Len(y) = m + gap
      /\ \A i \in 1..(m + gap) : y[i] = IF i <= m THEN a.out[i] ELSE z[i - m]
  <2>1. /\ y \in Seq(C) /\ Len(y) = Len(a.out) + Len(z)
        /\ \A i \in 1..(Len(a.out) + Len(z)) :
              y[i] = IF i <= Len(a.out) THEN a.out[i] ELSE z[i - Len(a.out)]
    BY <1>4, <1>6, ConcatProperties
  <2>2. Len(a.out) = m /\ Len(z) = gap
    BY <1>6 DEF m
  <2> HIDE DEF y
  <2> QED
    BY <2>1, <2>2
<1> HIDE DEF y
<1>11. /\ out \in Seq(C) /\ Len(out) = m + gap + l
       /\ \A i \in 1..(m + gap + l) : out[i] = IF i <= m + gap THEN y[i] ELSE b[i - (m + gap)]
  <2>1. out = y \o b
    BY <1>8 DEF y
  <2>2. /\ y \o b \in Seq(C) /\ Len(y \o b) = Len(y) + Len(b)
        /\ \A i \in 1..(Len(y) + Len(b)) :
              (y \o b)[i] = IF i <= Len(y) THEN y[i] ELSE b[i - Len(y)]
    BY <1>7, <1>10, ConcatProperties
  <2> QED
    BY <1>7, <1>10, <2>1, <2>2
<1>12. \A i \in 1..Len(b) : out[Len(y) + i] = b[i]
  <2>1. y \in Seq(C) /\ b \in Seq(C)
    BY <1>7, <1>10
  <2>2. \A i \in 1..Len(b) : (y \o b)[Len(y) + i] = b[i]
    BY <2>1, ConcatRight
  <2>3. out = y \o b
    BY <1>8 DEF y
  <2> QED
    BY <2>2, <2>3
<1>13. DOMAIN out = 1..Len(out)
  BY <1>11, LenProperties
<1>14. ASSUME NEW q \in Nat, NEW g \in Nat, NEW c \in Nat
       PROVE  /\ \A x \in 1..q : x \in 1..(q + g + c) /\ x \in 1..(q + g) /\ x <= q + g /\ x <= q
              /\ \A x \in (q + 1)..(q + g) : /\ x \in 1..(q + g + c) /\ x \in 1..(q + g)
                                           /\ x <= q + g /\ ~ (x <= q) /\ x - q \in 1..g
              /\ \A i \in 1..c : /\ q + g + i \in 1..(q + g + c) /\ ~ (q + g + i <= q + g)
                                 /\ q + g + i - (q + g) = i
  OBVIOUS
<1>15. m \in Nat
  BY <1>9
<1>16. ASSUME NEW x \in 1..m PROVE out[x] = a.out[x]
  <2>1. x \in 1..(m + gap + l) /\ x \in 1..(m + gap) /\ x <= m + gap /\ x <= m
    BY <1>3, <1>14, <1>15, SMTT(30)
  <2> QED
    BY <1>10, <1>11, <2>1
<1>17. ASSUME NEW x \in (m + 1)..(m + gap) PROVE out[x] = 0
  <2>1. x \in 1..(m + gap + l) /\ x \in 1..(m + gap) /\ x <= m + gap /\ ~ (x <= m) /\ x - m \in 1..gap
    BY <1>3, <1>14, <1>15, SMTT(30)
  <2> QED
    BY <1>6, <1>10, <1>11, <2>1
<1>18. ASSUME NEW i \in 1..l PROVE out[m + gap + i] = Uint64(counts[a.idx + i])
  <2>1. y \in Seq(C) /\ b \in Seq(C) /\ Len(y) = m + gap /\ i \in 1..Len(b)
    BY <1>7, <1>10
  <2>2. out[Len(y) + i] = b[i]
    BY <1>12, <2>1
  <2>3. out[m + gap + i] = b[i]
    BY <2>1, <2>2
  <2> QED
    BY <1>7, <2>3
<1> QED
  BY <1>9, <1>11, <1>13, <1>16, <1>17, <1>18 DEF m, l, Longer

\* convertDeltaBuckets and convertAbsoluteBuckets put every span where it belongs.
LEMMA LaidOut ==
    ASSUME NEW h \in Histograms, NEW counts, NEW first \in Int,
           Len(h.spans) > 0 => first = h.spans[1].offset,
           \A k \in 2..Len(h.spans) : h.spans[k].offset >= 0,
           NEW b, b = LayOut(h.spans, counts)
    PROVE  DOMAIN b = 1..Len(b) /\ Placed(h, counts, first, Len(h.spans), b, Len(b))
<1> DEFINE n == Len(h.spans)
<1>1. h.spans \in Seq([offset : Int, length : Nat])
  BY DEF Histograms
<1> DEFINE w == h.spans
<1>2. \E a \in [0..Len(w) -> Laid(counts)] :
         /\ LayOut(w, counts) = a[Len(w)].out /\ a[0] = NothingLaid
         /\ \A k \in 1..Len(w) : a[k] = LaySpan(w, counts, k, a[k - 1])
  <2>1. w \in Seq([offset : Int, length : Nat])
    BY <1>1
  <2> HIDE DEF w
  <2> QED
    BY <2>1, LayOutSteps, Zenon
<1>3. PICK a \in [0..n -> Laid(counts)] :
         /\ b = a[n].out /\ a[0] = NothingLaid
         /\ \A k \in 1..n : a[k] = LaySpan(h.spans, counts, k, a[k - 1])
  BY <1>2, Zenon
<1>4. /\ n \in Nat /\ SpansEnd(h, 0) = 0 /\ Before(h, 1) = 0
      /\ \A k \in 1..n :
            /\ h.spans[k].offset \in Int /\ h.spans[k].length \in Nat
            /\ SpanStart(h, k) \in Int /\ SpansEnd(h, k - 1) \in Int
            /\ SpanStart(h, k) = SpansEnd(h, k - 1) + h.spans[k].offset
            /\ SpansEnd(h, k) = SpanStart(h, k) + h.spans[k].length
            /\ Before(h, k) \in Nat /\ Before(h, k + 1) = Before(h, k) + h.spans[k].length
  BY SpanSteps
<1> DEFINE I(k) == /\ Placed(h, counts, first, k, a[k].out, Len(a[k].out))
                   /\ DOMAIN a[k].out = 1..Len(a[k].out)
                   /\ a[k].idx = Before(h, k + 1)
                   /\ k > 0 => Len(a[k].out) = SpansEnd(h, k) - first
           S == {k \in Nat : k <= n => I(k)}
<1> HIDE DEF n
<1>5. I(0)
  <2>1. a[0].out = <<>> /\ a[0].idx = 0
    BY <1>3 DEF NothingLaid
  <2>2. Len(a[0].out) = 0 /\ DOMAIN a[0].out = {} /\ 1..0 = {}
    BY <2>1
  <2> QED
    BY <1>4, <2>1, <2>2 DEF Placed
<1>6. ASSUME NEW k \in 1..n, I(k - 1) PROVE I(k)
  <2> DEFINE p == a[k - 1]
             m == Len(p.out)
             gap == IF k = 1 THEN 0 ELSE h.spans[k].offset
             start == SpanStart(h, k) - first
             l == h.spans[k].length
             out == a[k].out
  <2>1. k - 1 \in 0..n /\ k - 1 \in Nat /\ k - 1 + 1 = k
    BY <1>4, SMTT(30)
  <2>2. p \in Laid(counts)
    BY <2>1
  <2>3. gap \in Nat /\ l \in Nat
    <3>1. CASE k = 1
      BY <1>4, <3>1
    <3>2. CASE k # 1
      <4>1. k \in 2..Len(h.spans)
        BY <1>4, <3>2 DEF n
      <4>2. h.spans[k].offset >= 0 /\ h.spans[k].offset \in Int /\ h.spans[k].length \in Nat
        BY <1>4, <4>1
      <4> QED
        BY <3>2, <4>2
    <3> QED
      BY <3>1, <3>2
  <2>4. a[k] = LaySpan(h.spans, counts, k, p)
    BY <1>3
  <2>5. k \in 1..Len(h.spans)
    BY DEF n
  <2> HIDE DEF p, gap, l
  <2>6. /\ m \in Nat /\ DOMAIN p.out = 1..m
        /\ Len(out) = m + gap + l /\ DOMAIN out = 1..Len(out)
        /\ \A x \in 1..m : out[x] = p.out[x]
        /\ \A x \in (m + 1)..(m + gap) : out[x] = 0
        /\ \A i \in 1..l : out[m + gap + i] = Uint64(counts[p.idx + i])
    <3>1. gap = (IF k = 1 THEN 0 ELSE h.spans[k].offset) /\ l = h.spans[k].length
      BY DEF gap, l
    <3>2. out = LaySpan(h.spans, counts, k, p).out
      BY <2>4
    <3> DEFINE w1 == h.spans
    <3>3. /\ w1 \in Seq([offset : Int, length : Nat]) /\ k \in 1..Len(w1)
          /\ gap = (IF k = 1 THEN 0 ELSE w1[k].offset) /\ l = w1[k].length
          /\ out = LaySpan(w1, counts, k, p).out
      BY <1>1, <2>5, <3>1, <3>2
    <3> HIDE DEF out, w1
    <3>4. gap \in Nat /\ p \in Laid(counts)
      BY <2>2, <2>3
    <3>5. Longer(out, p.out, gap, w1[k].length, counts, p.idx)
      BY <3>3, <3>4, LaySpanAdds
    <3> QED
      BY <3>3, <3>5 DEF Longer
  <2>7. a[k].idx = p.idx + l
    BY <2>4 DEF LaySpan, l
  <2>8. /\ Placed(h, counts, first, k - 1, p.out, m) /\ p.idx = Before(h, k)
        /\ k - 1 > 0 => m = SpansEnd(h, k - 1) - first
        /\ k = 1 => m = 0
    <3>1. k = 1 => p = NothingLaid
      BY <1>3 DEF p
    <3>2. k = 1 => m = 0
      BY <3>1 DEF NothingLaid
    <3> QED
      BY <1>6, <2>1, <3>2 DEF p
  <2>9. start = m + gap
    <3>1. CASE k = 1
      <4>1. first = h.spans[1].offset
        BY <1>4, <3>1 DEF n
      <4>2. SpanStart(h, 1) = SpansEnd(h, 0) + h.spans[1].offset
        BY <1>4, <3>1
      <4>3. gap = 0 /\ m = 0 /\ start = SpanStart(h, 1) - first
        BY <2>8, <3>1 DEF gap
      <4>4. SpansEnd(h, 0) = 0
        BY <1>4
      <4> HIDE DEF start, m
      <4> QED
        BY <4>1, <4>2, <4>3, <4>4
    <3>2. CASE k # 1
      <4>1. k - 1 > 0
        BY <1>4, <3>2
      <4>2. m = SpansEnd(h, k - 1) - first /\ gap = h.spans[k].offset
        BY <2>8, <3>2, <4>1 DEF gap
      <4>3. /\ h.spans[k].offset \in Int /\ SpansEnd(h, k - 1) \in Int
            /\ SpanStart(h, k) = SpansEnd(h, k - 1) + h.spans[k].offset
        BY <1>4
      <4>4. start = SpanStart(h, k) - first
        OBVIOUS
      <4> HIDE DEF start, m
      <4> QED
        BY <4>2, <4>3, <4>4
    <3> QED
      BY <3>1, <3>2
  <2> HIDE DEF m, start, out
  <2>10. start \in Nat /\ start >= m
    BY <2>3, <2>6, <2>9
  <2>11. \A i \in 1..l : out[start + i] = Uint64(counts[Before(h, k) + i])
    BY <2>6, <2>8, <2>9
  <2>12. \A x \in DOMAIN out : \/ x \in (start + 1)..(start + l)
                               \/ out[x] = 0
                               \/ x \in DOMAIN p.out /\ out[x] = p.out[x]
    <3> SUFFICES ASSUME NEW x \in DOMAIN out
                 PROVE  \/ x \in (start + 1)..(start + l)
                        \/ out[x] = 0
                        \/ x \in DOMAIN p.out /\ out[x] = p.out[x]
      OBVIOUS
    <3>1. x \in 1..m \/ x \in (m + 1)..(m + gap) \/ x \in (start + 1)..(start + l)
      <4>1. x \in 1..(m + gap + l)
        BY <2>6
      <4> QED
        BY <2>3, <2>6, <2>9, <4>1
    <3> QED
      BY <2>6, <3>1
  <2>13. Placed(h, counts, first, k, out, start + l)
    <3>1. start = SpanStart(h, k) - first /\ start >= m /\ m \in Nat
      BY <2>6, <2>10 DEF start
    <3>2. Placed(h, counts, first, k - 1, p.out, m) /\ \A x \in 1..m : out[x] = p.out[x]
      BY <2>6, <2>8
    <3>3. \A i \in 1..h.spans[k].length : out[start + i] = Uint64(counts[Before(h, k) + i])
      BY <2>11 DEF l
    <3>4. \A x \in DOMAIN out : \/ x \in (start + 1)..(start + h.spans[k].length)
                                \/ out[x] = 0
                                \/ x \in DOMAIN p.out /\ out[x] = p.out[x]
      BY <2>12 DEF l
    <3>5. Placed(h, counts, first, k, out, start + h.spans[k].length)
      BY <2>5, <3>1, <3>2, <3>3, <3>4, PlacedMore, Zenon
    <3> QED
      BY <3>5 DEF l
  <2>14. Len(out) = start + l
    BY <2>6, <2>9
  <2>15. Len(out) = SpansEnd(h, k) - first
    <3>1. SpansEnd(h, k) = SpanStart(h, k) + l /\ SpanStart(h, k) \in Int
      BY <1>4 DEF l
    <3> QED
      BY <2>3, <2>14, <3>1 DEF start
  <2>16. a[k].idx = Before(h, k + 1)
    BY <1>4, <2>7, <2>8 DEF l
  <2> QED
    BY <2>6, <2>13, <2>14, <2>15, <2>16 DEF out
<1> HIDE DEF I
<1>7. 0 \in S
  BY <1>5
<1>8. \A k \in Nat : k \in S => k + 1 \in S
  <2> SUFFICES ASSUME NEW k \in Nat, k \in S, k + 1 <= n PROVE I(k + 1)
    OBVIOUS
  <2>1. k + 1 \in 1..n /\ k + 1 - 1 = k /\ I(k)
    BY <1>4
  <2> QED
    BY <1>6, <2>1
<1> HIDE DEF S
<1>9. n \in S
  BY <1>4, <1>7, <1>8, Induct
<1>10. I(n)
  BY <1>4, <1>9 DEF S
<1> QED
  BY <1>3, <1>10 DEF I, n

-----------------------------------------------------------------------------
(* Spans that are laid into the custom boundaries (convertNHCBBDeltBuckets).*)

\* One span of LayIn.
LayInSpan(h, counts, restart, k, a) ==
    LET start == a.pos + h.spans[k].offset
        n == Fitting(h, start, h.spans[k], Len(h.counts) - a.idx)
    IN  [out |-> [i \in 1..(h.custom + 1) |->
                    IF i \in (start + 1)..(start + n)
                    THEN Uint64(counts[a.idx + i - start]) ELSE a.out[i]],
         pos |-> start + n, idx |-> IF restart THEN 0 ELSE a.idx + n]

LaidInto(h, counts) == [out : [1..(h.custom + 1) -> Cells(counts)], pos : Int, idx : Int]
NothingIn(h) == [out |-> Zeros(h.custom + 1), pos |-> 0, idx |-> 0]

\* How much of a span fits: all of it, when there are counts and boundaries enough.
LEMMA FittingIs ==
    ASSUME NEW h, h.custom \in Nat, NEW start \in Int, NEW span, span.length \in Nat, NEW left \in Int
    PROVE  /\ Fitting(h, start, span, left) \in Int
           /\ span.length <= left /\ start + span.length <= h.custom + 1
                => Fitting(h, start, span, left) = span.length
<1> DEFINE l == span.length
           room == IF start < h.custom + 1 THEN h.custom + 1 - start ELSE 0
           S == {l, left} \cup {room}
           f == Fitting(h, start, span, left)
<1>1. l \in Nat /\ room \in Int
  OBVIOUS
<1>2. f = CHOOSE x \in S : \A y \in S : x <= y
  BY DEF Fitting, Min
<1>3. l <= left /\ start + l <= h.custom + 1 => l <= room
  OBVIOUS
<1> HIDE DEF l, room, f
<1>4. \E x \in S : \A y \in S : x <= y
  <2>1. ASSUME NEW x \in Int, NEW y \in Int, NEW z \in Int
        PROVE  \/ x <= y /\ x <= z /\ x <= x
               \/ y <= x /\ y <= z /\ y <= y
               \/ z <= x /\ z <= y /\ z <= z
    OBVIOUS
  <2>2. \/ l <= left /\ l <= room /\ l <= l
        \/ left <= l /\ left <= room /\ left <= left
        \/ room <= l /\ room <= left /\ room <= room
    BY <1>1, <2>1
  <2> QED
    BY <2>2
<1>5. f \in S /\ \A y \in S : f <= y
  BY <1>2, <1>4, Zenon
<1>6. f \in Int
  BY <1>1, <1>5
<1>7. l <= left /\ l <= room => f = l
  BY <1>1, <1>5, <1>6
<1> QED
  BY <1>3, <1>6, <1>7 DEF l, f

\* A span makes buckets of buckets.
LEMMA LayInTyped ==
    ASSUME NEW h \in Histograms, NEW counts, NEW restart \in BOOLEAN,
           NEW k \in 1..Len(h.spans), NEW a \in LaidInto(h, counts)
    PROVE  LayInSpan(h, counts, restart, k, a) \in LaidInto(h, counts)
<1> DEFINE C == Cells(counts)
           start == a.pos + h.spans[k].offset
           n == Fitting(h, start, h.spans[k], Len(h.counts) - a.idx)
           D == 1..(h.custom + 1)
           out == [i \in D |-> IF i \in (start + 1)..(start + n)
                               THEN Uint64(counts[a.idx + i - start]) ELSE a.out[i]]
<1>1. /\ h.spans[k].offset \in Int /\ h.spans[k].length \in Nat /\ Len(h.counts) \in Nat
  BY SpanSteps
<1>2. a.out \in [D -> C] /\ a.pos \in Int /\ a.idx \in Int /\ h.custom \in Nat
  BY DEF LaidInto, Histograms
<1>3. start \in Int /\ Len(h.counts) - a.idx \in Int
  BY <1>1, <1>2, SMTT(30)
<1> HIDE DEF start
<1>4. n \in Int
  BY <1>1, <1>2, <1>3, FittingIs
<1>5. \A j \in Int : Uint64(counts[j]) \in C
  BY DEF Cells
<1>6. D \subseteq Int
  BY <1>2
<1> HIDE DEF n, C, D
<1>7. out \in [D -> C]
  <2>1. \A i \in D : a.idx + i - start \in Int
    BY <1>2, <1>3, <1>6
  <2> QED
    BY <1>2, <1>5, <2>1
<1> HIDE DEF out
<1>8. start + n \in Int /\ (IF restart THEN 0 ELSE a.idx + n) \in Int
  BY <1>2, <1>3, <1>4
<1>9. LayInSpan(h, counts, restart, k, a)
        = [out |-> out, pos |-> start + n, idx |-> IF restart THEN 0 ELSE a.idx + n]
  BY DEF LayInSpan, out, n, start, D
<1> QED
  BY <1>7, <1>8, <1>9 DEF LaidInto, C, D

\* LayIn takes one step for each span.
LEMMA LayInSteps ==
    ASSUME NEW h \in Histograms, NEW counts, NEW restart \in BOOLEAN
    PROVE  \E a \in [0..Len(h.spans) -> LaidInto(h, counts)] :
              /\ LayIn(h, counts, restart) = a[Len(h.spans)].out /\ a[0] = NothingIn(h)
              /\ \A k \in 1..Len(h.spans) : a[k] = LayInSpan(h, counts, restart, k, a[k - 1])
<1> DEFINE n == Len(h.spans)
           X == LaidInto(h, counts)
           none == NothingIn(h)
           Lay(k, x) == LayInSpan(h, counts, restart, k, x)
           F == [p \in X \X Nat |-> IF p[2] \in 1..n THEN Lay(p[2], p[1]) ELSE none]
           R(f) == f = [k \in 0..n |-> IF k = 0 THEN none ELSE Lay(k, f[k - 1])]
           after == CHOOSE f : R(f)
<1>1. LayIn(h, counts, restart) = after[n].out
  BY Zenon DEF LayIn, LayInSpan, NothingIn
<1>2. n \in Nat
  BY SpanSteps
<1>3. none \in X
  <2>1. h.custom \in Nat /\ 0 \in Cells(counts)
    BY DEF Histograms, Cells
  <2>2. Zeros(h.custom + 1) \in [1..(h.custom + 1) -> Cells(counts)]
    BY <2>1 DEF Zeros
  <2> QED
    BY <2>2 DEF NothingIn, LaidInto
<1>4. \A x \in X, k \in 1..n : Lay(k, x) \in X
  BY LayInTyped
<1> HIDE DEF X, n, none, Lay
<1>5. F \in [X \X Nat -> X]
  BY <1>3, <1>4
<1>6. \A x \in X, k \in 1..n : F[<<x, k>>] = Lay(k, x)
  <2>1. ASSUME NEW x \in X, NEW k \in 1..n PROVE F[<<x, k>>] = Lay(k, x)
    <3>1. <<x, k>> \in X \X Nat /\ <<x, k>>[1] = x /\ <<x, k>>[2] = k
      BY <1>2
    <3> QED
      BY <3>1
  <2> HIDE DEF F
  <2> QED
    BY <2>1, Zenon
<1> HIDE DEF F
<1>7. PICK g \in [0..n -> X] : Recurs(g, n, none, F)
  BY <1>2, <1>3, <1>5, Recursion, Zenon
<1>8. g[0] = none /\ \A k \in 1..n : g[k] = Lay(k, g[k - 1])
  <2>1. ASSUME NEW k \in 1..n PROVE g[k] = Lay(k, g[k - 1])
    <3>1. k - 1 \in 0..n
      BY <1>2
    <3>2. g[k - 1] \in X
      BY <3>1
    <3> QED
      BY <1>6, <1>7, <3>2 DEF Recurs
  <2> QED
    BY <1>7, <2>1 DEF Recurs
<1>9. R(g)
  <2>1. ASSUME NEW k \in 0..n
        PROVE  g[k] = IF k = 0 THEN none ELSE Lay(k, g[k - 1])
    <3>1. k = 0 \/ k \in 1..n
      BY <1>2
    <3> QED
      BY <1>8, <3>1
  <2> QED
    BY <2>1
<1>10. R(after)
  BY <1>9, Zenon
<1> HIDE DEF after
<1>11. after[0] = none /\ \A k \in 1..n : after[k] = Lay(k, after[k - 1])
  BY <1>2, <1>10
<1>12. \A k \in 0..n : after[k] = g[k]
  <2>1. \A k \in 1..n : after[k - 1] = g[k - 1] => after[k] = g[k]
    BY <1>8, <1>11
  <2>2. after[0] = g[0]
    BY <1>8, <1>11
  <2> QED
    BY <1>2, <2>1, <2>2, Unique, ZenonT(60)
<1>13. after \in [0..n -> X]
  <2>1. DOMAIN after = 0..n /\ after = [k \in 0..n |-> after[k]]
    BY <1>10
  <2> QED
    BY <1>12, <2>1
<1> QED
  BY <1>1, <1>11, <1>13 DEF X, n, none, Lay

\* Spans that do not overlap end one after the other.
LEMMA SpansGrow ==
    ASSUME NEW h \in Histograms, \A k \in 1..Len(h.spans) : h.spans[k].offset >= 0,
           NEW k \in 0..Len(h.spans)
    PROVE  SpansEnd(h, k) \in Nat /\ SpansEnd(h, k) <= SpansEnd(h, Len(h.spans))
<1> DEFINE n == Len(h.spans)
           O == Offsets(h)
           L == Lengths(h)
<1>1. /\ n \in Nat /\ DOMAIN h.spans = 1..n
      /\ \A j \in 1..n : h.spans[j].offset \in Int /\ h.spans[j].length \in Nat
  BY SpanSteps
<1>2. \A j \in 1..n : O[j] \in Nat /\ L[j] \in Nat
  BY <1>1 DEF Offsets, Lengths
<1>3. SpansEnd(h, k) = Total(O, k) + Total(L, k) /\ SpansEnd(h, n) = Total(O, n) + Total(L, n)
  BY DEF SpansEnd
<1>4. k \in 0..n /\ n \in k..n /\ n \in 0..n /\ n \in n..n
  BY <1>1
<1> HIDE DEF n, O, L
<1>5. /\ Total(O, k) <= Total(O, n) /\ Total(O, k) \in Nat
      /\ Total(L, k) <= Total(L, n) /\ Total(L, k) \in Nat
  BY <1>1, <1>2, <1>4, TotalGrows
<1>6. Total(O, n) \in Nat /\ Total(L, n) \in Nat
  BY <1>1, <1>2, <1>4, TotalGrows
<1> QED
  BY <1>3, <1>5, <1>6 DEF n

\* out is old with l buckets from start on.
Sets(h, out, old, start, l, counts, idx) ==
    /\ DOMAIN out = 1..(h.custom + 1) /\ DOMAIN old = 1..(h.custom + 1)
    /\ \A x \in 1..(h.custom + 1) :
          out[x] = IF x \in (start + 1)..(start + l) THEN Uint64(counts[idx + x - start]) ELSE old[x]

\* What a span that fits adds to the buckets.
LEMMA LayInAdds ==
    ASSUME NEW h \in Histograms, NEW counts, NEW restart \in BOOLEAN, NEW k \in 1..Len(h.spans),
           NEW a \in LaidInto(h, counts), NEW start, start = a.pos + h.spans[k].offset,
           h.spans[k].length <= Len(h.counts) - a.idx, start + h.spans[k].length <= h.custom + 1,
           NEW b, b = LayInSpan(h, counts, restart, k, a)
    PROVE  /\ Sets(h, b.out, a.out, start, h.spans[k].length, counts, a.idx)
           /\ b.pos = start + h.spans[k].length
           /\ b.idx = IF restart THEN 0 ELSE a.idx + h.spans[k].length
<1> DEFINE n == Fitting(h, start, h.spans[k], Len(h.counts) - a.idx)
           D == 1..(h.custom + 1)
           out == [i \in D |-> IF i \in (start + 1)..(start + n)
                               THEN Uint64(counts[a.idx + i - start]) ELSE a.out[i]]
<1>1. /\ h.spans[k].offset \in Int /\ h.spans[k].length \in Nat /\ Len(h.counts) \in Nat
  BY SpanSteps
<1>2. DOMAIN a.out = D /\ a.pos \in Int /\ a.idx \in Int /\ h.custom \in Nat
  BY DEF LaidInto, Histograms
<1>3. start \in Int /\ Len(h.counts) - a.idx \in Int
  BY <1>1, <1>2, SMTT(30)
<1>4. n = h.spans[k].length
  <2> DEFINE left == Len(h.counts) - a.idx
             span == h.spans[k]
  <2>1. /\ h.custom \in Nat /\ start \in Int /\ span.length \in Nat /\ left \in Int
        /\ span.length <= left /\ start + span.length <= h.custom + 1
    BY <1>1, <1>2, <1>3
  <2> HIDE DEF left, span
  <2>2. Fitting(h, start, span, left) = span.length
    BY <2>1, FittingIs
  <2> QED
    BY <2>2 DEF left, span
<1>5. b = [out |-> out, pos |-> start + n, idx |-> IF restart THEN 0 ELSE a.idx + n]
  BY DEF LayInSpan
<1> HIDE DEF n
<1>6. Sets(h, out, a.out, start, n, counts, a.idx)
  BY <1>2 DEF Sets
<1> HIDE DEF out
<1> QED
  BY <1>4, <1>5, <1>6

\* Where the buckets of a span that fits are.
LEMMA Fits ==
    ASSUME NEW s \in Nat, NEW l \in Nat, NEW d \in Nat, s + l <= d
    PROVE  /\ \A x \in 1..l : s + x \in 1..d /\ s + x \in (s + 1)..(s + l)
           /\ \A e \in 0..s : \A x \in 1..e : x \in 1..d /\ x \notin (s + 1)..(s + l)
           /\ \A f \in Nat : \A x \in 1..l : f + (s + x) - s = f + x
<1>1. ASSUME NEW x \in 1..l PROVE s + x \in 1..d /\ s + x \in (s + 1)..(s + l)
  OBVIOUS
<1>2. ASSUME NEW e \in 0..s, NEW x \in 1..e PROVE x \in 1..d /\ x \notin (s + 1)..(s + l)
  OBVIOUS
<1>3. ASSUME NEW f \in Nat, NEW x \in 1..l PROVE f + (s + x) - s = f + x
  OBVIOUS
<1> QED
  BY <1>1, <1>2, <1>3

\* What comes after, and what is left.
LEMMA Room ==
    /\ \A x \in Nat, y \in Int : y >= 0 => x + y >= x /\ x + y \in Nat
    /\ \A x, y, z \in Nat : y + x <= z => x <= z - y
  OBVIOUS

\* convertNHCBBDeltBuckets and convertNHCBAbsoluteBuckets put every span where it belongs.
LEMMA LaidIn ==
    ASSUME NEW h \in Histograms, NEW counts, NEW restart \in BOOLEAN,
           restart => Len(h.spans) <= 1,
           \A k \in 1..Len(h.spans) : h.spans[k].offset >= 0,
           Before(h, Len(h.spans) + 1) = Len(h.counts),
           SpansEnd(h, Len(h.spans)) <= h.custom + 1,
           NEW b, b = LayIn(h, counts, restart)
    PROVE  /\ DOMAIN b = 1..(h.custom + 1) /\ SpansEnd(h, Len(h.spans)) \in Nat
           /\ Placed(h, counts, 0, Len(h.spans), b, SpansEnd(h, Len(h.spans)))
<1> DEFINE n == Len(h.spans)
           c == h.custom + 1
<1>1. \E a \in [0..Len(h.spans) -> LaidInto(h, counts)] :
         /\ LayIn(h, counts, restart) = a[Len(h.spans)].out /\ a[0] = NothingIn(h)
         /\ \A k \in 1..Len(h.spans) : a[k] = LayInSpan(h, counts, restart, k, a[k - 1])
  BY LayInSteps
<1>2. PICK a \in [0..n -> LaidInto(h, counts)] :
         /\ b = a[n].out /\ a[0] = NothingIn(h)
         /\ \A k \in 1..n : a[k] = LayInSpan(h, counts, restart, k, a[k - 1])
  BY <1>1, Zenon
<1>3. /\ n \in Nat /\ SpansEnd(h, 0) = 0 /\ Before(h, 1) = 0 /\ Len(h.counts) \in Nat
      /\ \A k \in 1..n :
            /\ h.spans[k].offset \in Int /\ h.spans[k].length \in Nat
            /\ SpanStart(h, k) \in Int /\ SpansEnd(h, k - 1) \in Int
            /\ SpanStart(h, k) = SpansEnd(h, k - 1) + h.spans[k].offset
            /\ SpansEnd(h, k) = SpanStart(h, k) + h.spans[k].length
            /\ Before(h, k) \in Nat /\ Before(h, k + 1) = Before(h, k) + h.spans[k].length
            /\ Before(h, k + 1) <= Before(h, n + 1)
  BY SpanSteps
<1>4. \A k \in 0..n : SpansEnd(h, k) \in Nat /\ SpansEnd(h, k) <= SpansEnd(h, n)
  BY SpansGrow
<1>5. c \in Nat /\ h.custom \in Nat
  BY DEF Histograms
<1>6. \A k \in 1..n : h.spans[k].offset >= 0
  OBVIOUS
<1> DEFINE I(k) == /\ Placed(h, counts, 0, k, a[k].out, SpansEnd(h, k))
                   /\ DOMAIN a[k].out = 1..(h.custom + 1)
                   /\ a[k].pos = SpansEnd(h, k)
                   /\ k < n \/ ~ restart => a[k].idx = Before(h, k + 1)
           S == {k \in Nat : k <= n => I(k)}
<1>7. I(0)
  <2>1. a[0].out = Zeros(c) /\ a[0].pos = 0 /\ a[0].idx = 0
    BY <1>2 DEF NothingIn
  <2>2. DOMAIN a[0].out = 1..(h.custom + 1) /\ \A x \in 1..(h.custom + 1) : a[0].out[x] = 0
    BY <2>1 DEF Zeros
  <2>3. 1..0 = {}
    OBVIOUS
  <2>4. Placed(h, counts, 0, 0, a[0].out, SpansEnd(h, 0))
    BY <2>2, <2>3 DEF Placed
  <2> QED
    BY <1>3, <2>1, <2>2, <2>4
<1> HIDE DEF n
<1>8. ASSUME NEW k \in 1..n, I(k - 1) PROVE I(k)
  <2> DEFINE p == a[k - 1]
             e == SpansEnd(h, k - 1)
             start == SpanStart(h, k)
             l == h.spans[k].length
             q == a[k]
  <2>1. k - 1 \in 0..n /\ k \in 0..n /\ k - 1 + 1 = k /\ k - 1 < n
    BY <1>3
  <2>2. p \in LaidInto(h, counts)
    BY <2>1
  <2>3. /\ h.spans[k].offset \in Int /\ l \in Nat /\ start \in Int /\ e \in Int
        /\ start = e + h.spans[k].offset /\ SpansEnd(h, k) = start + l
        /\ Before(h, k) \in Nat /\ Before(h, k + 1) = Before(h, k) + l
        /\ Before(h, k + 1) <= Before(h, n + 1)
    BY <1>3
  <2>4. h.spans[k].offset >= 0 /\ e \in Nat /\ SpansEnd(h, k) <= SpansEnd(h, n)
    BY <1>4, <1>6, <2>1
  <2>5. q = LayInSpan(h, counts, restart, k, p)
    BY <1>2
  <2>6. /\ Placed(h, counts, 0, k - 1, p.out, e) /\ DOMAIN p.out = 1..(h.custom + 1)
        /\ p.pos = e /\ p.idx = Before(h, k)
    BY <1>8, <2>1
  <2> HIDE DEF p, q
  <2>7. start = p.pos + h.spans[k].offset
    BY <2>3, <2>6
  <2>8. Before(h, n + 1) = Len(h.counts) /\ SpansEnd(h, n) <= h.custom + 1
    BY DEF n
  <2>9. h.spans[k].length <= Len(h.counts) - p.idx
    <3>2. l \in Nat /\ Before(h, k) \in Nat /\ Len(h.counts) \in Nat
      BY <1>3, <2>3
    <3>3. Before(h, k) + l <= Len(h.counts)
      BY <2>3, <2>8
    <3> HIDE DEF l
    <3>4. l <= Len(h.counts) - Before(h, k)
      BY <3>2, <3>3, Room
    <3> QED
      BY <2>6, <3>4 DEF l
  <2>10. start + h.spans[k].length <= h.custom + 1
    <3>1. start + l = SpansEnd(h, k) /\ SpansEnd(h, k) \in Nat /\ SpansEnd(h, n) \in Nat
      BY <1>3, <1>4, <2>1, <2>3
    <3> QED
      BY <1>5, <2>4, <2>8, <3>1, SMTT(30)
  <2>11. k \in 1..Len(h.spans)
    BY DEF n
  <2> HIDE DEF start, e
  <2>12. /\ Sets(h, q.out, p.out, start, h.spans[k].length, counts, p.idx)
         /\ q.pos = start + h.spans[k].length
         /\ q.idx = IF restart THEN 0 ELSE p.idx + h.spans[k].length
    BY <2>2, <2>5, <2>7, <2>9, <2>10, <2>11, LayInAdds
  <2>13. start >= e /\ e \in Nat /\ start \in Nat /\ start + l <= c
    <3>2. start >= e /\ start \in Nat
      BY <2>3, <2>4, Room
    <3> QED
      BY <2>4, <2>10, <3>2
  <2>14. Placed(h, counts, 0, k, q.out, start + l)
    <3>1. start = SpanStart(h, k) - 0
      BY <2>3, SMTT(30) DEF start
    <3>2. \A x \in 1..e : q.out[x] = p.out[x]
      <4> SUFFICES ASSUME NEW x \in 1..e PROVE q.out[x] = p.out[x]
        OBVIOUS
      <4>1. x \in 1..(h.custom + 1) /\ x \notin (start + 1)..(start + l)
        <5>1. l \in Nat /\ e \in 0..start
          BY <2>3, <2>13
        <5> HIDE DEF l
        <5> QED
          BY <1>5, <2>13, <5>1, Fits
      <4> QED
        BY <2>12, <4>1 DEF Sets
    <3>3. \A i \in 1..h.spans[k].length : q.out[start + i] = Uint64(counts[Before(h, k) + i])
      <4> SUFFICES ASSUME NEW i \in 1..l PROVE q.out[start + i] = Uint64(counts[Before(h, k) + i])
        OBVIOUS
      <4>2. l \in Nat /\ p.idx \in Nat /\ p.idx = Before(h, k)
        BY <2>3, <2>6
      <4> HIDE DEF l
      <4>3. /\ start + i \in 1..c /\ start + i \in (start + 1)..(start + l)
            /\ p.idx + (start + i) - start = p.idx + i
        BY <1>5, <2>13, <4>2, Fits
      <4>4. \A x \in 1..c : x \in (start + 1)..(start + l) => q.out[x] = Uint64(counts[p.idx + x - start])
        BY <2>12 DEF Sets, l
      <4>5. q.out[start + i] = Uint64(counts[p.idx + (start + i) - start])
        BY <4>3, <4>4
      <4> QED
        BY <4>2, <4>3, <4>5
    <3>4. \A x \in DOMAIN q.out : \/ x \in (start + 1)..(start + h.spans[k].length)
                                  \/ q.out[x] = 0
                                  \/ x \in DOMAIN p.out /\ q.out[x] = p.out[x]
      BY <2>12 DEF Sets
    <3>5. Placed(h, counts, 0, k, q.out, start + h.spans[k].length)
      <4>1. 0 \in Int
        OBVIOUS
      <4> QED
        BY <2>6, <2>11, <2>13, <3>1, <3>2, <3>3, <3>4, <4>1, PlacedMore, ZenonT(60)
    <3> QED
      BY <3>5
  <2>15. q.pos = SpansEnd(h, k) /\ start + l = SpansEnd(h, k)
    BY <2>3, <2>12
  <2>16. k < n \/ ~ restart => q.idx = Before(h, k + 1)
    <3>1. CASE ~ restart
      BY <2>3, <2>6, <2>12, <3>1
    <3>2. CASE restart
      <4>1. n = 1
        BY <3>2 DEF n
      <4> QED
        BY <3>2, <4>1
    <3> QED
      BY <3>1, <3>2
  <2>17. DOMAIN q.out = 1..(h.custom + 1)
    BY <2>12 DEF Sets
  <2> QED
    BY <2>14, <2>15, <2>16, <2>17 DEF q
<1> HIDE DEF I
<1>9. 0 \in S
  BY <1>7
<1>10. \A k \in Nat : k \in S => k + 1 \in S
  <2> SUFFICES ASSUME NEW k \in Nat, k \in S, k + 1 <= n PROVE I(k + 1)
    OBVIOUS
  <2>1. k + 1 \in 1..n /\ k + 1 - 1 = k /\ I(k)
    BY <1>3
  <2> QED
    BY <1>8, <2>1
<1> HIDE DEF S
<1>11. n \in S
  BY <1>3, <1>9, <1>10, Induct
<1>12. I(n)
  BY <1>3, <1>11 DEF S
<1>13. SpansEnd(h, n) \in Nat
  BY <1>3, <1>4
<1> QED
  BY <1>2, <1>12, <1>13 DEF I, n

-----------------------------------------------------------------------------
(* What is where it belongs was scraped.                                    *)

\* The counts of the buckets of a sample.
BucketCounts(h, kind) == IF kind = "integer" THEN RunningTotals(h.counts) ELSE h.counts

\* Spans that are where they belong are the ones that were scraped.
LEMMA PlacedRight ==
    ASSUME NEW s \in Samples, Valid(s), NEW p, NEW first,
           first = (IF p.mtype = "exponential" THEN p.offset + 1 ELSE 0),
           NEW len, 1..len \subseteq DOMAIN p.buckets,
           Placed(s.h, BucketCounts(s.h, s.counts), first, Len(s.h.spans), p.buckets, len)
    PROVE  NativeRight(p, s)
<1> DEFINE h == s.h
           n == Len(h.spans)
           c == BucketCounts(h, s.counts)
           b == p.buckets
<1>1. h \in Histograms
  BY DEF Samples
<1>2. /\ n \in Nat /\ DOMAIN h.spans = 1..n
      /\ Len(h.counts) \in Nat /\ DOMAIN h.counts = 1..Len(h.counts)
      /\ \A k \in 1..n :
            /\ h.spans[k].length \in Nat
            /\ Before(h, k) \in Nat /\ Before(h, k + 1) = Before(h, k) + h.spans[k].length
            /\ Before(h, k + 1) <= Before(h, n + 1)
  BY <1>1, SpanSteps
<1>3. Before(h, n + 1) = Len(h.counts) /\ \A j \in DOMAIN h.counts : Scraped(s, j) \in 0..(Word - 1)
  <2>1. n + 1 - 1 = n
    BY <1>2
  <2> QED
    BY <2>1 DEF Valid, Before
<1>4. \A j \in DOMAIN h.counts : c[j] = Scraped(s, j)
  BY DEF BucketCounts, RunningTotals, Scraped
<1>5. /\ \A k \in 1..n : \A i \in 1..h.spans[k].length :
            /\ SpanStart(h, k) - first + i \in 1..len
            /\ b[SpanStart(h, k) - first + i] = Uint64(c[Before(h, k) + i])
      /\ \A x \in DOMAIN b : b[x] = 0 \/ \E k \in 1..n : x \in Buckets(h, first, k)
  BY DEF Placed
<1> HIDE DEF c
<1>6. ASSUME NEW k \in 1..n, NEW i \in 1..h.spans[k].length
      PROVE  /\ SpanStart(h, k) - first + i \in DOMAIN b
             /\ b[SpanStart(h, k) - first + i] = Scraped(s, Before(h, k) + i)
  <2> DEFINE j == Before(h, k) + i
  <2>1. /\ SpanStart(h, k) - first + i \in 1..len
        /\ b[SpanStart(h, k) - first + i] = Uint64(c[j])
    BY <1>5
  <2>2. j \in DOMAIN h.counts
    <3>1. /\ h.spans[k].length \in Nat /\ Before(h, k) \in Nat /\ Len(h.counts) \in Nat
          /\ Before(h, k) + h.spans[k].length <= Len(h.counts)
      BY <1>2, <1>3
    <3>2. Before(h, k) + i \in 1..Len(h.counts)
      BY <3>1, Fits, SMTT(30)
    <3> QED
      BY <1>2, <3>2
  <2> HIDE DEF j
  <2>3. Uint64(c[j]) = Scraped(s, j)
    BY <1>3, <1>4, <2>2, SmallCount
  <2>4. SpanStart(h, k) - first + i \in DOMAIN b
    BY <2>1
  <2> QED
    BY <2>1, <2>3, <2>4 DEF j
<1> DEFINE filled == UNION {Buckets(h, first, k) : k \in DOMAIN h.spans}
<1>7. ASSUME NEW x \in DOMAIN b \ filled PROVE b[x] = 0
  BY <1>2, <1>5
<1>8. filled = UNION {(SpanStart(h, k) - first + 1)..(SpanStart(h, k) - first + h.spans[k].length)
                        : k \in DOMAIN h.spans}
  BY DEF Buckets
<1>9. \A k \in DOMAIN h.spans : \A i \in 1..h.spans[k].length :
          /\ SpanStart(h, k) - first + i \in DOMAIN b
          /\ b[SpanStart(h, k) - first + i] = Scraped(s, Before(h, k) + i)
  BY <1>2, <1>6
<1> HIDE DEF filled
<1> QED
  BY <1>7, <1>8, <1>9, Zenon DEF NativeRight

\* The first element of a sequence.
LEMMA HeadIs ==
    ASSUME NEW R, NEW q \in Seq(R), q # <<>>
    PROVE  Len(q) > 0 /\ Head(q) = q[1] /\ Head(q) \in R
  OBVIOUS

\* A native histogram's buckets are the sample's.
LEMMA ExponentialRight ==
    ASSUME NEW s \in Samples, Valid(s), NEW p, p.mtype = "exponential",
           p.offset = (IF s.h.spans = <<>> THEN 0 ELSE Head(s.h.spans).offset - 1),
           p.buckets = (IF s.counts = "integer" THEN convertDeltaBuckets(s.h)
                        ELSE convertAbsoluteBuckets(s.h))
    PROVE  NativeRight(p, s)
<1> DEFINE h == s.h
           first == p.offset + 1
           c == BucketCounts(h, s.counts)
           b == p.buckets
<1>1. h \in Histograms /\ h.spans \in Seq([offset : Int, length : Nat])
  BY DEF Samples, Histograms
<1>2. b = LayOut(h.spans, c)
  BY DEF BucketCounts, convertDeltaBuckets, convertAbsoluteBuckets
<1>3. first \in Int /\ (Len(h.spans) > 0 => first = h.spans[1].offset)
  <2>1. CASE h.spans = <<>>
    BY <2>1
  <2>2. CASE h.spans # <<>>
    <3>1. Len(h.spans) > 0 /\ Head(h.spans) = h.spans[1] /\ Head(h.spans) \in [offset : Int, length : Nat]
      BY <1>1, <2>2, HeadIs
    <3>2. h.spans[1].offset \in Int /\ p.offset = h.spans[1].offset - 1
      BY <2>2, <3>1
    <3> QED
      BY <3>2
  <2> QED
    BY <2>1, <2>2
<1>4. \A k \in 2..Len(h.spans) : h.spans[k].offset >= 0
  BY DEF Valid
<1> HIDE DEF first, c
<1>5. DOMAIN b = 1..Len(b) /\ Placed(h, c, first, Len(h.spans), b, Len(b))
  <2> DEFINE d == b
             g == h
  <2>1. /\ d = LayOut(g.spans, c) /\ g \in Histograms
        /\ Len(g.spans) > 0 => first = g.spans[1].offset
        /\ \A k \in 2..Len(g.spans) : g.spans[k].offset >= 0
    BY <1>1, <1>2, <1>3, <1>4
  <2> HIDE DEF d, g
  <2>2. DOMAIN d = 1..Len(d) /\ Placed(g, c, first, Len(g.spans), d, Len(d))
    BY <1>3, <2>1, LaidOut
  <2> QED
    BY <2>2 DEF d, g
<1>6. 1..Len(b) \subseteq DOMAIN p.buckets
  BY <1>5
<1> QED
  BY <1>5, <1>6, PlacedRight DEF first, c

\* So are those of a histogram with custom buckets; float counts only in one span.
LEMMA CustomRight ==
    ASSUME NEW s \in Samples, Valid(s), s.kind = "nhcb",
           s.counts = "float" => Len(s.h.spans) <= 1, NEW p, p.mtype = "histogram",
           p.buckets = (IF s.counts = "integer" THEN convertNHCBBDeltBuckets(s.h)
                        ELSE convertNHCBAbsoluteBuckets(s.h))
    PROVE  NativeRight(p, s)
<1> DEFINE h == s.h
           n == Len(h.spans)
           c == BucketCounts(h, s.counts)
           b == p.buckets
           restart == s.counts # "integer"
<1>1. h \in Histograms /\ s.counts \in {"integer", "float"} /\ h.custom \in Nat
  BY DEF Samples, Histograms
<1>2. b = LayIn(h, c, restart) /\ restart \in BOOLEAN /\ (restart => n <= 1)
  BY <1>1 DEF BucketCounts, convertNHCBBDeltBuckets, convertNHCBAbsoluteBuckets
<1>3. n \in Nat
  BY <1>1, SpanSteps
<1>4. /\ \A k \in 1..n : h.spans[k].offset >= 0
      /\ Before(h, n + 1) = Len(h.counts) /\ SpansEnd(h, n) <= h.custom + 1
  <2>1. n + 1 - 1 = n
    BY <1>3
  <2> QED
    BY <2>1 DEF Valid, Before, SpansEnd
<1> HIDE DEF c, restart
<1> DEFINE d == b
           g == h
<1>5. /\ DOMAIN d = 1..(g.custom + 1) /\ SpansEnd(g, Len(g.spans)) \in Nat
      /\ Placed(g, c, 0, Len(g.spans), d, SpansEnd(g, Len(g.spans)))
  <2>1. /\ d = LayIn(g, c, restart) /\ g \in Histograms /\ restart \in BOOLEAN
        /\ restart => Len(g.spans) <= 1
        /\ \A k \in 1..Len(g.spans) : g.spans[k].offset >= 0
        /\ Before(g, Len(g.spans) + 1) = Len(g.counts) /\ SpansEnd(g, Len(g.spans)) <= g.custom + 1
    BY <1>1, <1>2, <1>4
  <2> HIDE DEF d, g
  <2> QED
    BY <2>1, LaidIn
<1>6. 1..SpansEnd(h, n) \subseteq DOMAIN p.buckets
  BY <1>1, <1>4, <1>5
<1> QED
  BY <1>5, <1>6, PlacedRight DEF c

-----------------------------------------------------------------------------
(* Histograms arrive as they were scraped.                                  *)

\* toDistributionPoint: the buckets of a point that is not stale.
LEMMA DistributionBuckets ==
    ASSUME NEW k, NEW mf, NEW mg, mf.mtype = "histogram", NEW p \in GroupPoints(k, mf, mg), ~ p.stale
    PROVE  /\ mg.count # None /\ ~ IsStale(mg) /\ p.count = mg.count
           /\ mg.nhcb = FALSE => /\ p.bounds = ClassicBuckets(mg).bounds
                                 /\ p.buckets = ClassicBuckets(mg).buckets
           /\ mg.nhcb = TRUE => p.buckets = CustomBuckets(mg).buckets
<1> DEFINE b == IF mg.nhcb THEN CustomBuckets(mg) ELSE ClassicBuckets(mg)
           st == IsStale(mg)
           c == IF IsStale(mg) THEN 0 ELSE mg.count
           t == IF IsStale(mg) \/ mg.sum = None THEN 0 ELSE mg.sum
           q == [Point(k, mf, mg) EXCEPT !.stale = st, !.bounds = b.bounds,
                   !.buckets = b.buckets, !.count = c, !.sum = t]
<1>1. mg.count # None /\ p = q
  BY DEF GroupPoints, toDistributionPoint
<1>2. ~ st => c = mg.count
  OBVIOUS
<1>3. /\ mg.nhcb = FALSE => b = ClassicBuckets(mg)
      /\ mg.nhcb = TRUE => b = CustomBuckets(mg)
  OBVIOUS
<1> HIDE DEF b, st, c, t
<1>4. q.stale = st /\ q.bounds = b.bounds /\ q.buckets = b.buckets /\ q.count = c
  BY DEF Point
<1> HIDE DEF q
<1>5. ~ st
  BY <1>1, <1>4
<1> QED
  BY <1>1, <1>2, <1>3, <1>4, <1>5 DEF st

\* toExponentialHistogramDataPoints: the buckets of a point that is not stale.
LEMMA ExponentialBuckets ==
    ASSUME NEW k, NEW mf, NEW mg, mf.mtype = "exponential", NEW p \in GroupPoints(k, mf, mg), ~ p.stale
    PROVE  /\ p.offset = (IF mg.h.spans = <<>> THEN 0 ELSE Head(mg.h.spans).offset - 1)
           /\ p.buckets = (IF mg.counts = "integer" THEN convertDeltaBuckets(mg.h)
                           ELSE convertAbsoluteBuckets(mg.h))
<1> DEFINE off == IF mg.h.spans = <<>> THEN 0 ELSE Head(mg.h.spans).offset - 1
           b == IF mg.counts = "integer" THEN convertDeltaBuckets(mg.h)
                ELSE convertAbsoluteBuckets(mg.h)
           s == [Point(k, mf, mg) EXCEPT !.stale = TRUE]
           q == [Point(k, mf, mg) EXCEPT !.count = mg.count, !.sum = mg.sum, !.offset = off,
                                         !.buckets = b]
<1>1. p = s \/ p = q
  BY DEF GroupPoints, toExponentialHistogramDataPoints
<1> HIDE DEF off, b
<1>2. s.stale = TRUE
  BY DEF Point
<1>3. q.offset = off /\ q.buckets = b
  BY DEF Point
<1> HIDE DEF s, q
<1>4. p = q
  BY <1>1, <1>2
<1> QED
  BY <1>3, <1>4 DEF off, b

\* A point whose family nothing displaced is one of a group that is right.
LEMMA PointSettled ==
    ASSUME AppInv, Done, NEW p \in sent, ~ Displaced(p)
    PROVE  /\ p \in GroupPoints(p.key, families[p.key], families[p.key].groups[p.ls])
           /\ p.key \in DOMAIN families /\ p.ls \in DOMAIN families[p.key].groups
           /\ p.mtype = families[p.key].mtype
           /\ Tracks(appended, p.key, p.ls, families[p.key].mtype, families[p.key].groups[p.ls])
           /\ \A e \in Entries : e.key = p.key /\ e.part \in Parts =>
                 EntryRight(appended, e, families[p.key].mtype)
<1> DEFINE k == p.key
           mf == families[k]
<1>1. /\ k \in DOMAIN families /\ p.ls \in DOMAIN mf.groups
      /\ p \in GroupPoints(k, mf, mf.groups[p.ls]) /\ Describes(k, mf, mf.groups[p.ls], p)
  BY SentFromGroup
<1>2. Own(k)
  BY <1>1 DEF AppInv, Typed, Ownless
<1>3. Clean(appended, k)
  BY DEF Displaced, Clean, Entries
<1>4. FamilyRight(appended, k, mf)
  BY <1>1, <1>2, <1>3 DEF AppInv, Tracked, Good
<1>5. Tracks(appended, k, p.ls, mf.mtype, mf.groups[p.ls])
  BY <1>1, <1>4 DEF FamilyRight
<1>6. \A e \in Entries : e.key = k /\ e.part \in Parts => EntryRight(appended, e, mf.mtype)
  BY <1>4 DEF FamilyRight, Entries
<1>7. p.mtype = mf.mtype
  BY <1>1 DEF Describes
<1> QED
  BY <1>1, <1>5, <1>6, <1>7

\* The samples of a point's series that are of a part.
PartsOf(p, part) == {e \in Entries : In(e, p) /\ e.part = part}

\* The series' entries, by number and by what they are.
LEMMA PartsAre ==
    ASSUME NEW p, NEW part
    PROVE  /\ \A e \in PartsOf(p, part) : \E i \in Of(appended, p.key, p.ls) :
                 e = appended[i] /\ e.part = part
           /\ \A i \in Of(appended, p.key, p.ls) : appended[i].part = part =>
                 appended[i] \in PartsOf(p, part)
  BY DEF PartsOf, Of, Entries, In

\* The buckets of a classic histogram's point.
LEMMA ClassicSent ==
    ASSUME AppInv, Done, NEW p \in sent, ~ p.stale, ~ Displaced(p), p.mtype = "histogram",
           PartsOf(p, "histogram") = {}
    PROVE  ClassicRight(p)
<1> DEFINE k == p.key
           mf == families[k]
           mg == mf.groups[p.ls]
           parts == PartsOf(p, "point")
           b == ClassicBuckets(mg)
<1>1. /\ p \in GroupPoints(k, mf, mg) /\ k \in DOMAIN families /\ p.ls \in DOMAIN mf.groups
      /\ mf.mtype = "histogram" /\ Tracks(appended, k, p.ls, "histogram", mg)
  BY PointSettled
<1>2. Pointed(appended, k, p.ls, "histogram", mg) /\ Sourced(appended, k, p.ls, "histogram", mg)
  BY <1>1, Zenon DEF Tracks
<1>3. mg.nhcb = FALSE
  <2>1. mg.counts = "none"
    BY <1>2, PartsAre DEF Sourced, Brought
  <2>2. mg.nhcb \in BOOLEAN
    BY <1>1, GroupTyped
  <2> QED
    BY <1>2, <2>1, <2>2 DEF Sourced
<1>4. /\ mg.count # None /\ ~ IsStale(mg) /\ p.count = mg.count
      /\ p.bounds = b.bounds /\ p.buckets = b.buckets
  <2>1. p \in GroupPoints(k, mf, mg)
    BY <1>1
  <2>2. mf.mtype = "histogram"
    BY <1>1
  <2> HIDE DEF k, mf, mg
  <2>3. /\ mg.count # None /\ ~ IsStale(mg) /\ p.count = mg.count
        /\ mg.nhcb = FALSE => /\ p.bounds = ClassicBuckets(mg).bounds
                              /\ p.buckets = ClassicBuckets(mg).buckets
        /\ mg.nhcb = TRUE => p.buckets = CustomBuckets(mg).buckets
    BY <2>1, <2>2, DistributionBuckets, Zenon
  <2> QED
    BY <1>3, <2>3
<1>5. mg.points \in Seq([boundary : Boundary, value : Values]) /\ mg.count \in Nat \cup {Stale, None}
  <2>1. mg \in Groups /\ mg.points \in Seq([boundary : Boundary, value : Values])
    BY <1>1, GroupTyped
  <2> HIDE DEF mg
  <2>2. mg.count \in Nat \cup {Stale, None}
    BY <2>1 DEF Groups, Number
  <2> QED
    BY <2>1, <2>2
<1>6. ASSUME NEW e \in parts
      PROVE  /\ e.sample.le \in Boundary /\ e.sample.val \in Nat \cup {Stale}
             /\ \E j \in DOMAIN mg.points : /\ mg.points[j].boundary = e.sample.le
                                            /\ mg.points[j].value = e.sample.val
  <2>1. e \in Entries /\ \E i \in Of(appended, k, p.ls) : e = appended[i] /\ e.part = "point"
    <3>1. e \in Entries
      BY DEF PartsOf
    <3>2. \E i \in Of(appended, k, p.ls) : e = appended[i] /\ e.part = "point"
      BY PartsAre
    <3> QED
      BY <3>1, <3>2
  <2>2. e.sample \in Samples
    BY <2>1, EntriesTyped
  <2>3. e.sample.le \in Boundary /\ e.sample.val \in Nat \cup {Stale}
    BY <2>2 DEF Samples
  <2>4. PICK j \in DOMAIN mg.points : mg.points[j] = PointOf("histogram", e.sample)
    BY <1>2, <2>1 DEF Pointed
  <2>5. mg.points[j].boundary = e.sample.le /\ mg.points[j].value = e.sample.val
    BY <2>4 DEF PointOf, getBoundary
  <2> QED
    BY <2>3, <2>5, Zenon
<1>7. ASSUME NEW j \in DOMAIN mg.points
      PROVE  \E e \in parts : /\ mg.points[j].boundary = e.sample.le
                              /\ mg.points[j].value = e.sample.val
  <2>1. PICK i \in Of(appended, k, p.ls) :
          appended[i].part = "point" /\ mg.points[j] = PointOf("histogram", appended[i].sample)
    BY <1>2 DEF Pointed
  <2>2. appended[i] \in parts
    BY <2>1, PartsAre
  <2> QED
    BY <2>1, <2>2 DEF PointOf, getBoundary
<1> SUFFICES ASSUME Cumulative(parts, p.count), p.count < Word
             PROVE  /\ Len(p.buckets) = Len(p.bounds) + 1
                    /\ Total(p.buckets, Len(p.buckets)) = p.count
                    /\ \A e \in parts : e.sample.le # Inf =>
                          \E i \in DOMAIN p.bounds : p.bounds[i] = e.sample.le
                    /\ \A e \in parts : \A i \in DOMAIN p.bounds :
                          p.bounds[i] = e.sample.le => Total(p.buckets, i) = e.sample.val
  BY DEF ClassicRight, PartsOf
<1> HIDE DEF parts, mf, mg, b
<1>8. Growing(mg)
  <2>1. mg.count \in Nat /\ mg.count < Word
    BY <1>4, <1>5 DEF IsStale
  <2>2. ASSUME NEW j \in DOMAIN mg.points
        PROVE  mg.points[j].value \in Nat /\ mg.points[j].value <= mg.count
    BY <1>4, <1>6, <1>7 DEF Cumulative
  <2>3. ASSUME NEW i \in DOMAIN mg.points, NEW j \in DOMAIN mg.points,
               mg.points[i].boundary <= mg.points[j].boundary
        PROVE  mg.points[i].value <= mg.points[j].value
    <3>1. PICK e \in parts : mg.points[i].boundary = e.sample.le /\ mg.points[i].value = e.sample.val
      BY <1>7
    <3>2. PICK x \in parts : mg.points[j].boundary = x.sample.le /\ mg.points[j].value = x.sample.val
      BY <1>7
    <3>3. e.sample.le \in Int /\ x.sample.le \in Int
      BY <1>6 DEF Boundary, None
    <3>4. e.sample.le < x.sample.le \/ e.sample.le = x.sample.le
      BY <2>3, <3>1, <3>2, <3>3
    <3>5. e.sample.le < x.sample.le => e.sample.val <= x.sample.val
      BY DEF Cumulative
    <3>6. e.sample.le = x.sample.le => e.sample.val = x.sample.val
      BY DEF Cumulative
    <3>7. mg.points[i].value \in Nat /\ mg.points[j].value \in Nat
      BY <2>2
    <3> QED
      BY <3>1, <3>2, <3>4, <3>5, <3>6, <3>7
  <2> QED
    BY <1>5, <2>1, <2>2, <2>3 DEF Growing
<1>9. /\ Len(b.buckets) = Len(b.bounds) + 1
      /\ Total(b.buckets, Len(b.buckets)) = mg.count
      /\ \A i \in DOMAIN b.bounds : \E j \in DOMAIN mg.points :
            b.bounds[i] = mg.points[j].boundary /\ Total(b.buckets, i) = mg.points[j].value
  BY <1>4, <1>8, BucketsAddUp DEF b
<1>10. ASSUME NEW e \in parts, e.sample.le # Inf
       PROVE  \E i \in DOMAIN p.bounds : p.bounds[i] = e.sample.le
  <2>1. PICK j \in DOMAIN mg.points : mg.points[j].boundary = e.sample.le
    BY <1>6
  <2>2. \/ mg.points[j].boundary = Inf
        \/ \E i \in DOMAIN b.bounds : b.bounds[i] = mg.points[j].boundary
    BY <1>5, BoundsComplete DEF b
  <2> QED
    BY <1>4, <1>10, <2>1, <2>2
<1>11. ASSUME NEW e \in parts, NEW i \in DOMAIN p.bounds, p.bounds[i] = e.sample.le
       PROVE  Total(p.buckets, i) = e.sample.val
  <2>1. PICK j \in DOMAIN mg.points :
          p.bounds[i] = mg.points[j].boundary /\ Total(p.buckets, i) = mg.points[j].value
    BY <1>4, <1>9
  <2>2. PICK x \in parts : mg.points[j].boundary = x.sample.le /\ mg.points[j].value = x.sample.val
    BY <1>7
  <2>3. e.sample.le = x.sample.le
    BY <1>11, <2>1, <2>2
  <2>4. e.sample.val = x.sample.val
    BY <2>3 DEF Cumulative
  <2> QED
    BY <2>1, <2>2, <2>4
<1> QED
  BY <1>4, <1>9, <1>10, <1>11

\* The buckets of a native histogram's point.
LEMMA NativeSent ==
    ASSUME AppInv, Done, NEW p \in sent, ~ p.stale, ~ Displaced(p),
           NEW e \in PartsOf(p, "histogram"), PartsOf(p, "histogram") = {e}, Valid(e.sample),
           ~ Scattered(e.sample)
    PROVE  NativeRight(p, e.sample)
<1> DEFINE k == p.key
           mf == families[k]
           mg == mf.groups[p.ls]
           s == e.sample
<1>1. /\ p \in GroupPoints(k, mf, mg) /\ k \in DOMAIN families /\ p.ls \in DOMAIN mf.groups
      /\ p.mtype = mf.mtype /\ Tracks(appended, k, p.ls, mf.mtype, mg)
      /\ \A x \in Entries : x.key = p.key /\ x.part \in Parts => EntryRight(appended, x, mf.mtype)
  BY PointSettled
<1>2. Sourced(appended, k, p.ls, mf.mtype, mg)
  BY <1>1 DEF Tracks
<1>3. e \in Entries /\ e.key = k /\ e.part = "histogram" /\ e.part \in Parts
  BY DEF PartsOf, In, Parts
<1>4. s \in Samples
  BY <1>3, EntriesTyped
<1>5. mg.counts # "none"
  BY <1>2, PartsAre DEF Sourced
<1>6. s.h = mg.h /\ s.counts = mg.counts
  <2>1. PICK i \in Of(appended, k, p.ls) : Brought(appended[i], mg)
    BY <1>2, <1>5 DEF Sourced
  <2>2. appended[i] \in PartsOf(p, "histogram")
    BY <2>1, PartsAre DEF Brought
  <2>3. appended[i] = e
    BY <2>2
  <2> QED
    BY <2>1, <2>3 DEF Brought
<1>7. mf.mtype = IF IsNHCB(s) THEN "histogram" ELSE "exponential"
  BY <1>1, <1>3 DEF EntryRight
<1>8. CASE IsNHCB(s)
  <2>1. mf.mtype = "histogram" /\ s.kind = "nhcb"
    BY <1>7, <1>8 DEF IsNHCB
  <2>2. mg.nhcb = TRUE
    BY <1>1, <1>2, <1>5, <2>1, GroupTyped DEF Sourced
  <2>3. p.buckets = CustomBuckets(mg).buckets
    <3>1. p \in GroupPoints(k, mf, mg) /\ mf.mtype = "histogram" /\ ~ p.stale /\ mg.nhcb = TRUE
      BY <1>1, <2>1, <2>2
    <3> HIDE DEF k, mf, mg
    <3> QED
      BY <3>1, DistributionBuckets, Zenon
  <2>4. p.buckets = (IF s.counts = "integer" THEN convertNHCBBDeltBuckets(s.h)
                     ELSE convertNHCBAbsoluteBuckets(s.h))
    BY <1>6, <2>3 DEF CustomBuckets
  <2>5. s.counts = "float" => Len(s.h.spans) <= 1
    BY <1>4, <2>1, SpanSteps DEF Scattered, Samples
  <2> HIDE DEF s
  <2> QED
    <3>1. p.mtype = "histogram" /\ Valid(s)
      BY <1>1, <2>1 DEF s
    <3>2. NativeRight(p, s)
      BY <1>4, <2>1, <2>4, <2>5, <3>1, CustomRight
    <3> QED
      BY <3>2 DEF s
<1>9. CASE ~ IsNHCB(s)
  <2>1. mf.mtype = "exponential" /\ p.mtype = "exponential"
    BY <1>1, <1>7, <1>9
  <2>2. /\ p.offset = (IF mg.h.spans = <<>> THEN 0 ELSE Head(mg.h.spans).offset - 1)
        /\ p.buckets = (IF mg.counts = "integer" THEN convertDeltaBuckets(mg.h)
                        ELSE convertAbsoluteBuckets(mg.h))
    BY <1>1, <2>1, ExponentialBuckets
  <2>3. /\ p.offset = (IF s.h.spans = <<>> THEN 0 ELSE Head(s.h.spans).offset - 1)
        /\ p.buckets = (IF s.counts = "integer" THEN convertDeltaBuckets(s.h)
                        ELSE convertAbsoluteBuckets(s.h))
    BY <1>6, <2>2, SMTT(30)
  <2>4. Valid(s)
    OBVIOUS
  <2> HIDE DEF s
  <2> QED
    <3>1. NativeRight(p, s)
      BY <1>4, <2>1, <2>3, <2>4, ExponentialRight
    <3> QED
      BY <3>1 DEF s
<1> QED
  BY <1>8, <1>9

\* Histograms arrive as they were scraped: toDistributionPoint's differences add up to the
\* cumulative count at every boundary and to the total, in whatever order the buckets
\* were appended, and the convert functions put every count of a native histogram where
\* its span puts it, except convertNHCBAbsoluteBuckets with more than one span.
THEOREM BucketsAdd == Spec => []BucketsRight
<1>1. AppInv => BucketsRight
  <2> SUFFICES ASSUME AppInv, Done, NEW p \in sent, ~ p.stale, ~ Displaced(p)
               PROVE  /\ p.mtype = "histogram" /\ PartsOf(p, "histogram") = {} => ClassicRight(p)
                      /\ \A e \in PartsOf(p, "histogram") :
                           /\ PartsOf(p, "histogram") = {e} /\ Valid(e.sample)
                           /\ ~ Scattered(e.sample)
                           => NativeRight(p, e.sample)
    BY DEF BucketsRight, PartsOf, Whole, OneWhole
  <2>1. p.mtype = "histogram" /\ PartsOf(p, "histogram") = {} => ClassicRight(p)
    BY ClassicSent
  <2>2. ASSUME NEW e \in PartsOf(p, "histogram"), PartsOf(p, "histogram") = {e}, Valid(e.sample),
               ~ Scattered(e.sample)
        PROVE  NativeRight(p, e.sample)
    BY <2>2, NativeSent
  <2> QED
    BY <2>1, <2>2
<1> QED
  BY <1>1, AppenderInductive, PTL
=============================================================================
