------------------------------- MODULE Appender -------------------------------
(***************************************************************************)
(* The appender of the collector's Prometheus receiver: what becomes of    *)
(* the samples of one scrape (prometheusreceiver/internal transaction.go,  *)
(* metricfamily.go, metadata.go, util.go).                                 *)
(*                                                                         *)
(* The scrape loop hands over samples one by one, in the order in which    *)
(* the target lists them.  The transaction collects them into families and *)
(* groups, with nothing but names, labels and a metadata store to tell     *)
(* which samples belong together, and Commit turns the groups into points  *)
(* for the sink.                                                           *)
(*                                                                         *)
(* A metric name is its stem followed by its suffixes: <<"foo", "total">>. *)
(* Every suffix is one the code trims.                                     *)
(***************************************************************************)
EXTENDS Integers, SequencesExt

CONSTANTS
    Targets,        \* records [store, samples]: the metadata (names -> types; empty
                    \* without useMetadata) and the samples of a target
    MaxSamples,     \* samples in a scrape
    Word            \* 2^64

\* Numbers that are none: the staleness marker, and no number at all.
Stale == -1
None == -2
Inf == 1000000

NoLabel == ""    \* the value of a label that is not there

Boundary == Nat \cup {None}
Histograms == [spans : Seq([offset : Int, length : Nat]), counts : Seq(Int), custom : Nat]
Samples ==
    [name : Seq(STRING) \ {<<>>}, job : STRING, attr : STRING, scope : STRING, le : Boundary,
     quantile : Boundary, ts : Nat, st : Nat, val : Nat \cup {Stale},
     kind : {"number", "native", "nhcb"}, counts : {"integer", "float"},
     h : Histograms, exemplar : BOOLEAN, bad : STRING]

TargetInfo == <<"target", "info">>
ScopeInfo == <<"otel_scope", "info">>

\* Exemplars are for counters and buckets: OpenMetrics allows an info none.
ASSUME AppenderAssumption ==
    /\ MaxSamples \in Nat /\ Word \in Nat \ {0}
    /\ \A t \in Targets : \A s \in t.samples :
          s \in Samples /\ (s.name \in {TargetInfo, ScopeInfo} => ~ s.exemplar)

VARIABLES
    target,         \* the target that is scraped
    external,       \* external labels: none, one that is no resource's, or job
    outcome,        \* open, or how Commit or Rollback ended
    cancelled,      \* the scrape's context is done
    isNew,
    nodeResources,  \* resource -> attributes taken from target_info
    scopeAttributes,\* <<resource, scope>> -> where the attributes come from
    families,       \* keys -> families
    appended,       \* history: where each sample went
    sent            \* the points given to the sink

vars == <<target, external, outcome, cancelled, isNew, nodeResources, scopeAttributes, families,
          appended, sent>>

\* A native histogram: spans [offset, length], the counts of their buckets (float) or
\* the differences between them (integer), and the number of custom boundaries.
NoHistogram == [spans |-> <<>>, counts |-> <<>>, custom |-> 0]

MetricTypes == {"gauge", "sum", "histogram", "summary", "exponential", "empty"}
NoGroups == [r \in {} |-> 0]

Init ==
    /\ target \in Targets /\ external \in {"none", "label", "job"}
    /\ outcome = "open" /\ cancelled = FALSE /\ isNew = TRUE
    /\ nodeResources = [r \in {} |-> {}] /\ scopeAttributes = [r \in {} |-> NoLabel]
    /\ families = <<>> /\ appended = <<>> /\ sent = {}

-----------------------------------------------------------------------------
(* Maps: m[k] = v, and m with the entries of d for the keys it does not have. *)

Put(m, k, v) == [x \in DOMAIN m \cup {k} |-> IF x = k THEN v ELSE m[x]]
Or(m, d) == [x \in DOMAIN m \cup DOMAIN d |-> IF x \in DOMAIN m THEN m[x] ELSE d[x]]

-----------------------------------------------------------------------------
(* Names, types and labels. *)

normalizeMetricName(n) == IF Len(n) > 1 THEN Front(n) ELSE n

HasSuffix(n, suffix) == Len(n) > 1 /\ Last(n) = suffix

store == target.store
HasMetadata(n) == n \in DOMAIN store

internalMetricMetadata == {<<"up">>}

Metadata(type, family, name) == [type |-> type, family |-> family, name |-> name]

metadataForMetric(n) ==
    LET norm == normalizeMetricName(n)
    IN  IF n \in internalMetricMetadata THEN Metadata("gauge", n, n)
        ELSE IF HasMetadata(n) THEN Metadata(store[n], n, n)
        ELSE IF ~ HasMetadata(norm) THEN Metadata("unknown", n, n)
        ELSE IF store[norm] # "counter" THEN Metadata(store[norm], norm, norm)
        ELSE Metadata("counter", norm, IF HasSuffix(n, "created") THEN Append(norm, "total") ELSE n)

isCounterCreatedLine(n) ==
    LET norm == normalizeMetricName(n)
    IN  HasSuffix(n, "created") /\ HasMetadata(norm) /\ store[norm] = "counter"

convToMetricType(type, exponential) ==
    CASE type = "counter" -> "sum"
      [] type \in {"gauge", "unknown"} -> "gauge"
      [] type = "histogram" -> IF exponential THEN "exponential" ELSE "histogram"
      [] type = "summary" -> "summary"
      [] type \in {"info", "stateset"} -> "sum"
      [] OTHER -> "empty"

\* The labels a series is known by: not job and instance, not the scope's, not the
\* boundary where the type makes it a part of one point.
getSeriesRef(s, ext, mtype) ==
    [attr |-> s.attr, ext |-> ext = "label",
     le |-> IF mtype = "histogram" THEN None ELSE s.le,
     quantile |-> IF mtype = "summary" THEN None ELSE s.quantile]

\* External labels replace the sample's; a sample without a job has the target's.
getJobAndInstance(s, ext) ==
    IF ext = "job" THEN "external" ELSE IF s.job = NoLabel THEN "target" ELSE s.job

-----------------------------------------------------------------------------
(* Families and groups. *)

newMetricFamily(n, native, nhcb) ==
    LET md == metadataForMetric(n)
    IN  [mtype |-> convToMetricType(IF native THEN "histogram" ELSE md.type, native /\ ~ nhcb),
         name |-> md.name, family |-> md.family, groups |-> NoGroups]

\* Fault: only the name itself is a part of the family.
includesMetricExactly(mf, n) == n = mf.name

includesMetric(mf, n) ==
    CASE mf.mtype = "sum" -> normalizeMetricName(n) = mf.family
      [] mf.mtype = "gauge" -> n = mf.name
      [] OTHER -> normalizeMetricName(n) = mf.name

Key(resource, scope, native, n) ==
    [resource |-> resource, scope |-> scope, native |-> native, name |-> n]

\* The family of a name, and the families with it: found under the name, found
\* under the trimmed name, or a new one in the place of whatever has its name.
getOrCreateMetricFamily(fams, resource, scope, n, native, nhcb) ==
    LET norm == normalizeMetricName(n)
        fn == IF HasMetadata(n) THEN n
              ELSE IF isCounterCreatedLine(n) THEN Append(norm, "total") ELSE norm
        K(x) == Key(resource, scope, native, x)
        new == newMetricFamily(n, native, nhcb)
    IN  IF K(n) \in DOMAIN fams THEN [key |-> K(n), fams |-> fams]
        ELSE IF K(fn) \in DOMAIN fams /\ includesMetric(fams[K(fn)], n)
             THEN [key |-> K(fn), fams |-> fams]
        ELSE [key |-> K(new.name), fams |-> Put(fams, K(new.name), new)]

EmptyGroup(ts, ls) ==
    [ts |-> ts, ls |-> ls, count |-> None, sum |-> None, value |-> None, created |-> 0,
     points |-> <<>>, h |-> NoHistogram, counts |-> "none", nhcb |-> FALSE, exemplars |-> 0]

loadMetricGroupOrCreate(mf, ref, ts) ==
    IF ref \in DOMAIN mf.groups THEN mf.groups[ref] ELSE EmptyGroup(ts, ref)

\* What adding a sample to a group gives: the group, and which part of it the
\* sample became ("error" for a sample that is refused).
Part(mg, part) == [mg |-> mg, part |-> part]

getBoundary(mtype, s) == IF mtype = "histogram" THEN s.le ELSE s.quantile

\* The part of a group a sample is, by the type of the family and its suffix.
StoreSeries(mf, mg, s) ==
    LET created == s.name = Append(mf.family, "created")
    IN  CASE mf.mtype \in {"histogram", "summary"} ->
               IF HasSuffix(s.name, "sum") THEN Part([mg EXCEPT !.sum = s.val], "sum")
               ELSE IF HasSuffix(s.name, "count") THEN Part([mg EXCEPT !.count = s.val], "count")
               ELSE IF created THEN Part([mg EXCEPT !.created = s.val], "created")
               ELSE IF getBoundary(mf.mtype, s) = None THEN Part(mg, "error")
               ELSE Part([mg EXCEPT !.points =
                             Append(@, [boundary |-> getBoundary(mf.mtype, s), value |-> s.val])],
                         "point")
          [] mf.mtype = "exponential" ->
               IF created THEN Part([mg EXCEPT !.created = s.val], "created")
               ELSE Part(mg, "ignored")
          [] mf.mtype = "sum" /\ created -> Part([mg EXCEPT !.created = s.val], "created")
          [] OTHER -> Part([mg EXCEPT !.value = s.val], "value")

\* Fault: samples of different times make one group.
addSeriesAnyTime(mf, mg, s) == StoreSeries(mf, mg, s)

addSeries(mf, mg, s) == IF mg.ts # s.ts THEN Part(mg, "error") ELSE StoreSeries(mf, mg, s)

\* A native histogram is refused by a group of the other kind of counts.
addExponentialHistogramSeries(mf, mg, s) ==
    IF mg.ts # s.ts \/ mf.mtype # "exponential" \/ mg.counts \notin {"none", s.counts}
    THEN Part(mg, "error")
    ELSE Part([mg EXCEPT !.count = s.val, !.sum = s.val, !.h = s.h, !.counts = s.counts],
              "histogram")

\* With custom buckets integer counts go before float ones.
addNHCBSeries(mf, mg, s) ==
    LET keep == mg.counts = "integer" /\ s.counts = "float"
    IN  IF mg.ts # s.ts \/ mf.mtype # "histogram" THEN Part(mg, "error")
        ELSE Part([mg EXCEPT !.nhcb = TRUE, !.count = s.val, !.sum = s.val,
                             !.h = IF keep THEN @ ELSE s.h,
                             !.counts = IF keep THEN @ ELSE s.counts], "histogram")

-----------------------------------------------------------------------------
(* Appending. *)

WithGroup(fams, key, ref, mg) ==
    [fams EXCEPT ![key].groups = Put(@, ref, mg)]

\* Fault: a stale native histogram is not told from a number.
DetectsNothing(s) == FALSE

\* A staleness marker is a number, whatever its series was.
detectAndStoreNativeHistogramStaleness(s) ==
    s.val = Stale /\ HasMetadata(s.name) /\ store[s.name] = "histogram"
IsNative(s) == s.kind # "number" \/ detectAndStoreNativeHistogramStaleness(s)

\* One sample into its group; the group is there even if the sample is refused.  A
\* marker that is stored as a native histogram leaves the start time alone.
addDatapoint(fams, resource, s, native, nhcb) ==
    LET f == getOrCreateMetricFamily(fams, resource, s.scope, s.name, native, nhcb)
        mf == f.fams[f.key]
        ref == getSeriesRef(s, external, mf.mtype)
        old == loadMetricGroupOrCreate(mf, ref, s.ts)
        mg == IF s.st = 0 \/ (native /\ s.kind = "number") THEN old ELSE [old EXCEPT !.created = s.st]
        new == IF ~ native THEN addSeries(mf, mg, s)
               ELSE IF nhcb THEN addNHCBSeries(mf, mg, s)
               ELSE addExponentialHistogramSeries(mf, mg, s)
    IN  [fams |-> WithGroup(f.fams, f.key, ref, new.mg), key |-> f.key, ref |-> ref,
         part |-> new.part, native |-> native]

\* Fault: the family of the exemplar is looked for among the numbers.
appendExemplarToNumbers(fams, s, native) ==
    LET f == getOrCreateMetricFamily(fams, getJobAndInstance(s, "none"), s.scope, s.name,
                                     FALSE, FALSE)
        ref == getSeriesRef(s, "none", f.fams[f.key].mtype)
    IN  IF ~ s.exemplar THEN fams
        ELSE IF ref \notin DOMAIN f.fams[f.key].groups THEN f.fams
        ELSE [f.fams EXCEPT ![f.key].groups[ref].exemplars = @ + 1]

\* Exemplars come with the labels as they were scraped, and find the group by them.
appendExemplar(fams, s, native) ==
    LET f == getOrCreateMetricFamily(fams, getJobAndInstance(s, "none"), s.scope, s.name,
                                     native, s.kind = "nhcb")
        ref == getSeriesRef(s, "none", f.fams[f.key].mtype)
    IN  IF ~ s.exemplar THEN fams
        ELSE IF ref \notin DOMAIN f.fams[f.key].groups THEN f.fams
        ELSE [f.fams EXCEPT ![f.key].groups[ref].exemplars = @ + 1]

Entry(s, key, ref, part) == [sample |-> s, key |-> key, ref |-> ref, part |-> part]
Nowhere == Key(NoLabel, NoLabel, FALSE, <<>>)
NoRef == [attr |-> NoLabel, ext |-> FALSE, le |-> None, quantile |-> None]

\* Fault: the resource of an exemplar is taken for granted.
ResourcesOfSample(s) == {getJobAndInstance(s, external)}

\* initTransaction, for the labels with and, before an exemplar, without the
\* external ones.
Resources(s) ==
    {getJobAndInstance(s, external)}
        \cup (IF s.exemplar /\ s.bad = "no" THEN {getJobAndInstance(s, "none")} ELSE {})

initTransaction(s) ==
    /\ isNew' = FALSE
    /\ nodeResources' = Or(nodeResources, [r \in Resources(s) |-> {}])

addScopeAttributesFromLabels(s) ==
    scopeAttributes' =
        IF s.scope = "attributes"
        THEN Or(scopeAttributes, [k \in Resources(s) \X {s.scope} |-> "labels"])
        ELSE scopeAttributes

\* Fault: attributes of a scope that was seen before are not taken.
addScopeInfoOnce(r, s) ==
    scopeAttributes' = IF \E k \in DOMAIN families : k.resource = r /\ k.scope = s.scope
                       THEN scopeAttributes ELSE Put(scopeAttributes, <<r, s.scope>>, "info")

addScopeInfo(r, s) == scopeAttributes' = Put(scopeAttributes, <<r, s.scope>>, "info")

\* Neither the labels nor the target have an instance: there is no resource.
errNoJobInstance(s) == s.bad = "noInstance"

\* A sample that fails the scrape: the context is done, or its labels are wrong.
\* Labels with a resource create it all the same.
AppendFails(s) ==
    /\ outcome = "open" /\ Len(appended) < MaxSamples
    /\ cancelled \/ s.bad # "no"
    /\ IF cancelled \/ errNoJobInstance(s) THEN UNCHANGED <<isNew, nodeResources>> ELSE initTransaction(s)
    /\ appended' = Append(appended, Entry(s, Nowhere, NoRef, "failed"))
    /\ UNCHANGED <<target, external, outcome, cancelled, scopeAttributes, families, sent>>

\* target_info and otel_scope_info are about the resource and the scope.
AppendInfo(s) ==
    LET r == getJobAndInstance(s, external)
    IN  /\ outcome = "open" /\ Len(appended) < MaxSamples /\ ~ cancelled /\ s.bad = "no"
        /\ s.name \in {TargetInfo, ScopeInfo} /\ s.kind = "number"
        /\ isNew' = FALSE
        /\ IF s.name = TargetInfo
           THEN /\ nodeResources' =
                      Put(nodeResources, r,
                          {s.attr} \cup (IF r \in DOMAIN nodeResources THEN nodeResources[r] ELSE {}))
                /\ UNCHANGED scopeAttributes
           ELSE /\ nodeResources' = Or(nodeResources, [x \in {r} |-> {}])
                /\ addScopeInfo(r, s)
        /\ appended' = Append(appended, Entry(s, Key(r, s.scope, FALSE, s.name), NoRef, "info"))
        /\ UNCHANGED <<target, external, outcome, cancelled, families, sent>>

AppendSample(s) ==
    LET native == IsNative(s)
        to == addDatapoint(families, getJobAndInstance(s, external), s, native, s.kind = "nhcb")
    IN  /\ outcome = "open" /\ Len(appended) < MaxSamples /\ ~ cancelled /\ s.bad = "no"
        /\ s.name \notin {TargetInfo, ScopeInfo}
        /\ initTransaction(s)
        /\ addScopeAttributesFromLabels(s)
        /\ families' = appendExemplar(to.fams, s, native)
        /\ appended' = Append(appended, Entry(s, to.key, to.ref, to.part))
        /\ UNCHANGED <<target, external, outcome, cancelled, sent>>

-----------------------------------------------------------------------------
(* From groups to points. *)

\* A float below zero has no unsigned value; the low bits remain.
Uint64(x) == x % Word

\* The sum of the first n counts, and all these sums.
Total(counts, n) ==
    LET sum[i \in 0..n] == IF i = 0 THEN 0 ELSE sum[i - 1] + counts[i]
    IN  sum[n]
RunningTotals(counts) == [i \in DOMAIN counts |-> Total(counts, i)]
Zeros(n) == [i \in 1..n |-> 0]

\* Spans are laid out one after the other, with zeros between them: after[k] is what
\* the loop has after k spans.
LayOut(spans, counts) ==
    LET after[k \in 0..Len(spans)] ==
            IF k = 0 THEN [out |-> <<>>, idx |-> 0]
            ELSE LET a == after[k - 1]
                 IN  [out |-> a.out \o (IF k = 1 THEN <<>> ELSE Zeros(spans[k].offset))
                                \o [i \in 1..spans[k].length |-> Uint64(counts[a.idx + i])],
                      idx |-> a.idx + spans[k].length]
    IN  after[Len(spans)].out

\* Integer counts are differences, and the bucket count is their running total.
convertDeltaBuckets(h) == LayOut(h.spans, RunningTotals(h.counts))
convertAbsoluteBuckets(h) == LayOut(h.spans, h.counts)

\* Custom buckets: one more than there are boundaries; what lies beyond is cut off.
Fitting(h, start, span, left) ==
    Min({span.length, left} \cup {IF start < h.custom + 1 THEN h.custom + 1 - start ELSE 0})

\* restart: every span begins with the first count.
LayIn(h, counts, restart) ==
    LET after[k \in 0..Len(h.spans)] ==
            IF k = 0 THEN [out |-> Zeros(h.custom + 1), pos |-> 0, idx |-> 0]
            ELSE LET a == after[k - 1]
                     start == a.pos + h.spans[k].offset
                     n == Fitting(h, start, h.spans[k], Len(h.counts) - a.idx)
                 IN  [out |-> [i \in 1..(h.custom + 1) |->
                                 IF i \in (start + 1)..(start + n)
                                 THEN Uint64(counts[a.idx + i - start]) ELSE a.out[i]],
                      pos |-> start + n, idx |-> IF restart THEN 0 ELSE a.idx + n]
    IN  after[Len(h.spans)].out

\* Float counts are counted from the start of each span.
convertNHCBBDeltBuckets(h) == LayIn(h, RunningTotals(h.counts), FALSE)
convertNHCBAbsoluteBuckets(h) == LayIn(h, h.counts, TRUE)

\* Fault: the boundaries are left in the order of the scrape.
sortPointsNever(mg) == mg.points

\* Where a point comes when they are sorted by boundary.
Rank(pts, i) ==
    Cardinality({j \in DOMAIN pts : \/ pts[j].boundary < pts[i].boundary
                                    \/ pts[j].boundary = pts[i].boundary /\ j <= i})
sortPoints(mg) ==
    LET At(k) == CHOOSE i \in DOMAIN mg.points : Rank(mg.points, i) = k
    IN  [k \in 1..Len(mg.points) |-> mg.points[At(k)]]

IsStale(mg) == mg.sum = Stale \/ mg.count = Stale

Point(key, mf, mg) ==
    [key |-> key, name |-> mf.name, mtype |-> mf.mtype, ts |-> mg.ts, ls |-> mg.ls,
     start |-> IF mf.mtype = "gauge" THEN 0 ELSE mg.created, stale |-> FALSE, value |-> 0,
     count |-> 0, sum |-> 0, bounds |-> <<>>, buckets |-> <<>>, offset |-> 0,
     exemplars |-> IF mf.mtype = "summary" THEN 0 ELSE mg.exemplars,
     resource |-> nodeResources[key.resource],
     scope |-> IF key.scope # NoLabel /\ <<key.resource, key.scope>> \in DOMAIN scopeAttributes
               THEN scopeAttributes[<<key.resource, key.scope>>] ELSE NoLabel]

\* Classic buckets are cumulative; the one of +Inf is left to the count.
ClassicBuckets(mg) ==
    LET pts == sortPoints(mg)
        n == IF pts # <<>> /\ Last(pts).boundary = Inf THEN Len(pts) - 1 ELSE Len(pts)
        below(i) == IF i = 1 THEN 0 ELSE pts[i - 1].value
        upto(i) == IF i = n + 1 THEN mg.count ELSE pts[i].value
    IN  [bounds |-> [i \in 1..n |-> pts[i].boundary],
         buckets |-> [i \in 1..(n + 1) |->
                        IF IsStale(mg) THEN 0 ELSE Uint64(upto(i) - below(i))]]

CustomBuckets(mg) ==
    [bounds |-> [i \in 1..mg.h.custom |-> i],
     buckets |-> IF mg.counts = "integer" THEN convertNHCBBDeltBuckets(mg.h)
                 ELSE convertNHCBAbsoluteBuckets(mg.h)]

toDistributionPoint(key, mf, mg) ==
    LET b == IF mg.nhcb THEN CustomBuckets(mg) ELSE ClassicBuckets(mg)
    IN  IF mg.count = None \/ (mg.nhcb /\ mg.h.custom = 0) THEN {}
        ELSE {[Point(key, mf, mg) EXCEPT
                 !.stale = IsStale(mg), !.bounds = b.bounds, !.buckets = b.buckets,
                 !.count = IF IsStale(mg) THEN 0 ELSE mg.count,
                 !.sum = IF IsStale(mg) \/ mg.sum = None THEN 0 ELSE mg.sum]}

toExponentialHistogramDataPoints(key, mf, mg) ==
    IF mg.count = None THEN {}
    ELSE IF mg.sum = Stale THEN {[Point(key, mf, mg) EXCEPT !.stale = TRUE]}
    ELSE {[Point(key, mf, mg) EXCEPT
             !.count = mg.count, !.sum = mg.sum,
             !.offset = IF mg.h.spans = <<>> THEN 0 ELSE Head(mg.h.spans).offset - 1,
             !.buckets = IF mg.counts = "integer" THEN convertDeltaBuckets(mg.h)
                         ELSE convertAbsoluteBuckets(mg.h)]}

toSummaryPoint(key, mf, mg) ==
    IF mg.count = None THEN {}
    ELSE {[Point(key, mf, mg) EXCEPT
             !.stale = IsStale(mg),
             !.bounds = [i \in DOMAIN mg.points |->
                           [sortPoints(mg)[i] EXCEPT !.value = IF IsStale(mg) THEN 0 ELSE @]],
             !.count = IF IsStale(mg) THEN 0 ELSE mg.count,
             !.sum = IF IsStale(mg) \/ mg.sum = None THEN 0 ELSE mg.sum]}

toNumberDataPoint(key, mf, mg) ==
    IF mg.value = None THEN {}
    ELSE {[Point(key, mf, mg) EXCEPT
             !.stale = mg.value = Stale, !.value = IF mg.value = Stale THEN 0 ELSE mg.value]}

appendMetric(key) ==
    LET mf == families[key]
    IN  UNION {CASE mf.mtype = "histogram" -> toDistributionPoint(key, mf, mf.groups[r])
                 [] mf.mtype = "summary" -> toSummaryPoint(key, mf, mf.groups[r])
                 [] mf.mtype = "exponential" ->
                       toExponentialHistogramDataPoints(key, mf, mf.groups[r])
                 [] OTHER -> toNumberDataPoint(key, mf, mf.groups[r]) : r \in DOMAIN mf.groups}

getMetrics ==
    UNION {appendMetric(k) : k \in {k \in DOMAIN families : k.resource \in DOMAIN nodeResources}}

Commit(ok) ==
    /\ outcome = "open"
    /\ sent' = IF isNew THEN {} ELSE getMetrics
    /\ outcome' = IF ~ isNew /\ families = <<>> THEN "noData" ELSE IF sent' = {} THEN "nothing"
                ELSE IF ok THEN "committed" ELSE "failed"
    /\ UNCHANGED <<target, external, cancelled, isNew, nodeResources, scopeAttributes, families,
                   appended>>

Rollback ==
    /\ outcome = "open" /\ outcome' = "rolledBack"
    /\ UNCHANGED <<target, external, cancelled, isNew, nodeResources, scopeAttributes, families,
                   appended, sent>>

Cancel ==
    /\ outcome = "open" /\ cancelled = FALSE /\ cancelled' = TRUE
    /\ UNCHANGED <<target, external, outcome, isNew, nodeResources, scopeAttributes, families,
                   appended, sent>>

Next ==
    \/ \E s \in target.samples : AppendFails(s) \/ AppendInfo(s) \/ AppendSample(s)
    \/ \E ok \in BOOLEAN : Commit(ok)
    \/ Rollback
    \/ Cancel

Spec == Init /\ [][Next]_vars
-----------------------------------------------------------------------------
(* Properties. *)

Number == Nat \cup {Stale, None}

\* Type correctness: families have types and are kept under their own names, and
\* groups have numbers.
TypeOK ==
    /\ target \in Targets /\ external \in {"none", "label", "job"}
    /\ outcome \in {"open", "committed", "failed", "nothing", "noData", "rolledBack"}
    /\ cancelled \in BOOLEAN /\ isNew \in BOOLEAN /\ Len(appended) <= MaxSamples
    /\ \A k \in DOMAIN families :
          /\ families[k].mtype \in MetricTypes /\ families[k].name = k.name
          /\ k.resource \in DOMAIN nodeResources
          /\ \A r \in DOMAIN families[k].groups :
                LET mg == families[k].groups[r]
                IN  {mg.count, mg.sum, mg.value} \subseteq Number /\ mg.ls = r

Done == outcome \notin {"open", "rolledBack"}
Entries == {appended[i] : i \in DOMAIN appended}
In(e, p) == p.key = e.key /\ p.ls = e.ref

\* A name whose metadata is that of a family it is no part of (a gauge's name with a
\* suffix) makes a family in the place of that one.
Collides(s) ==
    LET other == metadataForMetric(s.name).name
        mf == newMetricFamily(other, IsNative(s), s.kind = "nhcb")
    IN  /\ other # s.name
        /\ \/ mf.mtype = "gauge"
           \/ normalizeMetricName(s.name) # (IF mf.mtype = "sum" THEN mf.family ELSE mf.name)
Displaced(e) == \E x \in Entries : x.key = e.key /\ Collides(x.sample)

Carries(p, e) ==
    CASE e.part = "value" -> IF e.sample.val = Stale THEN p.stale ELSE p.value = e.sample.val
      [] e.part = "count" -> p.stale \/ p.count = e.sample.val
      [] e.part = "sum" -> p.stale \/ p.sum = e.sample.val
      [] e.part = "point" ->
            IF p.mtype = "summary"
            THEN \E i \in DOMAIN p.bounds : /\ p.bounds[i].boundary = e.sample.quantile
                                            /\ p.stale \/ p.bounds[i].value = e.sample.val
            ELSE e.sample.le = Inf \/ \E i \in DOMAIN p.bounds : p.bounds[i] = e.sample.le
      [] e.part = "histogram" -> p.stale \/ p.count = e.sample.val
      [] OTHER -> TRUE

\* What became of the i-th sample: it is in the batch, or a later sample of the
\* series replaced it (not a bucket or a quantile, each of which is a point of its
\* own), or nothing made a point of its group: the count is missing, or custom
\* buckets came without boundaries.
Arrives(i) ==
    LET e == appended[i]
        mine == {j \in DOMAIN appended : In(appended[j], [key |-> e.key, ls |-> e.ref])}
    IN  \/ \E p \in sent : In(e, p) /\ Carries(p, e)
        \/ e.part # "point" /\ \E j \in mine : j > i /\ appended[j].part = e.part
        \/ e.part \in {"sum", "point"} /\ \A j \in mine : appended[j].part # "count"
        \/ e.part = "histogram" /\ \E j \in mine : /\ appended[j].sample.kind = "nhcb"
                                                  /\ appended[j].sample.h.custom = 0

Taken(i) == appended[i].part \in {"value", "count", "sum", "point", "histogram"}

\* Every sample that became a part of a group, each bucket and each quantile for
\* itself, is in the batch or was replaced, as long as no other family was put in the
\* place of its own.
NothingLost ==
    Done => \A i \in DOMAIN appended : Taken(i) /\ ~ Displaced(appended[i]) => Arrives(i)

\* DESIGN.md of the receiver: it "shall not drop data".  The same of every sample, also
\* when getOrCreateMetricFamily makes a family under a name that is taken.  Not so: the
\* new family displaces the old one with all its samples.
NothingDropped == Done => \A i \in DOMAIN appended : Taken(i) => Arrives(i)

\* No point mixes times: every sample of it has the point's timestamp.
OneTimestamp ==
    Done => \A e \in Entries, p \in sent :
        In(e, p) /\ e.part \notin {"error", "failed", "info"} /\ ~ Displaced(e) => p.ts = e.sample.ts

\* A target or a series that goes away: the marker of a gauge, a counter or a native
\* histogram without another sample of its series arrives as a point without a
\* recorded value.  With custom buckets under the same name it may not: the marker
\* is stored as an exponential histogram, which that family refuses.
StaleSeen ==
    Done => \A e \in Entries :
        LET type == metadataForMetric(e.sample.name).type
        IN  /\ e.sample.val = Stale /\ e.sample.kind = "number"
            /\ e.part \notin {"failed", "info", "created"} /\ ~ Displaced(e)
            /\ type # "summary" /\ (type = "histogram" => HasMetadata(e.sample.name))
            /\ \A x \in Entries \ {e} : x.key = e.key =>
                  /\ x.sample.kind # "nhcb"
                  /\ x.ref = e.ref => x.part = "created" /\ x.sample.ts = e.sample.ts
            => \E p \in sent : In(e, p) /\ p.stale

\* Where a span begins, how many counts come before it, and the count of a bucket.
Offsets(h) == [j \in DOMAIN h.spans |-> h.spans[j].offset]
Lengths(h) == [j \in DOMAIN h.spans |-> h.spans[j].length]
SpanStart(h, k) == Total(Offsets(h), k) + Total(Lengths(h), k - 1)
Before(h, k) == Total(Lengths(h), k - 1)
Scraped(s, i) == IF s.counts = "integer" THEN Total(s.h.counts, i) ELSE s.h.counts[i]

\* A histogram the parser lets through: spans that do not overlap and, with custom
\* buckets, stay within the boundaries, one count for each bucket, none below zero.
Valid(s) ==
    LET n == Len(s.h.spans)
    IN  /\ \A k \in 1..n : k > 1 \/ s.kind = "nhcb" => s.h.spans[k].offset >= 0
        /\ Total(Lengths(s.h), n) = Len(s.h.counts)
        /\ \A i \in DOMAIN s.h.counts : Scraped(s, i) \in 0..(Word - 1)
        /\ s.kind = "nhcb" => Total(Offsets(s.h), n) + Total(Lengths(s.h), n) <= s.h.custom + 1

\* Every bucket of the sample stands where its span puts it, and there are no others.
NativeRight(p, s) ==
    LET first == IF p.mtype = "exponential" THEN p.offset + 1 ELSE 0
        filled == UNION {(SpanStart(s.h, k) - first + 1)..(SpanStart(s.h, k) - first + s.h.spans[k].length)
                           : k \in DOMAIN s.h.spans}
    IN  /\ \A k \in DOMAIN s.h.spans : \A i \in 1..s.h.spans[k].length :
              /\ SpanStart(s.h, k) - first + i \in DOMAIN p.buckets
              /\ p.buckets[SpanStart(s.h, k) - first + i] = Scraped(s, Before(s.h, k) + i)
        /\ \A i \in DOMAIN p.buckets \ filled : p.buckets[i] = 0

\* Buckets as a target counts them: cumulative, one number for a boundary, none stale.
Cumulative(parts, count) ==
    /\ \A e \in parts : e.sample.val # Stale /\ e.sample.val <= count
    /\ \A e, x \in parts : e.sample.le < x.sample.le => e.sample.val <= x.sample.val
    /\ \A e, x \in parts : e.sample.le = x.sample.le => e.sample.val = x.sample.val

\* The buckets add up to the total and, up to every boundary, to what was scraped for it.
ClassicRight(p) ==
    LET parts == {e \in Entries : In(e, p) /\ e.part = "point"}
    IN  Cumulative(parts, p.count) /\ p.count < Word =>
          /\ Len(p.buckets) = Len(p.bounds) + 1
          /\ Total(p.buckets, Len(p.buckets)) = p.count
          /\ \A e \in parts : e.sample.le # Inf =>
                \E i \in DOMAIN p.bounds : p.bounds[i] = e.sample.le
          /\ \A e \in parts : \A i \in DOMAIN p.bounds :
                p.bounds[i] = e.sample.le => Total(p.buckets, i) = e.sample.val

\* Float counts of custom buckets in more than one span.
Scattered(s) == s.kind = "nhcb" /\ s.counts = "float" /\ Len(s.h.spans) > 1

\* The one native histogram a point is made of, if there is just one.
Whole(p) == {e \in Entries : In(e, p) /\ e.part = "histogram"}
OneWhole(p, e) == Whole(p) = {e} /\ Valid(e.sample)

\* The batch's bucket counts are the scraped ones, in whatever order the buckets
\* came: a classic histogram's add up to the cumulative count at every boundary and
\* to the total, a native one's stand where their span puts them.  Left out are the
\* float counts of custom buckets in more than one span: see CustomBucketsRight.
BucketsRight ==
    Done => \A p \in sent : ~ p.stale /\ ~ Displaced(p) =>
        /\ p.mtype = "histogram" /\ Whole(p) = {} => ClassicRight(p)
        /\ \A e \in Whole(p) : OneWhole(p, e) /\ ~ Scattered(e.sample) => NativeRight(p, e.sample)

\* metricfamily.go: convertNHCBAbsoluteBuckets "converts NHCB absolute buckets to otel
\* bucket counts", for any number of spans.  Not so: every span after the first is
\* filled with the counts of the first one.
CustomBucketsRight ==
    Done => \A p \in sent : ~ p.stale /\ ~ Displaced(p) =>
        \A e \in Whole(p) : OneWhole(p, e) => NativeRight(p, e.sample)

\* Without external labels every exemplar of a series that is sent goes with it.
ExemplarsFollow ==
    Done /\ external = "none" =>
        \A p \in sent : p.mtype # "summary" =>
            LET mine == {i \in DOMAIN appended : /\ In(appended[i], p) /\ appended[i].sample.exemplar
                                                 /\ appended[i].part \notin {"failed", "info"}}
            IN  (\A i \in mine : ~ Displaced(appended[i])) => p.exemplars = Cardinality(mine)

\* What target_info and otel_scope_info say reaches every point of the resource
\* and of the scope, also the points scraped before.
InfoReachesAll ==
    Done => \A p \in sent :
        LET infos(n) == {e \in Entries : e.part = "info" /\ e.sample.name = n
                                           /\ e.key.resource = p.key.resource}
        IN  /\ p.resource = {e.sample.attr : e \in infos(TargetInfo)}
            /\ p.key.scope = "lib" =>
                 (p.scope = "info" <=> \E e \in infos(ScopeInfo) : e.key.scope = "lib")
=============================================================================
