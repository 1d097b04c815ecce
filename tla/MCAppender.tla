------------------------------ MODULE MCAppender ------------------------------
(* Five targets: plain numbers, a counter with exemplars and infos, classic      *)
(* histograms and summaries, native histograms with and without metadata; and    *)
(* one of scattered custom buckets, for a run of its own.                        *)
EXTENDS Appender

Plain(n, val) ==
    [name |-> n, job |-> "j", attr |-> "a", scope |-> "", le |-> None, quantile |-> None,
     ts |-> 1, st |-> 0, val |-> val, kind |-> "number", counts |-> "integer",
     h |-> NoHistogram, exemplar |-> FALSE, bad |-> "no"]

Bucket(le, val) == [Plain(<<"h", "bucket">>, val) EXCEPT !.le = le]
Span(offset, length) == [offset |-> offset, length |-> length]
Native(kind, counts, layout) ==
    [Plain(<<"n">>, 5) EXCEPT !.kind = kind, !.counts = counts, !.h = layout]

\* A gauge, a metric with a suffix and no metadata, an untyped one.
Numbers ==
    [store |-> (<<"g">> :> "gauge"),
     samples |-> {Plain(<<"g">>, 1), [Plain(<<"g">>, 2) EXCEPT !.attr = "b", !.exemplar = TRUE],
                  [Plain(<<"g">>, 3) EXCEPT !.ts = 2], Plain(<<"g">>, Stale),
                  Plain(<<"g", "count">>, 4), [Plain(<<"u">>, 5) EXCEPT !.job = ""],
                  [Plain(<<"u">>, 6) EXCEPT !.bad = "duplicate"],
                  [Plain(<<"u">>, 7) EXCEPT !.bad = "noInstance"], Plain(<<"up">>, 0)}]

Counters ==
    [store |-> (<<"c">> :> "counter") @@ (<<"i">> :> "info") @@ (<<"x">> :> "gaugehistogram"),
     samples |-> {[Plain(<<"c", "total">>, 1) EXCEPT !.exemplar = TRUE, !.st = 1],
                  [Plain(<<"c", "total">>, 2) EXCEPT !.scope = "lib"],
                  [Plain(<<"c", "total">>, 3) EXCEPT !.scope = "attributes"],
                  Plain(<<"c", "created">>, 4), Plain(<<"c", "total">>, Stale),
                  Plain(<<"i", "info">>, 1), Plain(TargetInfo, 1), Plain(<<"x", "count">>, 2),
                  [Plain(ScopeInfo, 1) EXCEPT !.scope = "lib"]}]

Classic ==
    [store |-> (<<"h">> :> "histogram") @@ (<<"s">> :> "summary"),
     samples |-> {Bucket(1, 1), Bucket(3, 2), [Bucket(Inf, 4) EXCEPT !.exemplar = TRUE],
                  Bucket(None, 2), Plain(<<"h", "count">>, 4), Plain(<<"h", "sum">>, 9),
                  [Plain(<<"h", "count">>, 5) EXCEPT !.ts = 2], Plain(<<"h", "count">>, Stale),
                  Plain(<<"h", "created">>, 1), [Plain(<<"s">>, 7) EXCEPT !.quantile = 5],
                  Plain(<<"s", "count">>, 1)}]

Sparse == [spans |-> <<Span(1, 2), Span(2, 1)>>, counts |-> <<2, 1, -1>>, custom |-> 0]
SparseFloat == [Sparse EXCEPT !.counts = <<2, 3, 2>>]
Custom == [spans |-> <<Span(0, 1), Span(1, 2)>>, counts |-> <<2, 1, -1>>, custom |-> 3]
CustomFloat == [spans |-> <<Span(1, 2)>>, counts |-> <<2, 3>>, custom |-> 3]

Natives ==
    [store |-> (<<"n">> :> "histogram"),
     samples |-> {[Native("native", "integer", Sparse) EXCEPT !.exemplar = TRUE],
                  Native("native", "float", SparseFloat),
                  Native("nhcb", "integer", Custom),
                  [Native("nhcb", "float", CustomFloat) EXCEPT !.attr = "b", !.st = 1],
                  [Native("native", "integer", Sparse) EXCEPT !.ts = 2],
                  Plain(<<"n">>, Stale), [Plain(<<"n">>, Stale) EXCEPT !.attr = "b"],
                  Plain(<<"n", "created">>, 2), Plain(<<"n", "count">>, 5)}]

\* The same native histograms scraped without metadata.
Unknown == [Natives EXCEPT !.store = <<>>]

\* Custom buckets with float counts in two spans.
CustomFloatScattered ==
    [spans |-> <<Span(0, 1), Span(1, 2)>>, counts |-> <<2, 3, 4>>, custom |-> 3]
Scatter ==
    [store |-> (<<"n">> :> "histogram"),
     samples |-> {Native("nhcb", "float", CustomFloatScattered),
                  [Native("nhcb", "float", CustomFloat) EXCEPT !.attr = "b"]}]

MCNumbers == {Numbers}
MCScatter == {Scatter}
MCTargets == {Numbers, Counters, Classic, Natives, Unknown}
=============================================================================
