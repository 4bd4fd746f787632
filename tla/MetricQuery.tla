----------------------------- MODULE MetricQuery -----------------------------
(***************************************************************************)
(* The metric query language (src/domain/metrics/query): parseMetricQuery, *)
(* the choice of series and the evaluation over step-aligned times.        *)
(*                                                                         *)
(* A text is a sequence of lexemes, as in LogQuery; where the source       *)
(* matches the text with regular expressions, the lexemes they would match *)
(* are named.  An expression is the sequence of its nodes, from the        *)
(* outermost to the selector.  A value is a fraction <<numerator,          *)
(* denominator>>: rounding is left out.                                    *)
(***************************************************************************)
EXTENDS LogQuery

CONSTANTS
  Number,      \* the value of a numeric lexeme, a fraction
  MaxK,        \* 100, the largest k of topk
  MaxPoints    \* 1100, the most times of an answer

Functions == {"rate", "increase", "avg_over_time", "sum_over_time", "max_over_time"}
Unread == <<Refused>>  \* a text that is no expression
Infinity == 1000000    \* the bound of the bucket +Inf

Less(a, b) == a[1] * b[2] < b[1] * a[2]
Plus(a, b) == IF a[2] = b[2] THEN <<a[1] + b[1], a[2]>> ELSE <<a[1] * b[2] + b[1] * a[2], a[2] * b[2]>>
Same(a, b) == a[1] * b[2] = b[1] * a[2]
Total(values) == FoldSeq(Plus, <<0, 1>>, values)
Mean(values) == LET sum == Total(values) IN <<sum[1], sum[2] * Len(values)>>

-----------------------------------------------------------------------------
(* Parser.                                                                 *)

Inside(text, from) == SubSeq(text, from, Len(text) - 1)
Call(text, names) ==
  /\ Len(text) >= 4 /\ text[1] \in names /\ text[2] = "(" /\ text[Len(text)] = ")"

\* Mutant: a comma inside inner parentheses separates arguments too.
SplitArgs_AnyComma(text) ==
  LET Cut(k) == text[k] = ","
      starts == {1} \union {k + 1 : k \in {j \in DOMAIN text : Cut(j)}}
      End(s) == Min({k - 1 : k \in {j \in DOMAIN text : j >= s /\ Cut(j)}} \union {Len(text)})
      args == SetToSortSeq({<<s, End(s)>> : s \in starts}, LAMBDA a, b : a[1] < b[1])
  IN SelectSeq([i \in DOMAIN args |-> SubSeq(text, args[i][1], args[i][2])], LAMBDA a : a # <<>>)

\* splitArgs: only parentheses nest, so the commas between label matchers cut.
SplitArgs(text) ==
  LET Open(k, x) == Cardinality({j \in 1 .. k : text[j] = x})
      Cut(k) == text[k] = "," /\ Open(k, "(") = Open(k, ")")
      starts == {1} \union {k + 1 : k \in {j \in DOMAIN text : Cut(j)}}
      End(s) == Min({k - 1 : k \in {j \in DOMAIN text : j >= s /\ Cut(j)}} \union {Len(text)})
      args == SetToSortSeq({<<s, End(s)>> : s \in starts}, LAMBDA a, b : a[1] < b[1])
  IN SelectSeq([i \in DOMAIN args |-> SubSeq(text, args[i][1], args[i][2])], LAMBDA a : a # <<>>)

\* parseMatchers looks for matchers wherever they are: commas are optional.
ParseMatchers(body) ==
  LET ts == Tokenize(SelectSeq(body, LAMBDA x : x # ","))
      n == Len(ts) \div 3
  IN IF Len(ts) = 3 * n /\ \A k \in 1 .. n : IsMatcher(ts, 3 * k - 2)
     THEN [k \in 1 .. n |-> ParseMatcher(ts, 3 * k - 2)]
     ELSE Unread

ParseMetricSelector(text) ==
  LET matchers == ParseMatchers(IF Len(text) > 1 THEN Inside(text, 3) ELSE <<>>) IN
  IF /\ text # <<>> /\ text[1] \in Word
     /\ Len(text) = 1 \/ (Len(text) >= 3 /\ text[2] = "{" /\ text[Len(text)] = "}")
     /\ Len(SelectSeq(text, LAMBDA x : x = "}")) <= 1
     /\ matchers # Unread
  THEN <<[type |-> "selector", name |-> text[1], matchers |-> matchers]>>
  ELSE Unread

\* The node with its inner expression, which must itself parse.
Around(node, inner) == IF inner = Unread THEN Unread ELSE <<node>> \o inner

ParseMetric[text \in Seq(STRING)] ==
  LET last == Len(text)
      args == SplitArgs(Inside(text, 3))
      by == Min({k \in DOMAIN text : k > 3 /\ text[k] = ")"} \union {last})
  IN CASE Call(text, {"topk", "bottomk"}) ->
            IF /\ Len(args) = 2 /\ Len(args[1]) = 1 /\ args[1][1] \in DOMAIN Number
               /\ LET k == Number[args[1][1]] IN k[2] = 1 /\ k[1] \in 1 .. MaxK
            THEN Around([type |-> "topk", k |-> Number[args[1][1]][1], bottom |-> text[1] = "bottomk"],
                        ParseMetric[args[2]])
            ELSE Unread
       [] Call(text, {"histogram_quantile"}) ->
            IF /\ Len(args) = 2 /\ Len(args[1]) = 1 /\ args[1][1] \in DOMAIN Number
               /\ LET q == Number[args[1][1]] IN Less(<<0, 1>>, q) /\ Less(q, <<1, 1>>)
            THEN Around([type |-> "histogram_quantile", q |-> Number[args[1][1]]],
                        ParseMetric[args[2]])
            ELSE Unread
       [] /\ last > by + 2 /\ text[1] \in {"sum", "avg"} /\ text[2] = "by" /\ text[3] = "("
          /\ text[by + 1] = "(" /\ text[last] = ")" ->
            Around([type |-> "agg", op |-> text[1],
                    by |-> SelectSeq(SubSeq(text, 4, by - 1), LAMBDA x : x # ",")],
                   ParseMetric[Inside(text, by + 2)])
       [] Call(text, Functions) /\ last > 4 /\ text[last - 1] \in DOMAIN Duration ->
            Around([type |-> "func", fn |-> text[1], range |-> text[last - 1]],
                   ParseMetric[SubSeq(text, 3, last - 2)])
       [] OTHER -> ParseMetricSelector(text)

Leaf(ast) == Last(ast)

-----------------------------------------------------------------------------
(* Series: a label that is missing is the empty string.                    *)

\* matchLabels.
SeriesMatches(series, matchers) ==
  \A m \in ToSet(matchers) :
    LET actual == IF m.name \in DOMAIN series.labels THEN series.labels[m.name] ELSE "" IN
    \/ m.op = "=" /\ actual = m.value
    \/ m.op = "!=" /\ actual # m.value
    \/ m.op = "=~" /\ m.value \in DOMAIN Matches /\ actual \in Matches[m.value]
    \/ m.op = "!~" /\ m.value \in DOMAIN Matches /\ actual \notin Matches[m.value]

\* stepAlign.
Times(range, step) ==
  LET width == Max({MinStep, step})
      grid == [k \in 1 .. (range.end - range.start) \div width + 1 |-> range.start + (k - 1) * width]
      all == IF Last(grid) < range.end THEN Append(grid, range.end) ELSE grid
  IN SubSeq(all, 1, Min({MaxPoints, Len(all)}))

-----------------------------------------------------------------------------
(* Evaluation of a series' samples, in time order.                         *)

\* sampleAt: it stops at the first later sample.
SamplesUntil(samples, t) ==
  LET later == {i \in DOMAIN samples : samples[i].timestamp > t} IN
  SubSeq(samples, 1, Min({i - 1 : i \in later} \union {Len(samples)}))

\* valueAt: no value, or one.
ValueAt(samples, t) ==
  LET until == SamplesUntil(samples, t) IN
  IF until = <<>> THEN <<>> ELSE <<Last(until).value>>

Increase(window) ==
  LET delta == window[Len(window)].value[1] - window[1].value[1] IN
  IF delta < 0 THEN window[Len(window)].value[1] ELSE delta

\* applyFuncAt.
ApplyFunc(fn, samples, t, span) ==
  LET window == SelectSeq(samples, LAMBDA s : s.timestamp \in (t - span) .. t)
      values == [i \in DOMAIN window |-> window[i].value]
      seconds == Max({1, (Last(window).timestamp - window[1].timestamp) \div MinStep})
  IN CASE window = <<>> -> <<>>
       [] fn = "avg_over_time" -> <<Mean(values)>>
       [] fn = "sum_over_time" -> <<Total(values)>>
       [] fn = "max_over_time" -> <<CHOOSE v \in ToSet(values) : \A w \in ToSet(values) : ~Less(v, w)>>
       [] OTHER -> IF Len(window) < 2 THEN <<<<0, 1>>>>
                   ELSE <<<<Increase(window), IF fn = "rate" THEN seconds ELSE 1>>>>

\* evalSeries: under a function or a selector of the samples; any other
\* expression is read as the selector it ends in.
EvalSeries(node, series, times) ==
  LET At(t) == IF node.type = "func" THEN ApplyFunc(node.fn, series.samples, t, Duration[node.range])
               ELSE ValueAt(series.samples, t)
      point == [i \in DOMAIN times |-> At(times[i])]
  IN [labels |-> series.labels,
      values |-> [t \in {times[i] : i \in {j \in DOMAIN times : point[j] # <<>>}} |->
                   point[CHOOSE i \in DOMAIN times : times[i] = t][1]]]

LabelOf(series, k) == IF k \in DOMAIN series.labels THEN series.labels[k] ELSE ""
GroupOf(series, by) == [k \in ToSet(by) |-> LabelOf(series, k)]

\* aggregate: one series for each value of the by labels.
Aggregate(op, by, matrix) ==
  LET First(i) == \A j \in 1 .. i - 1 : GroupOf(matrix[j], by) # GroupOf(matrix[i], by)
      heads == SelectSeq([i \in DOMAIN matrix |-> i], First)
      Members(i, t) == SelectSeq(matrix, LAMBDA s : GroupOf(s, by) = GroupOf(matrix[i], by)
                                                    /\ t \in DOMAIN s.values)
      At(i, t) == LET ms == Members(i, t)
                      values == [k \in DOMAIN ms |-> ms[k].values[t]]
                  IN IF op = "sum" THEN Total(values) ELSE Mean(values)
      Group(i) == [labels |-> GroupOf(matrix[i], by),
                   values |-> [t \in {u \in UNION {DOMAIN s.values : s \in ToSet(matrix)} :
                                        Members(i, u) # <<>>} |-> At(i, t)]]
  IN [k \in DOMAIN heads |-> Group(heads[k])]

\* Does a rank before b?  A series without values has the value -Infinity.
RanksBefore(a, b, bottom) ==
  LET LastOf(s) == s.values[Max(DOMAIN s.values)] IN
  IF DOMAIN a.values = {} \/ DOMAIN b.values = {}
  THEN IF bottom THEN DOMAIN a.values = {} /\ DOMAIN b.values # {}
       ELSE DOMAIN a.values # {} /\ DOMAIN b.values = {}
  ELSE IF bottom THEN Less(LastOf(a), LastOf(b)) ELSE Less(LastOf(b), LastOf(a))

TopK(matrix, k, bottom) ==
  LET ranked == SetToSortSeq(DOMAIN matrix, LAMBDA i, j :
        RanksBefore(matrix[i], matrix[j], bottom)
        \/ (~RanksBefore(matrix[j], matrix[i], bottom) /\ i < j))
  IN [i \in 1 .. Min({k, Len(matrix)}) |-> matrix[ranked[i]]]

\* quantileFromBuckets: counts that never fall are taken for cumulative.
QuantileFromBuckets(buckets, phi) ==
  LET bounds == SetToSortSeq(DOMAIN buckets, <)
      Count(i) == buckets[bounds[i]]
      cumulative == \A i \in 2 .. Len(bounds) : Count(i) >= Count(i - 1)
      Cum(i) == IF cumulative THEN Count(i) ELSE MapThenSumSet(Count, 1 .. i)
      n == Len(bounds)
      reaching == {i \in 1 .. n : Cum(i) * phi[2] >= phi[1] * Cum(n)}
      at == Min(reaching)
  IN IF n = 0 \/ Cum(n) = 0 THEN 0
     ELSE IF bounds[at] # Infinity THEN bounds[at]
     ELSE IF n = 1 THEN 0 ELSE bounds[n - 1]

\* applyHistogramQuantile: buckets that are series of their own, told apart by
\* the label le, or the buckets a sample carries.
BucketSeries(series, q, times) ==
  LET Rest(s) == [k \in DOMAIN s.labels \ {"le"} |-> s.labels[k]]
      Bound(s) == IF s.labels["le"] = "+Inf" THEN Infinity ELSE Number[s.labels["le"]][1]
      withLe == SelectSeq(series, LAMBDA s : "le" \in DOMAIN s.labels)
      First(i) == \A j \in 1 .. i - 1 : Rest(withLe[j]) # Rest(withLe[i])
      heads == SelectSeq([i \in DOMAIN withLe |-> i], First)
      Present(i, t) == {s \in ToSet(withLe) : Rest(s) = Rest(withLe[i]) /\ ValueAt(s.samples, t) # <<>>}
      BucketsAt(i, t) == [b \in {Bound(s) : s \in Present(i, t)} |->
                           ValueAt((CHOOSE s \in Present(i, t) : Bound(s) = b).samples, t)[1][1]]
  IN [k \in DOMAIN heads |->
       [labels |-> Rest(withLe[heads[k]]),
        values |-> [t \in {u \in ToSet(times) : Present(heads[k], u) # {}} |->
                     <<QuantileFromBuckets(BucketsAt(heads[k], t), q), 1>>]]]

BucketSamples(series, q, times) ==
  LET With(s) == {t \in ToSet(times) : LET until == SamplesUntil(s.samples, t) IN
                                         until # <<>> /\ Last(until).buckets # <<>>}
  IN [i \in DOMAIN series |->
       [labels |-> series[i].labels,
        values |-> [t \in With(series[i]) |->
          <<QuantileFromBuckets(Last(SamplesUntil(series[i].samples, t)).buckets, q), 1>>]]]

\* evalInnerMatrices, from the outermost node inwards.
EvalMatrix(ast, series, times) ==
  LET Each(node) == [i \in DOMAIN series |-> EvalSeries(node, series[i], times)]
      From[k \in DOMAIN ast] ==
        LET node == ast[k] IN
        CASE node.type = "topk" -> TopK(From[k + 1], node.k, node.bottom)
          [] node.type = "histogram_quantile" ->
               IF \E s \in ToSet(series) : "le" \in DOMAIN s.labels
               THEN BucketSeries(series, node.q, times)
               ELSE BucketSamples(series, node.q, times)
          [] node.type = "agg" -> Aggregate(node.op, node.by, Each(ast[k + 1]))
          [] OTHER -> Each(node)
  IN From[1]

\* executeMetricAst.
ExecuteMetric(ast, series, range, step) ==
  [type |-> "metrics", matrix |-> EvalMatrix(ast, series, Times(range, step))]
=============================================================================
