------------------------------ MODULE QueryPath ------------------------------
(***************************************************************************)
(* A query of logs or metrics (application/query), from the request to its *)
(* answer: the answer cache, the tables and the R2 bucket it reads while   *)
(* consumers store chunks and deletion jobs erase them, and the pool that  *)
(* fetches the objects (shared/map-pool.ts).  The languages are LogQuery   *)
(* and MetricQuery.  Each await is one step.                               *)
(***************************************************************************)
EXTENDS MetricQuery

CONSTANTS
  Stream,      \* by id, [tenant, signal, name, labels]: log streams and metric series
  Chunk,       \* by id, [stream, start, end, items]: what consumers store
  Late,        \* bound: the chunks that are not stored yet at first
  Request,     \* what clients ask: [tenant, signal, text, range, limit, step]
  Expression,  \* abstract syntax trees whose texts must be understood
  MaxStreams, MaxChunks, MaxRows,  \* DEFAULT_QUERY_LIMITS
  PoolSize,    \* concurrency of mapPool
  MaxRequests, \* bound: requests
  MaxChanges   \* bound: steps of consumers and deletion jobs

ASSUME LimitsAssumption ==
  /\ {MaxStreams, MaxChunks, MaxRows, PoolSize, MinStep, MaxRange} \subseteq Nat \ {0}
  /\ {MaxRequests, MaxChanges} \subseteq Nat

\* f with v at k.
With(f, k, v) == [j \in DOMAIN f \union {k} |-> IF j = k THEN v ELSE f[j]]

StreamOf(c) == Stream[Chunk[c].stream]
Tagged(s, items) == [i \in DOMAIN items |-> With(items[i], "stream", s)]
Entries(c) == Tagged(Chunk[c].stream, Chunk[c].items)

\* The tables are finite, and a chunk holds a sequence of entries.  An entry of a
\* log has an id of its own and is in one place (IngestPipeline's StoredOnce).
ASSUME TablesAssumption ==
  /\ IsFiniteSet(DOMAIN Stream) /\ IsFiniteSet(DOMAIN Chunk)
  /\ \A c \in DOMAIN Chunk :
       /\ Chunk[c].stream \in DOMAIN Stream /\ Chunk[c].start \in Int
       /\ Len(Chunk[c].items) \in Nat /\ DOMAIN Chunk[c].items = 1 .. Len(Chunk[c].items)
       /\ \A i \in DOMAIN Chunk[c].items : Entries(c)[i].timestamp \in Int
  /\ \A c, d \in DOMAIN Chunk : StreamOf(c).signal = "logs" /\ StreamOf(d).signal = "logs" =>
       \A i \in DOMAIN Entries(c), j \in DOMAIN Entries(d) : Entries(c)[i] = Entries(d)[j] => c = d /\ i = j

\* A limit is a number of rows: the route takes it as it comes, and what a
\* negative one would do is left out.
ASSUME RequestAssumption ==
  \A r \in Request : r.range.start \in Int /\ r.range.end \in Int /\ r.limit \in Nat

VARIABLES
  status,      \* status of each chunk's row, "none" when there is no row
  objects,     \* R2: chunks whose object exists
  cache,       \* answers of log queries, by key
  phase, request,
  streams,     \* the log streams listed, or the series listed that match
  listed,      \* the chunks listed
  keys,        \* the chunks to fetch, in order
  next,        \* mapPool: the index to be claimed next
  inflight,    \* mapPool: indices being fetched
  bodies,      \* what each index returned; Missing when there was no object
  answer,
  erased,      \* history: chunks whose row had no object at some time since the request
  requests, changes

store == <<status, objects>>
query == <<phase, request, streams, listed, keys, next, inflight, bodies, answer>>
vars == <<store, cache, query, erased, requests, changes>>

Missing == <<>>   \* null, which adds nothing to the entries of its stream
Nothing == [type |-> "nothing"]

\* What the parser makes of each request, computed once.
Ast == [r \in Request |-> IF r.signal = "logs" THEN ParseLog(r.text) ELSE ParseMetric[r.text]]
Parsed(r) == Ast[r] # (IF r.signal = "logs" THEN Refused ELSE Unread)

Init ==
  /\ objects = DOMAIN Chunk \ Late
  /\ status = [c \in DOMAIN Chunk |-> IF c \in objects THEN "ready" ELSE "none"]
  /\ cache = <<>>
  /\ phase = "idle" /\ request = Nothing
  /\ streams = <<>> /\ listed = {} /\ keys = <<>>
  /\ next = 1 /\ inflight = {} /\ bodies = <<>>
  /\ answer = Nothing
  /\ erased = {} /\ requests = 0 /\ changes = 0

-----------------------------------------------------------------------------
(* The request.                                                            *)

\* Mutant: the key of an answer does not name the tenant.
CacheKey_NoTenant(r) == <<r.text, r.range, r.limit>>
CacheKey(r) == <<r.tenant, r.text, r.range, r.limit>>

\* The variables of a request are its own.
Forget ==
  /\ streams' = <<>> /\ listed' = {} /\ keys' = <<>>
  /\ next' = 1 /\ inflight' = {} /\ bodies' = <<>>
  /\ answer' = Nothing

\* Bound: a query of metrics leaves nothing behind, so it is asked first or not
\* at all.
MayAsk(r) == requests < MaxRequests /\ (r.signal = "metrics" => requests = 0)

Submit(r) ==
  /\ phase \in {"idle", "answered", "cached", "refused"}
  /\ MayAsk(r)
  /\ requests' = requests + 1
  /\ request' = r
  /\ phase' = IF r.text = <<>> \/ r.range.end - r.range.start \notin 1 .. MaxRange THEN "refused"
              ELSE IF r.signal = "logs" THEN "lookup" ELSE "parse"
  /\ Forget
  /\ erased' = {c \in DOMAIN Chunk : status[c] # "none" /\ c \notin objects}
  /\ UNCHANGED <<store, cache, changes>>

Lookup ==
  /\ phase = "lookup"
  /\ IF CacheKey(request) \in DOMAIN cache
     THEN phase' = "cached" /\ answer' = cache[CacheKey(request)]
     ELSE phase' = "parse" /\ UNCHANGED answer
  /\ UNCHANGED <<store, cache, request, streams, listed, keys, next, inflight, bodies, erased,
                 requests, changes>>

\* KV drops an answer at its expiration.
Expire ==
  /\ cache # <<>>
  /\ \E k \in DOMAIN cache : cache' = [j \in DOMAIN cache \ {k} |-> cache[j]]
  /\ UNCHANGED <<store, query, erased, requests, changes>>

-----------------------------------------------------------------------------
(* The tables.  Log streams are listed by last_seen_at, which changes with *)
(* every batch, and the other lists have no order: any order, and of more  *)
(* rows than the limit any, may be returned.                               *)

Lists(S, limit) == UNION {SetToSeqs(T) : T \in kSubset(Min({limit, Cardinality(S)}), S)}

Candidates(ast) ==
  {s \in DOMAIN Stream : /\ Stream[s].signal = request.signal /\ Stream[s].tenant = request.tenant
                         /\ request.signal = "metrics" => Stream[s].name = Leaf(ast).name}

\* The limit comes before the label matchers.
ListStreams ==
  LET ast == Ast[request]
      Kept(s) == request.signal = "logs" \/ SeriesMatches(Stream[s], Leaf(ast).matchers)
  IN
  /\ phase = "parse"
  /\ IF ~Parsed(request) \/ (request.signal = "logs" /\ ~IsValid(ast))
     THEN phase' = "refused" /\ UNCHANGED <<streams, answer>>
     ELSE \E list \in Lists(Candidates(ast), MaxStreams) :
            /\ streams' = Pick(list, {i \in DOMAIN list : Kept(list[i])})
            /\ IF request.signal = "metrics" /\ streams' = <<>>
               THEN phase' = "answered" /\ answer' = [type |-> "metrics", matrix |-> <<>>]
               ELSE phase' = "chunks" /\ UNCHANGED answer
  /\ UNCHANGED <<store, cache, request, listed, keys, next, inflight, bodies, erased, requests,
                 changes>>

\* The chunks of every listed log stream, matching or not, count for the limit,
\* of metrics also those that are not ready.  The list is cut at the limit that
\* the next line of the source compares its length with.
InRange ==
  {c \in DOMAIN Chunk :
    /\ Chunk[c].end >= request.range.start /\ Chunk[c].start <= request.range.end
    /\ Chunk[c].stream \in ToSet(streams)
    /\ IF request.signal = "logs" THEN status[c] = "ready"
       ELSE status[c] \notin {"none", "gone"}}

\* buildPlan: the listed log streams that match.
Planned == IF request.signal = "metrics" THEN streams
           ELSE Pick(streams, {i \in DOMAIN streams :
                                 StreamMatches(Stream[streams[i]], Selector(Ast[request]).matchers)})

\* selectChunks: of what was listed, the ready chunks of matching streams.
SelectChunks(list, ids) ==
  LET chosen == Pick(list, {i \in DOMAIN list : Chunk[list[i]].stream \in ids})
  IN SortedBy(chosen, [i \in DOMAIN chosen |-> Chunk[chosen[i]].start])

ListChunks ==
  /\ phase = "chunks"
  /\ \E list \in Lists(InRange, MaxChunks) :
       /\ keys' = IF request.signal = "logs" THEN SelectChunks(list, ToSet(Planned))
                  ELSE Pick(list, {i \in DOMAIN list : status[list[i]] = "ready"})
       /\ listed' = ToSet(list)
  /\ phase' = "fetch"
  /\ UNCHANGED <<store, cache, request, streams, next, inflight, bodies, answer, erased, requests,
                 changes>>

-----------------------------------------------------------------------------
(* mapPool: a worker claims an index, awaits the object and claims again.  *)

Claim ==
  /\ phase = "fetch"
  /\ next <= Len(keys) /\ Cardinality(inflight) < PoolSize
  /\ inflight' = inflight \union {next}
  /\ next' = next + 1
  /\ UNCHANGED <<store, cache, phase, request, streams, listed, keys, bodies, answer, erased,
                 requests, changes>>

\* Mutant: results are kept in the order of their arrival.
Fetch_Arrival(i) ==
  /\ phase = "fetch" /\ i \in inflight
  /\ inflight' = inflight \ {i}
  /\ bodies' = With(bodies, Cardinality(DOMAIN bodies) + 1,
                    IF keys[i] \in objects THEN Chunk[keys[i]].items ELSE Missing)
  /\ UNCHANGED <<store, cache, phase, request, streams, listed, keys, next, answer, erased,
                 requests, changes>>

Fetch(i) ==
  /\ phase = "fetch" /\ i \in inflight
  /\ inflight' = inflight \ {i}
  /\ bodies' = With(bodies, i, IF keys[i] \in objects THEN Chunk[keys[i]].items ELSE Missing)
  /\ UNCHANGED <<store, cache, phase, request, streams, listed, keys, next, answer, erased,
                 requests, changes>>

\* A call throws, or the deadline has passed when an index is claimed: the
\* request fails.
Fail ==
  /\ phase \in {"lookup", "parse", "chunks", "fetch"}
  /\ phase' = "idle" /\ request' = Nothing /\ erased' = {}
  /\ Forget
  /\ UNCHANGED <<store, cache, requests, changes>>

-----------------------------------------------------------------------------
(* The answer.                                                             *)

\* What was fetched of a stream, chunk by chunk.
Bundle(s) == Tagged(s, Joined(Pick(bodies, {i \in DOMAIN keys : Chunk[keys[i]].stream = s})))

\* The samples of a series, as they were fetched and then in time order.
Fetched(s) ==
  LET all == Bundle(s)
  IN Pick(all, {i \in DOMAIN all : all[i].timestamp \in request.range.start .. request.range.end})

\* Mutant: samples stay in the order of their chunks.
Samples_Unsorted(s) == Fetched(s)

Samples(s) == SortedBy(Fetched(s), [i \in DOMAIN Fetched(s) |-> Fetched(s)[i].timestamp])

RowLimit == Min({request.limit, MaxRows})

Execute ==
  LET ast == Ast[request] IN
  IF request.signal = "logs"
  THEN ExecuteEntries(ast, request.range, [i \in DOMAIN Planned |-> Bundle(Planned[i])], RowLimit)
  ELSE ExecuteMetric(ast, [i \in DOMAIN streams |->
                            [labels |-> Stream[streams[i]].labels, samples |-> Samples(streams[i])]],
                     request.range, request.step)

\* A log answer is cached even when objects were missing or rows cut off.
Answer ==
  /\ phase = "fetch"
  /\ DOMAIN bodies = DOMAIN keys
  /\ answer' = Execute
  /\ phase' = "answered"
  /\ cache' = IF request.signal = "logs" THEN With(cache, CacheKey(request), answer') ELSE cache
  /\ UNCHANGED <<store, request, streams, listed, keys, next, inflight, bodies, erased, requests,
                 changes>>

-----------------------------------------------------------------------------
(* Consumers and deletion jobs (IngestPipeline, DeletionJobs).             *)

Changing == changes < MaxChanges /\ changes' = changes + 1
SetStatus(c, st) == status' = [status EXCEPT ![c] = st]

\* A row that is pending is not fetched, so its object may come with it.
Store(c) ==
  /\ Changing
  /\ \/ status[c] = "none" /\ SetStatus(c, "pending")
     \/ status[c] = "pending" /\ SetStatus(c, "ready")
  /\ objects' = objects \union {c}
  /\ UNCHANGED <<cache, query, erased, requests>>

\* deletePage: a log row is marked first; the object goes before the row.
Mark(c) ==
  /\ Changing
  /\ StreamOf(c).signal = "logs" /\ status[c] = "ready"
  /\ SetStatus(c, "deleting")
  /\ UNCHANGED <<objects, cache, query, erased, requests>>

DeleteObject(c) ==
  /\ Changing
  /\ c \in objects
  /\ status[c] = (IF StreamOf(c).signal = "logs" THEN "deleting" ELSE "ready")
  /\ objects' = objects \ {c} /\ erased' = erased \union {c}
  /\ UNCHANGED <<status, cache, query, requests>>

DeleteRow(c) ==
  /\ Changing
  /\ c \notin objects /\ status[c] \notin {"none", "gone"}
  /\ SetStatus(c, "gone")
  /\ UNCHANGED <<objects, cache, query, erased, requests>>

-----------------------------------------------------------------------------
Next ==
  \/ \E r \in Request : Submit(r)
  \/ Lookup \/ Expire \/ ListStreams \/ ListChunks \/ Claim
  \/ \E i \in inflight : Fetch(i)
  \/ Fail \/ Answer
  \/ \E c \in DOMAIN Chunk : Store(c) \/ Mark(c) \/ DeleteObject(c) \/ DeleteRow(c)

Spec == Init /\ [][Next]_vars

-----------------------------------------------------------------------------
(* The text of an expression, as the documentation writes it               *)
(* (QUERY_ENGINE.md).                                                      *)

Literal(v) == CHOOSE x \in DOMAIN Quoted : Quoted[x] = v
Numeral(v) == CHOOSE x \in DOMAIN Number : Number[x] = v
Listed(parts) == FlattenSeq([i \in DOMAIN parts |-> IF i = 1 THEN parts[i] ELSE <<",">> \o parts[i]])
Matchers(ms) == <<"{">> \o Listed([i \in DOMAIN ms |-> <<ms[i].name, ms[i].op, Literal(ms[i].value)>>])
                \o <<"}">>
StageText(s) ==
  CASE s.type = "lineContains" -> <<"|=", Literal(s.value)>>
    [] s.type = "lineRegex" -> <<"|~", Literal(s.value)>>
    [] s.type = "json" -> <<"|", "json">>
    [] OTHER -> <<"|", s.field, s.op, Literal(s.value)>>
SelectorText(e) == Matchers(e.matchers) \o FlattenSeq([i \in DOMAIN e.pipeline |-> StageText(e.pipeline[i])])
LogText(e) ==
  IF e.type = "selector" THEN SelectorText(e)
  ELSE <<e.fn, "(">> \o SelectorText(e.selector) \o <<e.range, ")">>

MetricText(e) ==
  LET From[k \in DOMAIN e] ==
        LET n == e[k] IN
        CASE n.type = "selector" -> <<n.name>> \o (IF n.matchers = <<>> THEN <<>> ELSE Matchers(n.matchers))
          [] n.type = "func" -> <<n.fn, "(">> \o From[k + 1] \o <<n.range, ")">>
          [] n.type = "agg" -> <<n.op, "by", "(">> \o Listed([i \in DOMAIN n.by |-> <<n.by[i]>>])
                               \o <<")", "(">> \o From[k + 1] \o <<")">>
          [] n.type = "topk" -> <<IF n.bottom THEN "bottomk" ELSE "topk", "(", Numeral(<<n.k, 1>>), ",">>
                                \o From[k + 1] \o <<")">>
          [] OTHER -> <<"histogram_quantile", "(", Numeral(n.q), ",">> \o From[k + 1] \o <<")">>
  IN From[1]

Text(signal, e) == IF signal = "logs" THEN LogText(e) ELSE MetricText(e)

-----------------------------------------------------------------------------
(* Properties.                                                             *)

\* What the parsers make of a text is what the text says: an expression they
\* accept reads as the text, but for the commas that parseMatchers skips, and
\* the text of an expression is accepted as that expression.  (A topk or
\* quantile over a selector with two matchers is refused: see SplitArgs.)
ParsesBack ==
  LET ast == Ast[request]
      Bare(text) == IF request.signal = "logs" THEN text ELSE SelectSeq(text, LAMBDA x : x # ",")
      Split(e) == /\ e.signal = "metrics" /\ e.ast[1].type \in {"topk", "histogram_quantile"}
                  /\ Len(Leaf(e.ast).matchers) > 1
  IN phase = "parse" =>
     /\ Parsed(request) => Bare(Text(request.signal, ast)) = Bare(request.text)
     /\ \A e \in Expression : e.signal = request.signal /\ Text(e.signal, e.ast) = request.text
                              /\ ~Split(e) => ast = e.ast

\* An answer, fresh or from the cache, holds entries of the asking tenant only.
OwnEntriesOnly ==
  phase \in {"answered", "cached"} =>
    /\ \A c \in listed : StreamOf(c).tenant = request.tenant
    /\ answer.type = "logs" => \A h \in ToSet(answer.hits) :
         Stream[h.stream].tenant = request.tenant

\* The entries of each chunk that a log query asks for.
Wanted ==
  [r \in {q \in Request : q.signal = "logs" /\ Parsed(q)} |->
    [c \in DOMAIN Chunk |->
      {e \in ToSet(Entries(c)) :
        /\ StreamMatches(StreamOf(c), Selector(Ast[r]).matchers)
        /\ e.timestamp >= r.range.start /\ e.timestamp <= r.range.end
        /\ EntryPasses(e, Selector(Ast[r]).pipeline)}]]

\* A point of an aggregation counts the entries of its bucket: all of those in
\* must, and no other than those in may.
PointsCount(series, ast, may, must) ==
  LET width == Max({MinStep, Duration[ast.range]})
      seconds == IF ast.fn = "rate" THEN width \div MinStep ELSE 1
      In(S, b) == Cardinality({e \in S : Floor(e.timestamp, width) = b})
      buckets == {Floor(e.timestamp, width) : e \in may}
  IN /\ DOMAIN series \subseteq buckets
     /\ \A b \in buckets :
          LET point == IF b \in DOMAIN series THEN series[b] ELSE <<0, seconds>> IN
          point[1] \in In(must, b) .. In(may, b) /\ point[2] = seconds

\* An answer of at most limit rows has nothing but entries that it may have,
\* each once and in time order, and all that it must have unless the limit cut
\* it, and says so exactly when it did.
IsExact(ast, limit, a, may, must) ==
  /\ IF a.truncated THEN Cardinality(may) > limit ELSE Cardinality(must) <= limit
  /\ ast.type = "selector" =>
       /\ ToSet(a.hits) \subseteq may
       /\ IF a.truncated THEN Len(a.hits) = limit ELSE must \subseteq ToSet(a.hits)
       /\ \A i, j \in DOMAIN a.hits : i < j =>
            a.hits[i] # a.hits[j] /\ a.hits[i].timestamp <= a.hits[j].timestamp
  /\ ast.type = "aggregation" /\ ~a.truncated => PointsCount(a.series, ast, may, must)

\* A log answer is exact for the chunks listed, however the fetches and the
\* deletions interleave: what it may have is in a chunk that was listed, and
\* what it must have is in one that nobody deleted meanwhile.
LogAnswerIsExact ==
  phase = "answered" /\ answer.type = "logs" =>
    IsExact(Ast[request], RowLimit, answer,
            UNION {Wanted[request][c] : c \in listed},
            UNION {Wanted[request][c] : c \in listed \ erased})

\* The samples that a query reads of each series asked.
Stored ==
  [s \in ToSet(streams) |->
    {x \in UNION {ToSet(Tagged(s, Chunk[c].items)) : c \in {k \in ToSet(keys) : Chunk[k].stream = s}} :
       x.timestamp >= request.range.start /\ x.timestamp <= request.range.end}]

LatestUntil(S, t) == {x \in S : x.timestamp <= t /\ \A y \in S : y.timestamp <= t => y.timestamp <= x.timestamp}

\* The value of a node over the samples S at t, none or one.
Expected(e, S, t) ==
  LET W == {x \in S : x.timestamp <= t /\ x.timestamp >= t - Duration[e.range]}
      first == CHOOSE x \in W : \A y \in W : x.timestamp <= y.timestamp
      last == CHOOSE x \in W : \A y \in W : x.timestamp >= y.timestamp
      sum == MapThenSumSet(LAMBDA x : x.value[1], W)
      grown == last.value[1] - (IF last.value[1] < first.value[1] THEN 0 ELSE first.value[1])
      seconds == Max({1, (last.timestamp - first.timestamp) \div MinStep})
  IN IF e.type # "func" THEN {x.value : x \in LatestUntil(S, t)}
     ELSE IF W = {} THEN {}
     ELSE {CASE e.fn = "sum_over_time" -> <<sum, 1>>
             [] e.fn = "avg_over_time" -> <<sum, Cardinality(W)>>
             [] e.fn = "max_over_time" -> <<Max({x.value[1] : x \in W}), 1>>
             [] OTHER -> <<IF Cardinality(W) = 1 THEN 0 ELSE grown,
                           IF e.fn = "rate" /\ Cardinality(W) > 1 THEN seconds ELSE 1>>}

\* The upper bound of the first bucket that reaches the share q of the count,
\* and the last finite bound if it has none.
QuantileOf(buckets, q) ==
  LET D == DOMAIN buckets
      falls == \E b, c \in D : b < c /\ buckets[b] > buckets[c]
      Cum(b) == IF falls THEN MapThenSumSet(LAMBDA c : buckets[c], {c \in D : c <= b}) ELSE buckets[b]
      finite == D \ {Infinity}
      reached == {b \in finite : Cum(b) * q[2] >= q[1] * Cum(Max(D))}
  IN IF Cum(Max(D)) = 0 \/ finite = {} THEN 0 ELSE IF reached # {} THEN Min(reached) ELSE Max(finite)

Without(labels, k) == [j \in DOMAIN labels \ {k} |-> labels[j]]

\* At the times where there is a value.
Values(at) == [t \in {u \in DOMAIN at : at[u] # {}} |-> CHOOSE v \in at[t] : TRUE]
LabelsOf(s) == Stream[s].labels

\* The value of an aggregation over the series of a group, at t.
Aggregated(e, group, stored, t) ==
  LET parts == SetToSeq(UNION {{<<s, v>> : v \in Expected(e[2], stored[s], t)} : s \in group})
      values == [k \in DOMAIN parts |-> parts[k][2]]
  IN CASE values = <<>> -> {}
       [] e[1].op = "sum" -> {Total(values)}
       [] OTHER -> {Mean(values)}

\* The buckets at t of the series whose labels, but for le, are g, and those
\* that the samples of the series g carry.
Carried(g, stored, t) ==
  UNION {{x.buckets : x \in LatestUntil(stored[s], t)} : s \in {a \in DOMAIN stored : LabelsOf(a) = g}}
Gathered(g, stored, t) ==
  LET Bound(s) == IF LabelsOf(s)["le"] = "+Inf" THEN Infinity ELSE Number[LabelsOf(s)["le"]][1]
      points == UNION {{<<Bound(s), x.value[1]>> : x \in LatestUntil(stored[s], t)} :
                        s \in {a \in DOMAIN stored : "le" \in DOMAIN LabelsOf(a) /\ Without(LabelsOf(a), "le") = g}}
  IN [b \in {p[1] : p \in points} |-> (CHOOSE p \in points : p[1] = b)[2]]
Quantiles(g, q, stored, t) ==
  {<<QuantileOf(b, q), 1>> : b \in ({Gathered(g, stored, t)} \union Carried(g, stored, t)) \ {<<>>}}

\* The series that e denotes, given the samples stored of each series asked:
\* labels, and a value at each time that has one.
Denoted(e, stored, times) ==
  LET asked == DOMAIN stored IN
  CASE e[1].type = "agg" ->
         {[labels |-> g,
           values |-> Values([t \in times |->
             Aggregated(e, {s \in asked : GroupOf(Stream[s], e[1].by) = g}, stored, t)])] :
           g \in {GroupOf(Stream[s], e[1].by) : s \in asked}}
    [] e[1].type = "histogram_quantile" ->
         {[labels |-> g, values |-> Values([t \in times |-> Quantiles(g, e[1].q, stored, t)])] :
           g \in {Without(LabelsOf(s), "le") : s \in asked}}
    [] OTHER ->
         {[labels |-> LabelsOf(s), values |-> Values([t \in times |-> Expected(e[1], stored[s], t)])] : s \in asked}

\* The matrix has the series denoted, and of topk k that none of the others
\* ranks before.
IsMatrixOf(matrix, denoted, ast) ==
  LET Is(a, d) == /\ a.labels = d.labels /\ DOMAIN a.values = DOMAIN d.values
                  /\ \A t \in DOMAIN a.values : Same(a.values[t], d.values[t])
      left == {d \in denoted : \A i \in DOMAIN matrix : matrix[i].labels # d.labels}
  IN /\ \A i \in DOMAIN matrix : \E d \in denoted : Is(matrix[i], d)
     /\ Cardinality({matrix[i].labels : i \in DOMAIN matrix}) = Len(matrix)
     /\ Len(matrix) = IF ast[1].type = "topk" THEN Min({ast[1].k, Cardinality(denoted)}) ELSE Cardinality(denoted)
     /\ ast[1].type = "topk" => \A d \in left : \A i \in DOMAIN matrix : ~RanksBefore(d, matrix[i], ast[1].bottom)

\* A metric answer is exact when nothing it lists was deleted meanwhile: it
\* has the series the expression denotes, each with its value at every step
\* that has one (QUERY_ENGINE.md); topk keeps k series none of the others
\* ranks before.
MatrixIsExact ==
  phase = "answered" /\ answer.type = "metrics" /\ streams # <<>> /\ listed \intersect erased = {} =>
    LET ast == Ast[request] IN
    IsMatrixOf(answer.matrix,
               Denoted(IF ast[1].type = "topk" THEN Tail(ast) ELSE ast, Stored,
                       ToSet(Times(request.range, request.step))),
               ast)
=============================================================================
