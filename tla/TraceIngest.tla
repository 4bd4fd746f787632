---------------------------- MODULE TraceIngest ----------------------------
(***************************************************************************)
(* Traces of one tenant: the consumer that stores a trace and counts it    *)
(* for the APM views (consumeTrace in application/ingestion/consume.ts, the*)
(* traces, spans_index, apm_endpoint_stats and apm_service_edges tables in *)
(* infrastructure/d1/repositories.ts), while deletion jobs erase traces    *)
(* (application/deletion/process.ts).  Each await is a step.  A step that  *)
(* throws returns the batch to the queue, and what it wrote stays.         *)
(***************************************************************************)
EXTENDS Naturals, FiniteSets, Sequences, Functions

CONSTANTS
  Message,     \* events of the ingest queue with kind "traces"
  Trace,       \* [Message -> trace id]
  Spans,       \* [Message -> sequence of spans]: [id, parent, service, peer, bucket]
  Day,         \* [Message -> date of the first span], a part of the object's key
  Consumer,    \* concurrent consumers of the ingest queue
  Eraser,      \* concurrent consumers of the deletion queue
  BatchSize,   \* messages of a batch
  MaxFaults,   \* bound: steps that throw
  MaxErasures  \* bound: traces erased

None == "none"
TraceId == {Trace[m] : m \in Message}
Days == {Day[m] : m \in Message}
SpanSet(m) == {Spans[m][i] : i \in 1 .. Len(Spans[m])}
Span == UNION {SpanSet(m) : m \in Message}
Service == {s.service : s \in Span} \union {s.peer : s \in Span}
Bucket == {s.bucket : s \in Span}
Endpoint == Service \X Days
Edge == Service \X Service \X Days

ASSUME TracesAssumption ==
  /\ \A m \in Message : Spans[m] \in Seq(Span) /\ Len(Spans[m]) > 0
  /\ {BatchSize, MaxFaults, MaxErasures} \subseteq Nat
  /\ None \notin Message \union TraceId \union Days

\* The object is the list of the message's spans; SpanSet stands for it, which
\* loses nothing when no span is twice in the list.
ASSUME SpansAssumption ==
  \A m \in Message : \A i, j \in 1 .. Len(Spans[m]) : Spans[m][i] = Spans[m][j] => i = j

VARIABLES
  db,      \* D1, R2 and the ingest queue
  con,     \* the consumers: [pc, batch, todo, m, at, hist]
  era,     \* the erasers: [pc, trace, day]
  faults, erasures,
  ghost    \* history the properties read

vars == <<db, con, era, faults, erasures, ghost>>

NoRow == [day |-> None, count |-> 0]
Free == [pc |-> "idle", batch |-> {}, todo |-> {}, m |-> None, at |-> 0, hist |-> <<>>]
Resting == [pc |-> "idle", trace |-> None, day |-> None]

Init ==
  /\ db = [queue |-> {}, dedup |-> {},
           objects |-> [t \in TraceId |-> [d \in Days |-> {}]],
           rows |-> [t \in TraceId |-> NoRow],
           index |-> [t \in TraceId |-> {}],
           requests |-> [e \in Endpoint |-> 0],
           hist |-> [e \in Endpoint |-> [b \in Bucket |-> 0]],
           calls |-> [e \in Edge |-> 0]]
  /\ con = [w \in Consumer |-> Free]
  /\ era = [e \in Eraser |-> Resting]
  /\ faults = 0 /\ erasures = 0
  /\ ghost = [sent |-> {}, raced |-> {}, crossed |-> {}, half |-> {}]

-----------------------------------------------------------------------------
At(w, label) == con[w].pc = label
Goto(w, label) == con' = [con EXCEPT ![w].pc = label]
Write(row) == db' = row
Only == UNCHANGED <<era, faults, erasures, ghost>>

\* The trace a consumer is writing, and those an eraser is deleting.
Writing(w) == IF con[w].m = None THEN {} ELSE {Trace[con[w].m]}
Touching(t) == {w \in Consumer : t \in Writing(w)} \union {e \in Eraser : era[e].trace = t}

\* publishIngest.  A client that got no answer sends the spans again under a
\* new event id: two messages may have the same spans.
Publish(m) ==
  /\ m \notin ghost.sent
  /\ Write([db EXCEPT !.queue = @ \union {m}])
  /\ ghost' = [ghost EXCEPT !.sent = @ \union {m}]
  /\ UNCHANGED <<con, era, faults, erasures>>

Receive(w, B) ==
  /\ At(w, "idle")
  /\ B # {} /\ Cardinality(B) <= BatchSize
  /\ Write([db EXCEPT !.queue = @ \ B])
  /\ con' = [con EXCEPT ![w].pc = "filter", ![w].batch = B]
  /\ Only

\* filterUnseen, once for the whole batch.
FilterUnseen(w) ==
  /\ At(w, "filter")
  /\ con' = [con EXCEPT ![w].pc = "next", ![w].todo = con[w].batch \ db.dedup]
  /\ UNCHANGED db /\ Only

\* The messages of a batch are taken one by one; after the last it is acknowledged.
Take(w, m) ==
  /\ At(w, "next") /\ m \in con[w].todo
  /\ con' = [con EXCEPT ![w].pc = "put", ![w].m = m, ![w].todo = @ \ {m}]
  /\ ghost' = [ghost EXCEPT !.crossed = IF Touching(Trace[m]) = {} THEN @ ELSE @ \union {Trace[m]}]
  /\ UNCHANGED <<db, era, faults, erasures>>

Acknowledge(w) ==
  /\ At(w, "next") /\ con[w].todo = {}
  /\ con' = [con EXCEPT ![w] = Free]
  /\ UNCHANGED db /\ Only

\* The object of a trace is replaced by the spans of this message.
PutTrace(w) ==
  LET m == con[w].m IN
  /\ At(w, "put")
  /\ Write([db EXCEPT !.objects[Trace[m]][Day[m]] = SpanSet(m)])
  /\ Goto(w, "save")
  /\ Only

\* traces.save: an upsert of the row, which may point to another object than before.
SaveTrace(w) ==
  LET m == con[w].m
      row == db.rows[Trace[m]] IN
  /\ At(w, "save")
  /\ Write([db EXCEPT !.rows[Trace[m]] = [day |-> Day[m], count |-> Len(Spans[m])]])
  /\ con' = [con EXCEPT ![w].pc = "index", ![w].at = 1]
  /\ ghost' = [ghost EXCEPT !.crossed =
       IF row.day \in {None, Day[m]} THEN @ ELSE @ \union {Trace[m]}]
  /\ UNCHANGED <<era, faults, erasures>>

Current(w) == Spans[con[w].m][con[w].at]
\* The next span, or what follows the last one.
Advance(w, label, after) ==
  IF con[w].at < Len(Spans[con[w].m])
  THEN con' = [con EXCEPT ![w].pc = label, ![w].at = @ + 1]
  ELSE con' = [con EXCEPT ![w].pc = after, ![w].at = 1]

\* ... and one INSERT per span, which keeps a span that is there.
IndexSpan(w) ==
  /\ At(w, "index")
  /\ Write([db EXCEPT !.index[Trace[con[w].m]] = @ \union {Current(w).id}])
  /\ Advance(w, "index", "apm")
  /\ Only

-----------------------------------------------------------------------------
(* The counters of the APM views, span by span.                            *)

EndpointOf(w) == <<Current(w).service, Day[con[w].m]>>

\* apm.increment reads the histogram of a root span's endpoint ...
ReadStats(w) ==
  /\ At(w, "apm")
  /\ IF Current(w).parent = None
     THEN con' = [con EXCEPT ![w].pc = "count", ![w].hist = db.hist[EndpointOf(w)]]
     ELSE Goto(w, "edge")
  /\ UNCHANGED db /\ Only

\* mergeLatencyHist(prev, observeLatency(empty, duration))
Observed(hist, bucket) == [hist EXCEPT ![bucket] = @ + 1]

\* Mutant: the observation is merged into what it was merged with already.
SaveStats_Twice(w) ==
  LET e == EndpointOf(w) IN
  /\ At(w, "count")
  /\ Write([db EXCEPT !.requests[e] = @ + 1,
                      !.hist[e] = Observed(Observed(con[w].hist, Current(w).bucket), Current(w).bucket)])
  /\ Goto(w, "edge")
  /\ Only

\* ... and writes it back, merged in memory; the counters are added by the upsert.
SaveStats(w) ==
  LET e == EndpointOf(w) IN
  /\ At(w, "count")
  /\ Write([db EXCEPT !.requests[e] = @ + 1,
                      !.hist[e] = Observed(con[w].hist, Current(w).bucket)])
  /\ ghost' = [ghost EXCEPT !.raced = IF db.hist[e] = con[w].hist THEN @ ELSE @ \union {e}]
  /\ Goto(w, "edge")
  /\ UNCHANGED <<era, faults, erasures>>

\* The edge a span stands for: from its parent's service, or from its peer when
\* the parent is not in the message; of a root, to its peer.  {} if none.
EdgeOf(m, s) ==
  LET parents == {p \in SpanSet(m) : p.id = s.parent}
      pair == IF s.parent = None THEN <<s.service, s.peer>>
              ELSE IF parents = {} THEN <<s.peer, s.service>>
              ELSE <<(CHOOSE p \in parents : TRUE).service, s.service>> IN
  IF None \in {pair[1], pair[2]} \/ (s.parent = None /\ s.peer = s.service) THEN {}
  ELSE {<<pair[1], pair[2], Day[m]>>}

\* Mutant: the span whose parent is in another message is forgotten.
CountEdge_Skips(w) ==
  /\ At(w, "edge")
  /\ UNCHANGED db
  /\ Advance(w, "apm", "remember")
  /\ Only

CountEdge(w) ==
  /\ At(w, "edge")
  /\ LET edge == EdgeOf(con[w].m, Current(w)) IN
     Write([db EXCEPT !.calls = [e \in Edge |-> IF e \in edge THEN @[e] + 1 ELSE @[e]]])
  /\ Advance(w, "apm", "remember")
  /\ Only

Remember(w) ==
  /\ At(w, "remember")
  /\ Write([db EXCEPT !.dedup = @ \union {con[w].m}])
  /\ con' = [con EXCEPT ![w].pc = "next", ![w].m = None, ![w].at = 0, ![w].hist = <<>>]
  /\ Only

\* The batch is retried as a whole; its remembered messages will be seen.
Throws(w) ==
  /\ ~At(w, "idle") /\ faults < MaxFaults
  /\ Write([db EXCEPT !.queue = @ \union con[w].batch])
  /\ con' = [con EXCEPT ![w] = Free]
  /\ faults' = faults + 1
  /\ UNCHANGED <<era, erasures, ghost>>

-----------------------------------------------------------------------------
(* The block of deletePage for traces: a row read by listExpired, then its *)
(* object, its spans and itself.                                           *)

ErasingAt(e, label) == era[e].pc = label
OnlyErase == UNCHANGED <<con, faults, erasures, ghost>>

ListTrace(e, t) ==
  /\ ErasingAt(e, "idle") /\ erasures < MaxErasures
  /\ db.rows[t] # NoRow
  /\ era' = [era EXCEPT ![e] = [pc |-> "object", trace |-> t, day |-> db.rows[t].day]]
  /\ erasures' = erasures + 1
  /\ ghost' = [ghost EXCEPT !.crossed = IF Touching(t) = {} THEN @ ELSE @ \union {t}]
  /\ UNCHANGED <<db, con, faults>>

DeleteObject(e) ==
  /\ ErasingAt(e, "object")
  /\ Write([db EXCEPT !.objects[era[e].trace][era[e].day] = {}])
  /\ era' = [era EXCEPT ![e].pc = "spans"]
  /\ OnlyErase

\* Mutant: the rows of the spans stay.
DeleteSpans_Skipped(e) ==
  /\ ErasingAt(e, "spans")
  /\ UNCHANGED db
  /\ era' = [era EXCEPT ![e].pc = "row"]
  /\ OnlyErase

DeleteSpans(e) ==
  /\ ErasingAt(e, "spans")
  /\ Write([db EXCEPT !.index[era[e].trace] = {}])
  /\ era' = [era EXCEPT ![e].pc = "row"]
  /\ OnlyErase

DeleteRow(e) ==
  /\ ErasingAt(e, "row")
  /\ Write([db EXCEPT !.rows[era[e].trace] = NoRow])
  /\ era' = [era EXCEPT ![e] = Resting]
  /\ ghost' = [ghost EXCEPT !.half = @ \ {era[e].trace}]
  /\ UNCHANGED <<con, faults, erasures>>

\* The job is failed and its page listed again: the row is still there.
EraseThrows(e) ==
  /\ ~ErasingAt(e, "idle") /\ faults < MaxFaults
  /\ era' = [era EXCEPT ![e] = Resting]
  /\ ghost' = [ghost EXCEPT !.half = @ \union {era[e].trace}]
  /\ faults' = faults + 1
  /\ UNCHANGED <<db, con, erasures>>

-----------------------------------------------------------------------------
Consume(w) ==
  \/ FilterUnseen(w) \/ (\E m \in Message : Take(w, m)) \/ Acknowledge(w)
  \/ PutTrace(w) \/ SaveTrace(w) \/ IndexSpan(w)
  \/ ReadStats(w) \/ SaveStats(w) \/ CountEdge(w) \/ Remember(w)
  \/ \E B \in SUBSET db.queue : Receive(w, B)
Erase(e) ==
  \/ DeleteObject(e) \/ DeleteSpans(e) \/ DeleteRow(e)
  \/ \E t \in TraceId : ListTrace(e, t)

Next ==
  \/ \E m \in Message : Publish(m)
  \/ \E w \in Consumer : Consume(w) \/ Throws(w)
  \/ \E e \in Eraser : Erase(e) \/ EraseThrows(e)

Spec == Init /\ [][Next]_vars

-----------------------------------------------------------------------------
(* Properties.                                                             *)

\* What a message stands for in the counters of the APM views.
Roots(m, e) == {i \in 1 .. Len(Spans[m]) :
  Spans[m][i].parent = None /\ <<Spans[m][i].service, Day[m]>> = e}
Calls(m, e) == {i \in 1 .. Len(Spans[m]) : e \in EdgeOf(m, Spans[m][i])}

\* The counters of an endpoint and of an edge are never below what the
\* remembered messages stand for: whatever is retried is counted again, and
\* nothing is remembered before it is counted.
NeverUndercounted ==
  /\ \A e \in Endpoint : db.requests[e] >=
       SumFunctionOnSet([m \in Message |-> Cardinality(Roots(m, e))], db.dedup)
  /\ \A e \in Edge : db.calls[e] >=
       SumFunctionOnSet([m \in Message |-> Cardinality(Calls(m, e))], db.dedup)

\* The histogram of an endpoint holds one observation per counted request, and
\* fewer only if two consumers merged into the same histogram at the same time.
HistogramLosesOnlyToRaces ==
  \A e \in Endpoint :
    LET seen == SumFunctionOnSet(db.hist[e], Bucket) IN
    seen <= db.requests[e] /\ (e \in ghost.raced \/ seen = db.requests[e])

\* No message of the trace is under way, and no eraser is at it or stopped midway.
Pending(t) == {m \in db.queue : Trace[m] = t}
  \union UNION {{m \in con[w].batch : Trace[m] = t} : w \in Consumer}
Settled(t) == Pending(t) = {} /\ Touching(t) = {} /\ t \notin ghost.half

\* A trace that no two consumers or erasers had in hand together is, when
\* nothing is under way, either stored, with a row that counts the spans of its
\* object and an index that holds them, or gone with its object and its index.
SettledTraceIsStored ==
  \A t \in TraceId : Settled(t) /\ t \notin ghost.crossed =>
    IF db.rows[t] = NoRow
    THEN db.index[t] = {} /\ \A d \in Days : db.objects[t][d] = {}
    ELSE LET spans == db.objects[t][db.rows[t].day] IN
         /\ Cardinality(spans) = db.rows[t].count
         /\ {s.id : s \in spans} \subseteq db.index[t]

\* STORAGE.md: one object per trace, and a waterfall is one read of it: the
\* object then holds every span that was remembered.
TraceIsWhole ==
  \A t \in TraceId : db.rows[t] # NoRow /\ erasures = 0 /\ t \notin ghost.crossed =>
    \A m \in db.dedup : Trace[m] = t => SpanSet(m) \subseteq db.objects[t][db.rows[t].day]
=============================================================================
