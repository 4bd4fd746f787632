--------------------------- MODULE IngestPipeline ---------------------------
(***************************************************************************)
(* The ingestion of logs or metrics: events that requests publish to the   *)
(* ingest queue (application/ingestion/ingest.ts), the consumers that      *)
(* deduplicate a batch, group it by stream and write one chunk per stream  *)
(* (application/ingestion/consume.ts), the tables and the R2 bucket they   *)
(* write, and the cron that reconciles pending chunks (index.ts).          *)
(*                                                                         *)
(* Each await of a consumer is one step.  A step that throws, or that      *)
(* kills the isolate, returns the whole batch to the queue; a call that    *)
(* took effect and then threw is a step followed by Throws.                *)
(*                                                                         *)
(* Event ids are natural numbers in the order of the ids as strings.  They *)
(* are UUIDs: the chunk id, the first 32 characters of the sorted ids of a *)
(* bucket, then depends on the least id only.                              *)
(***************************************************************************)
EXTENDS Naturals, FiniteSets

CONSTANTS
  Signal,      \* "logs" or "metrics"
  Event,       \* events clients send: [tenant, id, stream, day]
  Copies,      \* bound: times a client sends an event
  Worker,      \* concurrent consumers of the ingest queue
  Cron,        \* cron invocations that may overlap
  BatchSize,   \* max_batch_size of the queue
  MaxRetries,  \* max_retries of the queue
  MaxStreams,  \* MAX_STREAMS_PER_TENANT or MAX_SERIES_PER_TENANT
  MaxFaults    \* bound: calls that throw and consumers killed

Tenant == {e.tenant : e \in Event}
Stream == {e.stream : e \in Event}
Day == {e.day : e \in Event}
Id == {e.id : e \in Event}
Message == Event \X (1 .. Copies)

ASSUME SignalAssumption == Signal \in {"logs", "metrics"}
\* A client never gives one id to two events.
ASSUME EventAssumption ==
  /\ \A e \in Event : e = [tenant |-> e.tenant, id |-> e.id, stream |-> e.stream, day |-> e.day]
  /\ \A e \in Event : e.id \in Nat /\ e.day \in Nat
  /\ \A e, f \in Event : e.tenant = f.tenant /\ e.id = f.id => e = f
ASSUME BoundsAssumption ==
  /\ {Copies, BatchSize} \subseteq Nat \ {0}
  /\ {MaxRetries, MaxStreams, MaxFaults} \subseteq Nat

VARIABLES
  sent,      \* history: messages published
  queue,     \* messages waiting in the ingest queue
  tries,     \* failed deliveries of each message
  dead,      \* messages in the dead-letter queue
  streams,   \* log_streams or metric_series: <<tenant, stream>>
  chunks,    \* log_chunks or metric_chunks, by chunk id
  objects,   \* R2: the messages whose entries an object holds, {} if absent
  dedup,     \* ingestion_dedup: <<tenant, event id>>
  dropped,   \* history: what was refused at the stream limit
  usage,     \* chunks counted in the tenant's stored bytes
  tail,      \* messages whose line was sent to the realtime hub
  pc, batch, asking, fresh, group, pick, opened, bucket,  \* the consumers
  found,     \* per cron: pending chunks it has read and not yet saved
  faults

queueVars == <<sent, queue, tries, dead>>
storeVars == <<streams, chunks, objects, dedup, dropped, usage, tail>>
localVars == <<asking, fresh, group, pick, opened, bucket>>
workerVars == <<pc, batch, localVars>>
vars == <<queueVars, storeVars, workerVars, found, faults>>

Label == {"idle", "filter", "group", "count", "insert", "drop", "put", "ready",
          "usage", "publish", "remember"}
Status == {"pending", "ready", "failed"}
Key == [tenant : Tenant, stream : Stream, chunk : Id, day : Day]
Row == [key : Key, status : Status]
NoRow == [key |-> [tenant |-> "none", stream |-> "none", chunk |-> 0, day |-> 0], status |-> "none"]

TenantOf(m) == m[1].tenant
StreamOf(m) == <<m[1].tenant, m[1].stream>>
DedupKey(m) == <<m[1].tenant, m[1].id>>

Least(S) == CHOOSE n \in S : \A k \in S : n <= k

\* stableId: the sorted event ids, cut to the length of the first.
ChunkId(B) == Least({m[1].id : m \in B})

\* logObjectKey and metricObjectKey: the date is that of the first entry.
ObjectKey(B) ==
  LET m == CHOOSE m \in B : TRUE IN
  [tenant |-> TenantOf(m), stream |-> m[1].stream, chunk |-> ChunkId(B),
   day |-> Least({k[1].day : k \in B})]

Init ==
  /\ sent = {} /\ queue = {} /\ dead = {}
  /\ tries = [m \in Message |-> 0]
  /\ streams = {} /\ dedup = {} /\ dropped = {} /\ tail = {}
  /\ chunks = [c \in Id |-> NoRow]
  /\ objects = [k \in Key |-> {}]
  /\ usage = [t \in Tenant |-> 0]
  /\ pc = [w \in Worker |-> "idle"]
  /\ batch = [w \in Worker |-> {}]
  /\ asking = [w \in Worker |-> {}]
  /\ fresh = [w \in Worker |-> {}]
  /\ group = [w \in Worker |-> {}]
  /\ pick = [w \in Worker |-> {}]
  /\ opened = [w \in Worker |-> {}]
  /\ bucket = [w \in Worker |-> {}]
  /\ found = [c \in Cron |-> {}]
  /\ faults = 0

-----------------------------------------------------------------------------
\* enqueue publishes the events of a request one at a time; a client whose
\* request failed midway, or went unanswered, sends them again.
Publish(m) ==
  /\ m \notin sent
  /\ sent' = sent \union {m}
  /\ queue' = queue \union {m}
  /\ UNCHANGED <<tries, dead, storeVars, workerVars, found, faults>>

-----------------------------------------------------------------------------
(* The consumer.                                                           *)

Goto(w, label) == pc' = [pc EXCEPT ![w] = label]

Receive(w, B) ==
  /\ pc[w] = "idle"
  /\ B # {} /\ Cardinality(B) <= BatchSize
  /\ queue' = queue \ B
  /\ batch' = [batch EXCEPT ![w] = B]
  /\ asking' = [asking EXCEPT ![w] = {TenantOf(m) : m \in B}]
  /\ Goto(w, "filter")
  /\ UNCHANGED <<sent, tries, dead, storeVars, fresh, group, pick, opened, bucket, found, faults>>

\* filterUnseen: one read of ingestion_dedup per tenant of the batch.  Two
\* copies of one event in a batch are both unseen.
FilterUnseen(w, t) ==
  /\ pc[w] = "filter"
  /\ t \in asking[w]
  /\ asking' = [asking EXCEPT ![w] = @ \ {t}]
  /\ fresh' = [fresh EXCEPT ![w] = @ \union
       {m \in batch[w] : TenantOf(m) = t /\ DedupKey(m) \notin dedup}]
  /\ Goto(w, IF asking[w] = {t} THEN "group" ELSE "filter")
  /\ UNCHANGED <<batch, group, pick, opened, bucket, queueVars, storeVars, found, faults>>

\* Tenants are taken one after the other: the chunks of one are written
\* before the next is grouped.
Grouped(w) == \A m \in fresh[w] : {TenantOf(m)} # group[w]
MayGroup(w, m) ==
  /\ m \in fresh[w]
  /\ \/ group[w] = {TenantOf(m)}
     \/ Grouped(w) /\ opened[w] = {}

\* Every message of the stream joins its bucket.
OpenBucket(w, m) ==
  LET B == {k \in fresh[w] : StreamOf(k) = StreamOf(m)} IN
  /\ opened' = [opened EXCEPT ![w] = @ \union B]
  /\ fresh' = [fresh EXCEPT ![w] = @ \ B]

\* findByFingerprint; a stream that exists is saved with a new last_seen_at.
FindStream(w, m) ==
  /\ pc[w] = "group"
  /\ MayGroup(w, m)
  /\ group' = [group EXCEPT ![w] = {TenantOf(m)}]
  /\ IF StreamOf(m) \in streams
     THEN OpenBucket(w, m) /\ UNCHANGED <<pc, pick>>
     ELSE Goto(w, "count") /\ pick' = [pick EXCEPT ![w] = {m}] /\ UNCHANGED <<opened, fresh>>
  /\ UNCHANGED <<batch, asking, bucket, queueVars, storeVars, found, faults>>

\* Mutant: the limit is off by one.
CountStreams_OffByOne(w) ==
  /\ pc[w] = "count"
  /\ Goto(w, IF Cardinality({s \in streams : {s[1]} = group[w]}) > MaxStreams
             THEN "drop" ELSE "insert")
  /\ UNCHANGED <<batch, localVars, queueVars, storeVars, found, faults>>

CountStreams(w) ==
  /\ pc[w] = "count"
  /\ Goto(w, IF Cardinality({s \in streams : {s[1]} = group[w]}) >= MaxStreams
             THEN "drop" ELSE "insert")
  /\ UNCHANGED <<batch, localVars, queueVars, storeVars, found, faults>>

\* An event past the stream limit is remembered and goes no further.
DropEvent(w) ==
  /\ pc[w] = "drop"
  /\ LET keys == {DedupKey(m) : m \in pick[w]} IN
     dedup' = dedup \union keys /\ dropped' = dropped \union keys
  /\ fresh' = [fresh EXCEPT ![w] = @ \ pick[w]]
  /\ pick' = [pick EXCEPT ![w] = {}]
  /\ Goto(w, "group")
  /\ UNCHANGED <<batch, asking, group, opened, bucket, queueVars, streams, chunks, objects,
                 usage, tail, found, faults>>

\* Mutant: after the last retry a message is gone.
Fail_Discards(w) ==
  LET last == {m \in batch[w] : tries[m] = MaxRetries} IN
  /\ queue' = queue \union (batch[w] \ last)
  /\ tries' = [m \in Message |-> IF m \in batch[w] \ last THEN tries[m] + 1 ELSE tries[m]]
  /\ batch' = [batch EXCEPT ![w] = {}]
  /\ asking' = [asking EXCEPT ![w] = {}]
  /\ fresh' = [fresh EXCEPT ![w] = {}]
  /\ group' = [group EXCEPT ![w] = {}]
  /\ pick' = [pick EXCEPT ![w] = {}]
  /\ opened' = [opened EXCEPT ![w] = {}]
  /\ bucket' = [bucket EXCEPT ![w] = {}]
  /\ Goto(w, "idle")
  /\ UNCHANGED <<sent, dead, found>>

\* Mutant: a message is retried for ever.
Fail_Forever(w) ==
  /\ queue' = queue \union batch[w]
  /\ tries' = [m \in Message |-> IF m \in batch[w] THEN tries[m] + 1 ELSE tries[m]]
  /\ batch' = [batch EXCEPT ![w] = {}]
  /\ asking' = [asking EXCEPT ![w] = {}]
  /\ fresh' = [fresh EXCEPT ![w] = {}]
  /\ group' = [group EXCEPT ![w] = {}]
  /\ pick' = [pick EXCEPT ![w] = {}]
  /\ opened' = [opened EXCEPT ![w] = {}]
  /\ bucket' = [bucket EXCEPT ![w] = {}]
  /\ Goto(w, "idle")
  /\ UNCHANGED <<sent, dead, found>>

\* message.retry() for every message of the batch.
Fail(w) ==
  LET last == {m \in batch[w] : tries[m] = MaxRetries} IN
  /\ queue' = queue \union (batch[w] \ last)
  /\ dead' = dead \union last
  /\ tries' = [m \in Message |-> IF m \in batch[w] \ last THEN tries[m] + 1 ELSE tries[m]]
  /\ batch' = [batch EXCEPT ![w] = {}]
  /\ asking' = [asking EXCEPT ![w] = {}]
  /\ fresh' = [fresh EXCEPT ![w] = {}]
  /\ group' = [group EXCEPT ![w] = {}]
  /\ pick' = [pick EXCEPT ![w] = {}]
  /\ opened' = [opened EXCEPT ![w] = {}]
  /\ bucket' = [bucket EXCEPT ![w] = {}]
  /\ Goto(w, "idle")
  /\ UNCHANGED <<sent, found>>

\* streams.save of a new stream: UNIQUE (tenant_id, fingerprint) makes it
\* throw when another consumer has inserted the stream in the meantime.
InsertStream(w) ==
  /\ pc[w] = "insert"
  /\ \E m \in pick[w] :
       IF StreamOf(m) \in streams
       THEN Fail(w) /\ UNCHANGED streams
       ELSE /\ streams' = streams \union {StreamOf(m)}
            /\ OpenBucket(w, m)
            /\ pick' = [pick EXCEPT ![w] = {}]
            /\ Goto(w, "group")
            /\ UNCHANGED <<batch, asking, group, bucket, queueVars, found>>
  /\ UNCHANGED <<chunks, objects, dedup, dropped, usage, tail, faults>>

\* chunks.save: ON CONFLICT(id) DO UPDATE SET status, whoever the row is of.
SaveChunk(B, status) ==
  chunks' = [chunks EXCEPT ![ChunkId(B)] =
    IF @ = NoRow THEN [key |-> ObjectKey(B), status |-> status]
                 ELSE [@ EXCEPT !.status = status]]

\* Mutant: the events are remembered before their chunk is written.
SavePending_Remember(w, s) ==
  LET B == {m \in opened[w] : StreamOf(m) = s} IN
  /\ pc[w] = "group"
  /\ Grouped(w) /\ B # {}
  /\ SaveChunk(B, "pending")
  /\ dedup' = dedup \union {DedupKey(m) : m \in B}
  /\ opened' = [opened EXCEPT ![w] = @ \ B]
  /\ bucket' = [bucket EXCEPT ![w] = B]
  /\ Goto(w, "put")
  /\ UNCHANGED <<batch, asking, fresh, group, pick, queueVars, streams, objects, dropped,
                 usage, tail, found, faults>>

\* Mutant: the object is written before its row.
SavePending_Skipped(w, s) ==
  LET B == {m \in opened[w] : StreamOf(m) = s} IN
  /\ pc[w] = "group"
  /\ Grouped(w) /\ B # {}
  /\ opened' = [opened EXCEPT ![w] = @ \ B]
  /\ bucket' = [bucket EXCEPT ![w] = B]
  /\ Goto(w, "put")
  /\ UNCHANGED <<batch, asking, fresh, group, pick, queueVars, storeVars, found, faults>>

SavePending(w, s) ==
  LET B == {m \in opened[w] : StreamOf(m) = s} IN
  /\ pc[w] = "group"
  /\ Grouped(w) /\ B # {}
  /\ SaveChunk(B, "pending")
  /\ opened' = [opened EXCEPT ![w] = @ \ B]
  /\ bucket' = [bucket EXCEPT ![w] = B]
  /\ Goto(w, "put")
  /\ UNCHANGED <<batch, asking, fresh, group, pick, queueVars, streams, objects, dedup, dropped,
                 usage, tail, found, faults>>

\* Mutant: an object that is written again keeps what it had.
PutObject_Appends(w) ==
  /\ pc[w] = "put"
  /\ objects' = [objects EXCEPT ![ObjectKey(bucket[w])] = @ \union bucket[w]]
  /\ Goto(w, "ready")
  /\ UNCHANGED <<batch, localVars, queueVars, streams, chunks, dedup, dropped, usage, tail,
                 found, faults>>

PutObject(w) ==
  /\ pc[w] = "put"
  /\ objects' = [objects EXCEPT ![ObjectKey(bucket[w])] = bucket[w]]
  /\ Goto(w, "ready")
  /\ UNCHANGED <<batch, localVars, queueVars, streams, chunks, dedup, dropped, usage, tail,
                 found, faults>>

SaveReady(w) ==
  /\ pc[w] = "ready"
  /\ SaveChunk(bucket[w], "ready")
  /\ Goto(w, IF Signal = "logs" THEN "usage" ELSE "remember")
  /\ UNCHANGED <<batch, localVars, queueVars, streams, objects, dedup, dropped, usage, tail,
                 found, faults>>

CountUsage(w) ==
  /\ pc[w] = "usage"
  /\ \E m \in bucket[w] : usage' = [usage EXCEPT ![TenantOf(m)] = @ + 1]
  /\ Goto(w, "publish")
  /\ UNCHANGED <<batch, localVars, queueVars, streams, chunks, objects, dedup, dropped, tail,
                 found, faults>>

\* realtime.publish, entry by entry ...
PublishTail(w) ==
  /\ pc[w] = "publish"
  /\ tail' = tail \union bucket[w]
  /\ Goto(w, "remember")
  /\ UNCHANGED <<batch, localVars, queueVars, streams, chunks, objects, dedup, dropped, usage,
                 found, faults>>

\* ... which may throw midway.
PublishTailThrows(w) ==
  /\ pc[w] = "publish"
  /\ faults < MaxFaults
  /\ faults' = faults + 1
  /\ \E S \in SUBSET bucket[w] : tail' = tail \union S
  /\ Fail(w)
  /\ UNCHANGED <<streams, chunks, objects, dedup, dropped, usage>>

\* rememberMany is one D1 batch.
Remember(w) ==
  /\ pc[w] = "remember"
  /\ dedup' = dedup \union {DedupKey(m) : m \in bucket[w]}
  /\ bucket' = [bucket EXCEPT ![w] = {}]
  /\ Goto(w, "group")
  /\ UNCHANGED <<batch, asking, fresh, group, pick, opened, queueVars, streams, chunks, objects,
                 dropped, usage, tail, found, faults>>

\* message.ack() for every message of the batch.
Ack(w) ==
  /\ pc[w] = "group"
  /\ fresh[w] = {} /\ opened[w] = {}
  /\ batch' = [batch EXCEPT ![w] = {}]
  /\ group' = [group EXCEPT ![w] = {}]
  /\ Goto(w, "idle")
  /\ UNCHANGED <<asking, fresh, pick, opened, bucket, queueVars, storeVars, found, faults>>

Throws(w) ==
  /\ pc[w] # "idle"
  /\ faults < MaxFaults
  /\ faults' = faults + 1
  /\ Fail(w)
  /\ UNCHANGED storeVars

-----------------------------------------------------------------------------
(* The cron reconciles log chunks only.  A row keeps the created_at of its *)
(* first insertion and a consumer may be slow, so any pending row may be   *)
(* old enough to be listed.                                                *)

ListPending(c) ==
  /\ Signal = "logs"
  /\ found[c] = {}
  /\ LET pending == {i \in Id : chunks[i].status = "pending"} IN
     pending # {} /\ found' = [found EXCEPT ![c] = pending]
  /\ UNCHANGED <<queueVars, storeVars, workerVars, faults>>

\* Mutant: the reconciliation only lists.
SaveFailed_Skipped(c, i) ==
  /\ i \in found[c]
  /\ found' = [found EXCEPT ![c] = @ \ {i}]
  /\ UNCHANGED <<queueVars, storeVars, workerVars, faults>>

\* It checks the status it has read, not the one the row has now.
SaveFailed(c, i) ==
  /\ i \in found[c]
  /\ found' = [found EXCEPT ![c] = @ \ {i}]
  /\ chunks' = [chunks EXCEPT ![i].status = "failed"]
  /\ UNCHANGED <<streams, objects, dedup, dropped, usage, tail, queueVars, workerVars, faults>>

-----------------------------------------------------------------------------
Work(w) ==
  \/ \E t \in asking[w] : FilterUnseen(w, t)
  \/ \E m \in fresh[w] : FindStream(w, m)
  \/ CountStreams(w) \/ InsertStream(w) \/ DropEvent(w)
  \/ \E s \in {StreamOf(m) : m \in opened[w]} : SavePending(w, s)
  \/ PutObject(w) \/ SaveReady(w) \/ CountUsage(w) \/ PublishTail(w)
  \/ Remember(w) \/ Ack(w)

Reconcile(c) == ListPending(c) \/ \E i \in found[c] : SaveFailed(c, i)

Next ==
  \/ \E m \in Message : Publish(m)
  \/ \E w \in Worker : \E B \in SUBSET queue : Receive(w, B)
  \/ \E w \in Worker : Work(w) \/ PublishTailThrows(w) \/ Throws(w)
  \/ \E c \in Cron : Reconcile(c)

Spec == Init /\ [][Next]_vars

\* The queue delivers every message, every call returns or throws, and the
\* cron runs every minute.
Fairness ==
  /\ \A w \in Worker : WF_vars(Work(w))
  /\ \A m \in Message : SF_vars(\E w \in Worker : \E B \in SUBSET queue : m \in B /\ Receive(w, B))
  /\ \A c \in Cron : WF_vars(Reconcile(c))

FairSpec == Spec /\ Fairness

-----------------------------------------------------------------------------
(* Properties.                                                             *)

QueueOK ==
  /\ sent \in SUBSET Message /\ queue \in SUBSET sent /\ dead \in SUBSET sent
  /\ tries \in [Message -> 0 .. MaxRetries]

StoreOK ==
  /\ streams \in SUBSET (Tenant \X Stream)
  /\ chunks \in [Id -> Row \union {NoRow}]
  /\ objects \in [Key -> SUBSET Message]
  /\ dedup \in SUBSET (Tenant \X Id) /\ dropped \in SUBSET dedup
  /\ usage \in [Tenant -> Nat]
  /\ tail \in SUBSET Message
  /\ found \in [Cron -> SUBSET Id]

ConsumersOK ==
  /\ pc \in [Worker -> Label]
  /\ batch \in [Worker -> SUBSET Message]
  /\ asking \in [Worker -> SUBSET Tenant]
  /\ fresh \in [Worker -> SUBSET Message]
  /\ group \in [Worker -> SUBSET Tenant]
  /\ pick \in [Worker -> SUBSET Message]
  /\ opened \in [Worker -> SUBSET Message]
  /\ bucket \in [Worker -> SUBSET Message]
  /\ faults \in Nat

\* Type correctness of the queue, the stores and the consumers.
TypeOK == QueueOK /\ StoreOK /\ ConsumersOK

\* A query finds the entry of an event: a row of its tenant and stream names
\* an object that holds it, and is ready: log queries list ready rows only
\* (d1LogChunks.listInRange), metric queries skip the others once listed.
ReadableIn(e, i) ==
  LET row == chunks[i] IN
  /\ row # NoRow
  /\ row.key.tenant = e.tenant /\ row.key.stream = e.stream
  /\ row.status = "ready"
  /\ \E m \in objects[row.key] : m[1] = e
Readable(e) == \E i \in Id : ReadableIn(e, i)

\* What ingestion_dedup remembers will never be processed again, so it must
\* be stored: an event that is remembered can be read, unless it was refused
\* at the stream limit.  (It holds for distinct events of one day with ids of
\* their own: a retry in another batch, whose first entry is of another day,
\* puts the object under a key that the row does not name.)
RememberedIsReadable ==
  \A e \in Event : <<e.tenant, e.id>> \in dedup \ dropped => Readable(e)

\* A remembered log event has also been sent to the live tail.
RememberedIsTailed ==
  Signal = "logs" => \A e \in Event : <<e.tenant, e.id>> \in dedup \ dropped =>
    \E m \in tail : m[1] = e

\* No message is dropped silently: it waits, is held by a consumer, is in the
\* dead-letter queue, or its event is remembered (INGESTION.md).
NothingLost ==
  \A m \in sent : \/ m \in queue \union dead
                  \/ \E w \in Worker : m \in batch[w]
                  \/ DedupKey(m) \in dedup

\* Duplicates are suppressed: no event can be read from two chunks, or twice
\* from one (ADR 0003), when the copies come in batches of their own.
StoredOnce ==
  \A e \in Event, i, j \in Id : ReadableIn(e, i) /\ ReadableIn(e, j) =>
    i = j /\ Cardinality({m \in objects[chunks[i].key] : m[1] = e}) = 1

\* Every R2 object is named by a row of the table, so that deletion and
\* retention can find it (ADR 0009).  For events of one day: see RememberedIsReadable.
ObjectHasRow ==
  \A k \in Key : objects[k] # {} => chunks[k.chunk] # NoRow /\ chunks[k.chunk].key = k

\* A tenant has at most MaxStreams streams (DOMAIN_MODEL.md), and one more for
\* each further consumer: they count the streams before any of them inserts.
StreamLimit ==
  \A t \in Tenant :
    Cardinality({s \in streams : s[1] = t}) < MaxStreams + Cardinality(Worker)

\* Consumers that never hold copies of one event implement EventLog: nothing
\* that is remembered is ever taken out of the answers to queries.
Abstract == INSTANCE EventLog WITH
  accepted <- {m[1] : m \in sent},
  readable <- {e \in Event : Readable(e)},
  settled  <- {e \in Event : <<e.tenant, e.id>> \in dedup \ dropped},
  refused  <- {e \in Event : <<e.tenant, e.id>> \in dropped}
KeepsEventLog == Abstract!Spec

\* Every message ends in the dead-letter queue or has its event remembered.
MessageSettles ==
  \A m \in Message : m \in sent ~> m \in dead \/ DedupKey(m) \in dedup

\* A chunk does not stay pending for ever (ADR 0009: orphan pending rows are
\* repaired).
PendingIsResolved ==
  \A i \in Id : chunks[i].status = "pending" ~> chunks[i].status # "pending"

\* Neither a message nor a pending chunk is left in between for ever.
EverythingSettles == MessageSettles /\ PendingIsResolved
=============================================================================
