------------------------ MODULE IngestPipeline_proofs ------------------------
(***************************************************************************)
(* Type correctness of IngestPipeline, that no message is lost, and what   *)
(* it stores: the limit on streams, the rows of objects, what is remembered*)
(* can be read, and the refinement of EventLog; for any events, consumers, *)
(* batch size, retries, faults and cron runs.                              *)
(***************************************************************************)
EXTENDS IngestPipeline, WellFoundedInduction, FiniteSetTheorems, TLAPS

\* A nonempty set of naturals has a least element: the intervals 0 .. n are
\* well-founded under strict inclusion.
LEMMA LeastType ==
  ASSUME NEW S \in SUBSET Nat, S # {}
  PROVE  Least(S) \in S
<1> DEFINE Up == {0 .. n : n \in S}
           Order == StrictSubsetOrdering(Nat)
<1>1. IsWellFoundedOn(Order, FiniteSubsetsOf(Nat))
  BY FS_StrictSubsetOrderingWellFounded
<1>2. Up \subseteq FiniteSubsetsOf(Nat) /\ Up # {}
  <2>1. \A n \in S : IsFiniteSet(0 .. n) /\ 0 .. n \in SUBSET Nat
    BY FS_Interval
  <2>2. QED
    BY <2>1 DEF FiniteSubsetsOf
<1>3. PICK x \in Up : \A y \in Up : ~(<<y, x>> \in Order)
  <2> HIDE DEF Up, Order
  <2>1. QED
    BY <1>1, <1>2, WFMin
<1>4. PICK m \in S : x = 0 .. m
  OBVIOUS
<1>5. ASSUME NEW k \in S PROVE m <= k
  <2>1. SUFFICES ASSUME k < m PROVE FALSE
    OBVIOUS
  <2>2. 0 .. k \subseteq 0 .. m /\ m \in 0 .. m /\ m \notin 0 .. k
    BY <2>1
  <2>3. <<0 .. k, 0 .. m>> \in Order
    BY <2>2 DEF StrictSubsetOrdering
  <2>4. QED
    BY <2>3, <1>3, <1>4
<1>6. QED
  BY <1>5 DEF Least

\* The parts of a message.
LEMMA MessageParts ==
  ASSUME NEW m \in Message
  PROVE  /\ m[1] \in Event
         /\ TenantOf(m) \in Tenant
         /\ StreamOf(m) \in Tenant \X Stream
         /\ DedupKey(m) \in Tenant \X Id
         /\ m[1].id \in Nat /\ m[1].day \in Nat
  BY EventAssumption DEF Message, TenantOf, StreamOf, DedupKey, Tenant, Stream, Id

\* A nonempty bucket has a chunk id and an object key.
LEMMA BucketNames ==
  ASSUME NEW B \in SUBSET Message, B # {}
  PROVE  ChunkId(B) \in Id /\ ObjectKey(B) \in Key
<1>1. \A m \in B : m \in Message /\ m[1] \in Event /\ m[1].id \in Nat /\ m[1].day \in Nat
  BY MessageParts
<1>2. ChunkId(B) \in {m[1].id : m \in B}
  <2>1. {m[1].id : m \in B} \in SUBSET Nat /\ {m[1].id : m \in B} # {}
    BY <1>1
  <2>2. QED
    BY <2>1, LeastType DEF ChunkId
<1>3. Least({k[1].day : k \in B}) \in {k[1].day : k \in B}
  <2>1. {k[1].day : k \in B} \in SUBSET Nat /\ {k[1].day : k \in B} # {}
    BY <1>1
  <2>2. QED
    BY <2>1, LeastType
<1>4. ChunkId(B) \in Id /\ Least({k[1].day : k \in B}) \in Day
  BY <1>1, <1>2, <1>3 DEF Id, Day
<1>5. (CHOOSE m \in B : TRUE) \in B
  OBVIOUS
<1>6. \A m \in B : TenantOf(m) \in Tenant /\ m[1].stream \in Stream
  BY <1>1, MessageParts DEF Stream
<1>7. QED
  BY <1>4, <1>5, <1>6 DEF ObjectKey, Key

-----------------------------------------------------------------------------
(* What a consumer holds: every message of its batch has its event         *)
(* remembered or still has a place in the consumer's work.                 *)

Writing == {"put", "ready", "usage", "publish", "remember"}

Accounted(w, m) ==
  \/ DedupKey(m) \in dedup
  \/ m \in fresh[w] \union opened[w] \union bucket[w]
  \/ TenantOf(m) \in asking[w]

Consumer(w) ==
  /\ batch[w] \subseteq sent
  /\ fresh[w] \union opened[w] \union bucket[w] \subseteq batch[w]
  /\ pick[w] \subseteq fresh[w]
  /\ pc[w] \notin {"count", "insert", "drop"} => pick[w] = {}
  /\ pc[w] = "idle" => batch[w] = {}
  /\ pc[w] # "filter" => asking[w] = {}
  /\ pc[w] \in Writing <=> bucket[w] # {}
  /\ \A m \in batch[w] : Accounted(w, m)

\* What a cron has listed has a row.
FoundRows == \A c \in Cron : \A i \in found[c] : chunks[i] # NoRow

IInv == TypeOK /\ NothingLost /\ FoundRows /\ \A w \in Worker : Consumer(w)

LEMMA InitIInv == Init => IInv
<1> SUFFICES ASSUME Init PROVE IInv
  OBVIOUS
<1>1. QueueOK
  BY BoundsAssumption DEF Init, QueueOK
<1>2. StoreOK
  BY DEF Init, StoreOK
<1>3. ConsumersOK
  BY DEF Init, ConsumersOK, Label
<1>4. NothingLost /\ \A w \in Worker : Consumer(w)
  BY DEF Init, NothingLost, Consumer, Writing
<1>5. FoundRows
  BY DEF Init, FoundRows
<1>6. QED
  BY <1>1, <1>2, <1>3, <1>4, <1>5 DEF IInv, TypeOK

-----------------------------------------------------------------------------
(* Frames.                                                                 *)

Same(v) == UNCHANGED <<pc[v], batch[v], asking[v], fresh[v], pick[v], opened[v], bucket[v]>>

\* A consumer that does nothing keeps what it holds while the others run.
LEMMA ConsumerFrame ==
  ASSUME NEW v \in Worker, Consumer(v), Same(v), sent \subseteq sent', dedup \subseteq dedup'
  PROVE  Consumer(v)'
  BY DEF Consumer, Accounted, Same

\* Messages stay accounted for while batches do not change.
LEMMA LossFrame ==
  ASSUME NothingLost, UNCHANGED <<sent, queue, dead>>, dedup \subseteq dedup',
         \A w \in Worker : \A m \in batch[w] : m \in batch'[w] \/ DedupKey(m) \in dedup'
  PROVE  NothingLost'
  BY DEF NothingLost

\* A failed batch goes back to the queue or to the dead-letter queue.
LEMMA FailKeeps ==
  ASSUME IInv, NEW w \in Worker, Fail(w), dedup' = dedup
  PROVE  /\ QueueOK' /\ NothingLost' /\ \A v \in Worker : Consumer(v)'
         /\ pc' \in [Worker -> Label]
         /\ batch' \in [Worker -> SUBSET Message]
         /\ asking' \in [Worker -> SUBSET Tenant]
         /\ fresh' \in [Worker -> SUBSET Message]
         /\ group' \in [Worker -> SUBSET Tenant]
         /\ pick' \in [Worker -> SUBSET Message]
         /\ opened' \in [Worker -> SUBSET Message]
         /\ bucket' \in [Worker -> SUBSET Message]
<1>a. QueueOK /\ ConsumersOK /\ Consumer(w) /\ MaxRetries \in Nat
  BY BoundsAssumption DEF IInv, TypeOK
<1>1. QueueOK'
  <2>1. /\ sent' = sent
        /\ queue' \subseteq queue \union batch[w] /\ dead' \subseteq dead \union batch[w]
    BY DEF Fail
  <2>2. tries' \in [Message -> 0 .. MaxRetries]
    BY <1>a DEF Fail, QueueOK
  <2>3. QED
    BY <1>a, <2>1, <2>2 DEF QueueOK, Consumer
<1>2. /\ pc' \in [Worker -> Label]
      /\ batch' \in [Worker -> SUBSET Message]
      /\ asking' \in [Worker -> SUBSET Tenant]
      /\ fresh' \in [Worker -> SUBSET Message]
  BY <1>a DEF Fail, Goto, ConsumersOK, Label
<1>3. /\ group' \in [Worker -> SUBSET Tenant]
      /\ pick' \in [Worker -> SUBSET Message]
      /\ opened' \in [Worker -> SUBSET Message]
      /\ bucket' \in [Worker -> SUBSET Message]
  BY <1>a DEF Fail, ConsumersOK
<1>4. /\ pc'[w] = "idle" /\ batch'[w] = {} /\ asking'[w] = {} /\ fresh'[w] = {}
      /\ pick'[w] = {} /\ opened'[w] = {} /\ bucket'[w] = {}
      /\ \A v \in Worker \ {w} : Same(v)
  BY <1>a DEF Fail, Goto, ConsumersOK, Same
<1>5. \A v \in Worker : Consumer(v)'
  <2>1. Consumer(w)'
    BY <1>4 DEF Consumer, Writing
  <2>2. ASSUME NEW v \in Worker \ {w} PROVE Consumer(v)'
    BY <1>4, ConsumerFrame DEF IInv, Fail
  <2>3. QED
    BY <2>1, <2>2
<1>6. NothingLost'
  <2>1. /\ sent' = sent /\ queue \subseteq queue' /\ dead \subseteq dead'
        /\ batch[w] \subseteq queue' \union dead'
    BY DEF Fail
  <2>2. \A v \in Worker \ {w} : batch'[v] = batch[v]
    BY <1>4 DEF Same
  <2>3. QED
    BY <2>1, <2>2 DEF IInv, NothingLost
<1>7. QED
  BY <1>1, <1>2, <1>3, <1>5, <1>6

\* A step of one consumer that takes nothing from the queue.
LEMMA WorkStep ==
  ASSUME IInv, NEW w \in Worker, StoreOK', ConsumersOK', FoundRows', UNCHANGED queueVars,
         dedup \subseteq dedup', Consumer(w)', \A v \in Worker \ {w} : Same(v),
         \A m \in batch[w] : m \in batch'[w] \/ DedupKey(m) \in dedup'
  PROVE  IInv'
<1>1. sent' = sent /\ queue' = queue /\ tries' = tries /\ dead' = dead
  BY DEF queueVars
<1>2. QueueOK'
  BY <1>1 DEF IInv, TypeOK, QueueOK
<1>3. ASSUME NEW v \in Worker \ {w} PROVE Consumer(v)'
  BY <1>1, ConsumerFrame DEF IInv
<1>4. NothingLost'
  <2>1. \A v \in Worker : \A m \in batch[v] : m \in batch'[v] \/ DedupKey(m) \in dedup'
    BY DEF Same
  <2>2. QED
    BY <1>1, <2>1, LossFrame DEF IInv
<1>5. QED
  BY <1>2, <1>3, <1>4 DEF IInv, TypeOK

\* Saving a chunk keeps the table well typed and removes no row.
LEMMA SaveChunkType ==
  ASSUME chunks \in [Id -> Row \union {NoRow}], NEW B \in SUBSET Message, B # {},
         NEW s \in Status, SaveChunk(B, s)
  PROVE  /\ chunks' \in [Id -> Row \union {NoRow}]
         /\ FoundRows /\ found' = found => FoundRows'
<1> DEFINE c == ChunkId(B)
           old == chunks[c]
           new == IF old = NoRow THEN [key |-> ObjectKey(B), status |-> s]
                                 ELSE [old EXCEPT !.status = s]
<1>1. c \in Id /\ ObjectKey(B) \in Key
  BY BucketNames
<1>2. new \in Row
  BY <1>1 DEF Row
<1>3. chunks' = [chunks EXCEPT ![c] = new]
  BY DEF SaveChunk
<1>4. NoRow \notin Row
  BY DEF Row, NoRow, Status
<1> HIDE DEF new, c
<1>5. QED
  BY <1>1, <1>2, <1>3, <1>4 DEF FoundRows

-----------------------------------------------------------------------------
(* One lemma per step.                                                     *)

LEMMA PublishStep ==
  ASSUME IInv, NEW m \in Message, Publish(m)
  PROVE  IInv'
<1>1. /\ sent' = sent \union {m} /\ queue' = queue \union {m} /\ tries' = tries /\ dead' = dead
      /\ UNCHANGED <<storeVars, workerVars, found, faults>>
  BY DEF Publish
<1>2. QueueOK'
  BY <1>1 DEF IInv, TypeOK, QueueOK
<1>3. StoreOK' /\ ConsumersOK' /\ FoundRows'
  BY <1>1 DEF IInv, TypeOK, StoreOK, ConsumersOK, FoundRows, storeVars, workerVars, localVars
<1>4. \A v \in Worker : Consumer(v)'
  BY <1>1, ConsumerFrame DEF IInv, Same, storeVars, workerVars, localVars
<1>5. NothingLost'
  BY <1>1 DEF IInv, NothingLost, storeVars, workerVars
<1>6. QED
  BY <1>2, <1>3, <1>4, <1>5 DEF IInv, TypeOK

LEMMA ReceiveStep ==
  ASSUME IInv, NEW w \in Worker, NEW B \in SUBSET queue, Receive(w, B)
  PROVE  IInv'
<1>a. QueueOK /\ ConsumersOK /\ Consumer(w) /\ B \subseteq Message /\ pc[w] = "idle"
  BY DEF IInv, TypeOK, QueueOK, Receive
<1>1. /\ queue' = queue \ B
      /\ UNCHANGED <<sent, tries, dead, storeVars, fresh, group, pick, opened, bucket, found, faults>>
      /\ pc' = [pc EXCEPT ![w] = "filter"]
      /\ batch' = [batch EXCEPT ![w] = B]
      /\ asking' = [asking EXCEPT ![w] = {TenantOf(m) : m \in B}]
  BY DEF Receive, Goto
<1>2. QueueOK'
  BY <1>a, <1>1 DEF QueueOK
<1>3. StoreOK' /\ FoundRows'
  BY <1>1 DEF IInv, TypeOK, StoreOK, FoundRows, storeVars
<1>4. ConsumersOK'
  <2>1. {TenantOf(m) : m \in B} \in SUBSET Tenant
    BY <1>a, MessageParts
  <2>2. QED
    BY <1>a, <1>1, <2>1 DEF ConsumersOK, Label
<1>5. \A v \in Worker : Consumer(v)'
  <2>1. Consumer(w)'
    BY <1>a, <1>1 DEF Consumer, Accounted, Writing, QueueOK, ConsumersOK
  <2>2. ASSUME NEW v \in Worker \ {w} PROVE Consumer(v)'
    BY <1>a, <1>1, ConsumerFrame DEF IInv, Same, ConsumersOK, storeVars
  <2>3. QED
    BY <2>1, <2>2
<1>6. NothingLost'
  <2>1. batch[w] = {} /\ batch'[w] = B /\ \A v \in Worker \ {w} : batch'[v] = batch[v]
    BY <1>a, <1>1 DEF Consumer, ConsumersOK
  <2>2. QED
    BY <1>1, <2>1 DEF IInv, NothingLost, storeVars
<1>7. QED
  BY <1>2, <1>3, <1>4, <1>5, <1>6 DEF IInv, TypeOK

LEMMA FilterUnseenStep ==
  ASSUME IInv, NEW w \in Worker, NEW t \in asking[w], FilterUnseen(w, t)
  PROVE  IInv'
<1>a. ConsumersOK /\ Consumer(w) /\ pc[w] = "filter"
  BY DEF IInv, TypeOK, FilterUnseen
<1>1. /\ asking' = [asking EXCEPT ![w] = @ \ {t}]
      /\ fresh' = [fresh EXCEPT ![w] = @ \union
           {m \in batch[w] : TenantOf(m) = t /\ DedupKey(m) \notin dedup}]
      /\ pc' = [pc EXCEPT ![w] = IF asking[w] = {t} THEN "group" ELSE "filter"]
      /\ UNCHANGED <<batch, group, pick, opened, bucket, queueVars, storeVars, found, faults>>
  BY DEF FilterUnseen, Goto
<1>2. StoreOK' /\ FoundRows'
  BY <1>1 DEF IInv, TypeOK, StoreOK, FoundRows, storeVars
<1>3. ConsumersOK'
  BY <1>a, <1>1 DEF ConsumersOK, Label
<1>4. Consumer(w)'
  <2>1. /\ batch'[w] = batch[w] /\ pick'[w] = pick[w] /\ opened'[w] = opened[w]
        /\ bucket'[w] = bucket[w] /\ sent' = sent /\ dedup' = dedup
        /\ asking'[w] = asking[w] \ {t}
        /\ fresh'[w] = fresh[w] \union
             {m \in batch[w] : TenantOf(m) = t /\ DedupKey(m) \notin dedup}
        /\ pc'[w] = IF asking[w] = {t} THEN "group" ELSE "filter"
    BY <1>a, <1>1 DEF ConsumersOK, queueVars, storeVars
  <2>2. ASSUME NEW m \in batch'[w] PROVE Accounted(w, m)'
    BY <1>a, <2>1 DEF Consumer, Accounted
  <2>3. QED
    BY <1>a, <2>1, <2>2 DEF Consumer, Writing
<1>5. \A v \in Worker \ {w} : Same(v)
  BY <1>a, <1>1 DEF Same, ConsumersOK
<1>6. QED
  BY <1>1, <1>2, <1>3, <1>4, <1>5, WorkStep DEF storeVars

\* OpenBucket moves messages from fresh to opened.
LEMMA OpenBucketMoves ==
  ASSUME NEW w \in Worker, NEW m, OpenBucket(w, m),
         fresh \in [Worker -> SUBSET Message], opened \in [Worker -> SUBSET Message]
  PROVE  /\ fresh' \in [Worker -> SUBSET Message] /\ opened' \in [Worker -> SUBSET Message]
         /\ fresh'[w] \union opened'[w] = fresh[w] \union opened[w]
         /\ fresh'[w] = {k \in fresh[w] : StreamOf(k) # StreamOf(m)}
         /\ \A v \in Worker \ {w} : fresh'[v] = fresh[v] /\ opened'[v] = opened[v]
  BY DEF OpenBucket

LEMMA FindStreamStep ==
  ASSUME IInv, NEW w \in Worker, NEW m \in fresh[w], FindStream(w, m)
  PROVE  IInv'
<1>a. ConsumersOK /\ Consumer(w) /\ pc[w] = "group" /\ pick[w] = {}
  BY DEF IInv, TypeOK, FindStream, Consumer
<1>b. m \in Message /\ TenantOf(m) \in Tenant
  BY <1>a, MessageParts DEF ConsumersOK
<1>1. /\ group' = [group EXCEPT ![w] = {TenantOf(m)}]
      /\ UNCHANGED <<batch, asking, bucket, queueVars, storeVars, found, faults>>
  BY DEF FindStream
<1>2. StoreOK' /\ FoundRows'
  BY <1>1 DEF IInv, TypeOK, StoreOK, FoundRows, storeVars
<1>3. CASE StreamOf(m) \in streams
  <2>1. OpenBucket(w, m) /\ pc' = pc /\ pick' = pick
    BY <1>3 DEF FindStream
  <2>2. /\ fresh' \in [Worker -> SUBSET Message] /\ opened' \in [Worker -> SUBSET Message]
        /\ fresh'[w] \union opened'[w] = fresh[w] \union opened[w]
        /\ \A v \in Worker \ {w} : fresh'[v] = fresh[v] /\ opened'[v] = opened[v]
    BY <1>a, <2>1, OpenBucketMoves DEF ConsumersOK
  <2>3. ConsumersOK'
    BY <1>a, <1>b, <1>1, <2>1, <2>2 DEF ConsumersOK
  <2>4. Consumer(w)'
    BY <1>a, <1>1, <2>1, <2>2 DEF Consumer, Accounted, Writing, queueVars, storeVars
  <2>5. \A v \in Worker \ {w} : Same(v)
    BY <1>a, <1>1, <2>1, <2>2 DEF Same
  <2>6. QED
    BY <1>1, <1>2, <2>3, <2>4, <2>5, WorkStep DEF storeVars
<1>4. CASE StreamOf(m) \notin streams
  <2>1. /\ pc' = [pc EXCEPT ![w] = "count"] /\ pick' = [pick EXCEPT ![w] = {m}]
        /\ opened' = opened /\ fresh' = fresh
    BY <1>4 DEF FindStream, Goto
  <2>2. ConsumersOK'
    BY <1>a, <1>b, <1>1, <2>1 DEF ConsumersOK, Label
  <2>3. Consumer(w)'
    BY <1>a, <1>1, <2>1 DEF Consumer, Accounted, Writing, ConsumersOK, queueVars, storeVars
  <2>4. \A v \in Worker \ {w} : Same(v)
    BY <1>a, <1>1, <2>1 DEF Same, ConsumersOK
  <2>5. QED
    BY <1>1, <1>2, <2>2, <2>3, <2>4, WorkStep DEF storeVars
<1>5. QED
  BY <1>3, <1>4

LEMMA CountStreamsStep ==
  ASSUME IInv, NEW w \in Worker, CountStreams(w)
  PROVE  IInv'
<1>a. ConsumersOK /\ Consumer(w) /\ pc[w] = "count"
  BY DEF IInv, TypeOK, CountStreams
<1>1. PICK label \in {"drop", "insert"} : pc' = [pc EXCEPT ![w] = label]
  BY DEF CountStreams, Goto
<1>2. UNCHANGED <<batch, localVars, queueVars, storeVars, found, faults>>
  BY DEF CountStreams
<1>3. StoreOK' /\ FoundRows'
  BY <1>2 DEF IInv, TypeOK, StoreOK, FoundRows, storeVars
<1>4. ConsumersOK'
  BY <1>a, <1>1, <1>2 DEF ConsumersOK, Label, localVars
<1>5. Consumer(w)'
  BY <1>a, <1>1, <1>2 DEF Consumer, Accounted, Writing, ConsumersOK, localVars, queueVars, storeVars
<1>6. \A v \in Worker \ {w} : Same(v)
  BY <1>a, <1>1, <1>2 DEF Same, ConsumersOK, localVars
<1>7. QED
  BY <1>2, <1>3, <1>4, <1>5, <1>6, WorkStep DEF storeVars

LEMMA DropEventStep ==
  ASSUME IInv, NEW w \in Worker, DropEvent(w)
  PROVE  IInv'
<1>a. ConsumersOK /\ StoreOK /\ Consumer(w) /\ pc[w] = "drop"
  BY DEF IInv, TypeOK, DropEvent
<1> DEFINE keys == {DedupKey(m) : m \in pick[w]}
<1>b. keys \in SUBSET (Tenant \X Id)
  BY <1>a, MessageParts DEF ConsumersOK
<1>1. /\ dedup' = dedup \union keys /\ dropped' = dropped \union keys
      /\ fresh' = [fresh EXCEPT ![w] = @ \ pick[w]]
      /\ pick' = [pick EXCEPT ![w] = {}]
      /\ pc' = [pc EXCEPT ![w] = "group"]
      /\ UNCHANGED <<batch, asking, group, opened, bucket, queueVars, streams, chunks, objects,
                     usage, tail, found, faults>>
  BY DEF DropEvent, Goto
<1>2. StoreOK' /\ FoundRows'
  <2> HIDE DEF keys
  <2>1. QED
    BY <1>a, <1>b, <1>1 DEF IInv, StoreOK, FoundRows
<1>3. ConsumersOK'
  BY <1>a, <1>1 DEF ConsumersOK, Label
<1>4. Consumer(w)'
  <2>1. /\ batch'[w] = batch[w] /\ pick'[w] = {} /\ opened'[w] = opened[w]
        /\ bucket'[w] = bucket[w] /\ asking'[w] = asking[w] /\ pc'[w] = "group"
        /\ fresh'[w] = fresh[w] \ pick[w] /\ sent' = sent
    BY <1>a, <1>1 DEF ConsumersOK, queueVars
  <2>2. ASSUME NEW m \in batch'[w] PROVE Accounted(w, m)'
    BY <1>a, <1>1, <2>1 DEF Consumer, Accounted
  <2>3. QED
    BY <1>a, <2>1, <2>2 DEF Consumer, Writing
<1>5. \A v \in Worker \ {w} : Same(v)
  BY <1>a, <1>1 DEF Same, ConsumersOK
<1>6. QED
  BY <1>1, <1>2, <1>3, <1>4, <1>5, WorkStep

LEMMA InsertStreamStep ==
  ASSUME IInv, NEW w \in Worker, InsertStream(w)
  PROVE  IInv'
<1>a. ConsumersOK /\ StoreOK /\ Consumer(w) /\ pc[w] = "insert"
  BY DEF IInv, TypeOK, InsertStream
<1>1. UNCHANGED <<chunks, objects, dedup, dropped, usage, tail, faults>>
  BY DEF InsertStream
<1>2. PICK m \in pick[w] :
        IF StreamOf(m) \in streams
        THEN Fail(w) /\ UNCHANGED streams
        ELSE /\ streams' = streams \union {StreamOf(m)}
             /\ OpenBucket(w, m)
             /\ pick' = [pick EXCEPT ![w] = {}]
             /\ pc' = [pc EXCEPT ![w] = "group"]
             /\ UNCHANGED <<batch, asking, group, bucket, queueVars, found>>
  BY DEF InsertStream, Goto
<1>3. CASE StreamOf(m) \in streams
  <2>1. Fail(w) /\ streams' = streams
    BY <1>2, <1>3
  <2>2. found' = found
    BY <2>1 DEF Fail
  <2>3. StoreOK' /\ FoundRows'
    BY <1>1, <2>1, <2>2 DEF IInv, TypeOK, StoreOK, FoundRows
  <2>4. /\ QueueOK' /\ NothingLost' /\ \A v \in Worker : Consumer(v)'
        /\ ConsumersOK'
    BY <1>a, <1>1, <2>1, FailKeeps DEF ConsumersOK
  <2>5. QED
    BY <2>3, <2>4 DEF IInv, TypeOK
<1>4. CASE StreamOf(m) \notin streams
  <2>1. /\ streams' = streams \union {StreamOf(m)}
        /\ OpenBucket(w, m)
        /\ pick' = [pick EXCEPT ![w] = {}]
        /\ pc' = [pc EXCEPT ![w] = "group"]
        /\ UNCHANGED <<batch, asking, group, bucket, queueVars, found>>
    BY <1>2, <1>4
  <2>2. StreamOf(m) \in Tenant \X Stream
    BY <1>a, MessageParts DEF ConsumersOK
  <2>3. StoreOK' /\ FoundRows'
    BY <1>1, <1>a, <2>1, <2>2 DEF IInv, StoreOK, FoundRows
  <2>4. /\ fresh' \in [Worker -> SUBSET Message] /\ opened' \in [Worker -> SUBSET Message]
        /\ fresh'[w] \union opened'[w] = fresh[w] \union opened[w]
        /\ \A v \in Worker \ {w} : fresh'[v] = fresh[v] /\ opened'[v] = opened[v]
    BY <1>a, <2>1, OpenBucketMoves DEF ConsumersOK
  <2>5. ConsumersOK'
    BY <1>a, <1>1, <2>1, <2>4 DEF ConsumersOK, Label
  <2>6. Consumer(w)'
    BY <1>a, <1>1, <2>1, <2>4 DEF Consumer, Accounted, Writing, ConsumersOK, queueVars
  <2>7. \A v \in Worker \ {w} : Same(v)
    BY <1>a, <2>1, <2>4 DEF Same, ConsumersOK
  <2>8. QED
    BY <1>1, <2>1, <2>3, <2>5, <2>6, <2>7, WorkStep
<1>5. QED
  BY <1>3, <1>4

LEMMA SavePendingStep ==
  ASSUME IInv, NEW w \in Worker, NEW s, SavePending(w, s)
  PROVE  IInv'
<1> DEFINE B == {m \in opened[w] : StreamOf(m) = s}
<1>a. ConsumersOK /\ StoreOK /\ Consumer(w) /\ pc[w] = "group" /\ B # {}
  BY DEF IInv, TypeOK, SavePending
<1>b. B \in SUBSET Message
  BY <1>a DEF ConsumersOK
<1>1. /\ SaveChunk(B, "pending")
      /\ opened' = [opened EXCEPT ![w] = @ \ B]
      /\ bucket' = [bucket EXCEPT ![w] = B]
      /\ pc' = [pc EXCEPT ![w] = "put"]
      /\ UNCHANGED <<batch, asking, fresh, group, pick, queueVars, streams, objects, dedup,
                     dropped, usage, tail, found, faults>>
  BY DEF SavePending, Goto
<1>2. StoreOK' /\ FoundRows'
  <2> HIDE DEF B
  <2>1. chunks' \in [Id -> Row \union {NoRow}] /\ FoundRows'
    BY <1>a, <1>b, <1>1, SaveChunkType DEF IInv, StoreOK, Status
  <2>2. QED
    BY <1>a, <1>1, <2>1 DEF StoreOK
<1>3. ConsumersOK'
  BY <1>a, <1>b, <1>1 DEF ConsumersOK, Label
<1>4. Consumer(w)'
  <2>1. /\ batch'[w] = batch[w] /\ pick'[w] = pick[w] /\ opened'[w] = opened[w] \ B
        /\ bucket'[w] = B /\ asking'[w] = asking[w] /\ pc'[w] = "put"
        /\ fresh'[w] = fresh[w] /\ sent' = sent /\ dedup' = dedup
    BY <1>a, <1>1 DEF ConsumersOK, queueVars
  <2>2. bucket[w] = {}
    BY <1>a DEF Consumer, Writing
  <2>3. ASSUME NEW m \in batch'[w] PROVE Accounted(w, m)'
    BY <1>a, <2>1, <2>2 DEF Consumer, Accounted
  <2>4. QED
    BY <1>a, <2>1, <2>3 DEF Consumer, Writing
<1>5. \A v \in Worker \ {w} : Same(v)
  BY <1>a, <1>1 DEF Same, ConsumersOK
<1>6. QED
  BY <1>1, <1>2, <1>3, <1>4, <1>5, WorkStep

LEMMA PutObjectStep ==
  ASSUME IInv, NEW w \in Worker, PutObject(w)
  PROVE  IInv'
<1>a. ConsumersOK /\ StoreOK /\ Consumer(w) /\ pc[w] = "put"
  BY DEF IInv, TypeOK, PutObject
<1>b. bucket[w] \in SUBSET Message /\ bucket[w] # {}
  BY <1>a DEF ConsumersOK, Consumer, Writing
<1>1. PICK label \in Writing : pc' = [pc EXCEPT ![w] = label]
  BY DEF PutObject, Goto, Writing
<1>2. UNCHANGED <<batch, localVars, queueVars, streams, chunks, dedup, dropped, usage, tail, found, faults>>
  BY DEF PutObject
<1>3. StoreOK' /\ FoundRows'
  <2>1. ObjectKey(bucket[w]) \in Key
    BY <1>b, BucketNames
  <2>2. objects' \in [Key -> SUBSET Message]
    BY <1>a, <1>b, <2>1 DEF PutObject, StoreOK
  <2>3. QED
    BY <1>a, <1>2, <2>2 DEF IInv, StoreOK, FoundRows
<1>4. ConsumersOK'
  BY <1>a, <1>1, <1>2 DEF ConsumersOK, Label, Writing, localVars
<1>5. Consumer(w)'
  BY <1>a, <1>1, <1>2 DEF Consumer, Accounted, Writing, ConsumersOK, localVars, queueVars
<1>6. \A v \in Worker \ {w} : Same(v)
  BY <1>a, <1>1, <1>2 DEF Same, ConsumersOK, localVars
<1>7. QED
  BY <1>2, <1>3, <1>4, <1>5, <1>6, WorkStep

LEMMA SaveReadyStep ==
  ASSUME IInv, NEW w \in Worker, SaveReady(w)
  PROVE  IInv'
<1>a. ConsumersOK /\ StoreOK /\ Consumer(w) /\ pc[w] = "ready"
  BY DEF IInv, TypeOK, SaveReady
<1>b. bucket[w] \in SUBSET Message /\ bucket[w] # {}
  BY <1>a DEF ConsumersOK, Consumer, Writing
<1>1. PICK label \in Writing : pc' = [pc EXCEPT ![w] = label]
  BY DEF SaveReady, Goto, Writing
<1>2. UNCHANGED <<batch, localVars, queueVars, streams, objects, dedup, dropped, usage, tail, found, faults>>
  BY DEF SaveReady
<1>3. StoreOK' /\ FoundRows'
  <2>1. SaveChunk(bucket[w], "ready")
    BY DEF SaveReady
  <2>2. chunks' \in [Id -> Row \union {NoRow}] /\ FoundRows'
    BY <1>a, <1>b, <1>2, <2>1, SaveChunkType DEF IInv, StoreOK, Status
  <2>3. QED
    BY <1>a, <1>2, <2>2 DEF StoreOK
<1>4. ConsumersOK'
  BY <1>a, <1>1, <1>2 DEF ConsumersOK, Label, Writing, localVars
<1>5. Consumer(w)'
  BY <1>a, <1>1, <1>2 DEF Consumer, Accounted, Writing, ConsumersOK, localVars, queueVars
<1>6. \A v \in Worker \ {w} : Same(v)
  BY <1>a, <1>1, <1>2 DEF Same, ConsumersOK, localVars
<1>7. QED
  BY <1>2, <1>3, <1>4, <1>5, <1>6, WorkStep

LEMMA CountUsageStep ==
  ASSUME IInv, NEW w \in Worker, CountUsage(w)
  PROVE  IInv'
<1>a. ConsumersOK /\ StoreOK /\ Consumer(w) /\ pc[w] = "usage"
  BY DEF IInv, TypeOK, CountUsage
<1>b. bucket[w] \in SUBSET Message /\ bucket[w] # {}
  BY <1>a DEF ConsumersOK, Consumer, Writing
<1>1. PICK label \in Writing : pc' = [pc EXCEPT ![w] = label]
  BY DEF CountUsage, Goto, Writing
<1>2. UNCHANGED <<batch, localVars, queueVars, streams, chunks, objects, dedup, dropped, tail, found, faults>>
  BY DEF CountUsage
<1>3. StoreOK' /\ FoundRows'
  <2>1. PICK m \in bucket[w] : usage' = [usage EXCEPT ![TenantOf(m)] = @ + 1]
    BY DEF CountUsage
  <2>2. usage' \in [Tenant -> Nat]
    BY <1>a, <1>b, <2>1, MessageParts DEF StoreOK
  <2>3. QED
    BY <1>a, <1>2, <2>2 DEF IInv, StoreOK, FoundRows
<1>4. ConsumersOK'
  BY <1>a, <1>1, <1>2 DEF ConsumersOK, Label, Writing, localVars
<1>5. Consumer(w)'
  BY <1>a, <1>1, <1>2 DEF Consumer, Accounted, Writing, ConsumersOK, localVars, queueVars
<1>6. \A v \in Worker \ {w} : Same(v)
  BY <1>a, <1>1, <1>2 DEF Same, ConsumersOK, localVars
<1>7. QED
  BY <1>2, <1>3, <1>4, <1>5, <1>6, WorkStep

LEMMA PublishTailStep ==
  ASSUME IInv, NEW w \in Worker, PublishTail(w)
  PROVE  IInv'
<1>a. ConsumersOK /\ StoreOK /\ Consumer(w) /\ pc[w] = "publish"
  BY DEF IInv, TypeOK, PublishTail
<1>b. bucket[w] \in SUBSET Message /\ bucket[w] # {}
  BY <1>a DEF ConsumersOK, Consumer, Writing
<1>1. PICK label \in Writing : pc' = [pc EXCEPT ![w] = label]
  BY DEF PublishTail, Goto, Writing
<1>2. UNCHANGED <<batch, localVars, queueVars, streams, chunks, objects, dedup, dropped, usage, found, faults>>
  BY DEF PublishTail
<1>3. StoreOK' /\ FoundRows'
  <2>1. tail' \in SUBSET Message
    BY <1>a, <1>b DEF PublishTail, StoreOK
  <2>2. QED
    BY <1>a, <1>2, <2>1 DEF IInv, StoreOK, FoundRows
<1>4. ConsumersOK'
  BY <1>a, <1>1, <1>2 DEF ConsumersOK, Label, Writing, localVars
<1>5. Consumer(w)'
  BY <1>a, <1>1, <1>2 DEF Consumer, Accounted, Writing, ConsumersOK, localVars, queueVars
<1>6. \A v \in Worker \ {w} : Same(v)
  BY <1>a, <1>1, <1>2 DEF Same, ConsumersOK, localVars
<1>7. QED
  BY <1>2, <1>3, <1>4, <1>5, <1>6, WorkStep

LEMMA RememberStep ==
  ASSUME IInv, NEW w \in Worker, Remember(w)
  PROVE  IInv'
<1>a. ConsumersOK /\ StoreOK /\ Consumer(w) /\ pc[w] = "remember"
  BY DEF IInv, TypeOK, Remember
<1> DEFINE keys == {DedupKey(m) : m \in bucket[w]}
<1>b. keys \in SUBSET (Tenant \X Id)
  BY <1>a, MessageParts DEF ConsumersOK
<1>1. /\ dedup' = dedup \union keys
      /\ bucket' = [bucket EXCEPT ![w] = {}]
      /\ pc' = [pc EXCEPT ![w] = "group"]
      /\ UNCHANGED <<batch, asking, fresh, group, pick, opened, queueVars, streams, chunks,
                     objects, dropped, usage, tail, found, faults>>
  BY DEF Remember, Goto
<1>2. StoreOK' /\ FoundRows'
  <2> HIDE DEF keys
  <2>1. QED
    BY <1>a, <1>b, <1>1 DEF IInv, StoreOK, FoundRows
<1>3. ConsumersOK'
  BY <1>a, <1>1 DEF ConsumersOK, Label
<1>4. Consumer(w)'
  <2>1. /\ batch'[w] = batch[w] /\ pick'[w] = pick[w] /\ opened'[w] = opened[w]
        /\ bucket'[w] = {} /\ asking'[w] = asking[w] /\ pc'[w] = "group"
        /\ fresh'[w] = fresh[w] /\ sent' = sent
    BY <1>a, <1>1 DEF ConsumersOK, queueVars
  <2>2. ASSUME NEW m \in batch'[w] PROVE Accounted(w, m)'
    BY <1>a, <1>1, <2>1 DEF Consumer, Accounted
  <2>3. QED
    BY <1>a, <2>1, <2>2 DEF Consumer, Writing
<1>5. \A v \in Worker \ {w} : Same(v)
  BY <1>a, <1>1 DEF Same, ConsumersOK
<1>6. QED
  BY <1>1, <1>2, <1>3, <1>4, <1>5, WorkStep

LEMMA AckStep ==
  ASSUME IInv, NEW w \in Worker, Ack(w)
  PROVE  IInv'
<1>a. /\ ConsumersOK /\ Consumer(w) /\ pc[w] = "group"
      /\ fresh[w] = {} /\ opened[w] = {}
  BY DEF IInv, TypeOK, Ack
<1>1. /\ batch' = [batch EXCEPT ![w] = {}]
      /\ group' = [group EXCEPT ![w] = {}]
      /\ pc' = [pc EXCEPT ![w] = "idle"]
      /\ UNCHANGED <<asking, fresh, pick, opened, bucket, queueVars, storeVars, found, faults>>
  BY DEF Ack, Goto
<1>2. StoreOK' /\ FoundRows'
  BY <1>1 DEF IInv, TypeOK, StoreOK, FoundRows, storeVars
<1>3. ConsumersOK'
  BY <1>a, <1>1 DEF ConsumersOK, Label
<1>4. bucket[w] = {} /\ asking[w] = {} /\ pick[w] = {}
  BY <1>a DEF Consumer, Writing
<1>5. Consumer(w)'
  BY <1>a, <1>1, <1>4 DEF Consumer, Writing, ConsumersOK
<1>6. \A m \in batch[w] : DedupKey(m) \in dedup'
  BY <1>a, <1>1, <1>4 DEF Consumer, Accounted, storeVars
<1>7. \A v \in Worker \ {w} : Same(v)
  BY <1>a, <1>1 DEF Same, ConsumersOK
<1>8. QED
  BY <1>1, <1>2, <1>3, <1>5, <1>6, <1>7, WorkStep DEF storeVars

LEMMA ThrowsStep ==
  ASSUME IInv, NEW w \in Worker, Throws(w) \/ PublishTailThrows(w)
  PROVE  IInv'
<1>a. ConsumersOK /\ StoreOK
  BY DEF IInv, TypeOK
<1>1. /\ Fail(w) /\ faults' = faults + 1
      /\ UNCHANGED <<streams, chunks, objects, dedup, dropped, usage>>
  BY DEF Throws, PublishTailThrows, storeVars
<1>2. tail' \in SUBSET Message
  BY <1>a DEF Throws, PublishTailThrows, storeVars, StoreOK, ConsumersOK
<1>3. found' = found
  BY <1>1 DEF Fail
<1>4. StoreOK' /\ FoundRows'
  BY <1>a, <1>1, <1>2, <1>3 DEF IInv, StoreOK, FoundRows
<1>5. QueueOK' /\ NothingLost' /\ ConsumersOK' /\ \A v \in Worker : Consumer(v)'
  BY <1>a, <1>1, FailKeeps DEF ConsumersOK
<1>6. QED
  BY <1>4, <1>5 DEF IInv, TypeOK

LEMMA ReconcileStep ==
  ASSUME IInv, NEW c \in Cron, Reconcile(c)
  PROVE  IInv'
<1>a. TypeOK /\ StoreOK
  BY DEF IInv, TypeOK
<1>1. UNCHANGED <<queueVars, workerVars, faults>> /\ dedup' = dedup
  BY DEF Reconcile, ListPending, SaveFailed, storeVars
<1>2. QueueOK' /\ ConsumersOK'
  BY <1>a, <1>1 DEF TypeOK, QueueOK, ConsumersOK, queueVars, workerVars, localVars
<1>3. NothingLost' /\ \A v \in Worker : Consumer(v)'
  <2>1. \A v \in Worker : Consumer(v)'
    BY <1>1, ConsumerFrame DEF IInv, Same, queueVars, workerVars, localVars
  <2>2. NothingLost'
    BY <1>1 DEF IInv, NothingLost, queueVars, workerVars
  <2>3. QED
    BY <2>1, <2>2
<1>4. NoRow \notin Row /\ NoRow.status = "none"
  BY DEF Row, NoRow, Status
<1>5. CASE ListPending(c)
  <2>1. /\ found' = [found EXCEPT ![c] = {i \in Id : chunks[i].status = "pending"}]
        /\ UNCHANGED storeVars
    BY <1>5 DEF ListPending
  <2>2. StoreOK'
    BY <1>a, <2>1 DEF StoreOK, storeVars
  <2>3. FoundRows'
    BY <1>a, <1>4, <2>1 DEF IInv, FoundRows, StoreOK, storeVars
  <2>4. QED
    BY <1>2, <1>3, <2>2, <2>3 DEF IInv, TypeOK
<1>6. ASSUME NEW i \in found[c], SaveFailed(c, i) PROVE IInv'
  <2> DEFINE new == [chunks[i] EXCEPT !.status = "failed"]
  <2>1. /\ found' = [found EXCEPT ![c] = @ \ {i}]
        /\ chunks' = [chunks EXCEPT ![i] = new]
        /\ UNCHANGED <<streams, objects, dedup, dropped, usage, tail>>
    BY <1>6 DEF SaveFailed
  <2>2. i \in Id /\ chunks[i] \in Row
    BY <1>a, <1>6 DEF IInv, FoundRows, StoreOK
  <2>3. new \in Row
    BY <2>2 DEF Row, Status
  <2> HIDE DEF new
  <2>4. StoreOK'
    BY <1>a, <2>1, <2>2, <2>3 DEF StoreOK
  <2>5. FoundRows'
    BY <1>a, <1>4, <2>1, <2>2, <2>3 DEF IInv, FoundRows, StoreOK
  <2>6. QED
    BY <1>2, <1>3, <2>4, <2>5 DEF IInv, TypeOK
<1>7. QED
  BY <1>5, <1>6 DEF Reconcile

-----------------------------------------------------------------------------
LEMMA StepIInv == IInv /\ [Next]_vars => IInv'
<1> SUFFICES ASSUME IInv, [Next]_vars PROVE IInv'
  OBVIOUS
<1>1. ASSUME NEW m \in Message, Publish(m) PROVE IInv'
  BY <1>1, PublishStep
<1>2. ASSUME NEW w \in Worker, NEW B \in SUBSET queue, Receive(w, B) PROVE IInv'
  BY <1>2, ReceiveStep
<1>3. ASSUME NEW w \in Worker, Work(w) PROVE IInv'
  <2>1. ASSUME NEW t \in asking[w], FilterUnseen(w, t) PROVE IInv'
    BY <2>1, FilterUnseenStep
  <2>2. ASSUME NEW m \in fresh[w], FindStream(w, m) PROVE IInv'
    BY <2>2, FindStreamStep
  <2>3. ASSUME NEW s, SavePending(w, s) PROVE IInv'
    BY <2>3, SavePendingStep
  <2>4. CASE CountStreams(w) \/ InsertStream(w) \/ DropEvent(w)
    BY <2>4, CountStreamsStep, InsertStreamStep, DropEventStep
  <2>5. CASE PutObject(w) \/ SaveReady(w) \/ CountUsage(w) \/ PublishTail(w)
    BY <2>5, PutObjectStep, SaveReadyStep, CountUsageStep, PublishTailStep
  <2>6. CASE Remember(w) \/ Ack(w)
    BY <2>6, RememberStep, AckStep
  <2>7. QED
    BY <1>3, <2>1, <2>2, <2>3, <2>4, <2>5, <2>6 DEF Work
<1>4. ASSUME NEW w \in Worker, Throws(w) \/ PublishTailThrows(w) PROVE IInv'
  BY <1>4, ThrowsStep
<1>5. ASSUME NEW c \in Cron, Reconcile(c) PROVE IInv'
  BY <1>5, ReconcileStep
<1>6. CASE UNCHANGED vars
  BY <1>6 DEF vars, queueVars, storeVars, workerVars, localVars, IInv, TypeOK, QueueOK, StoreOK,
              ConsumersOK, NothingLost, FoundRows, Consumer, Accounted
<1>7. QED
  BY <1>1, <1>2, <1>3, <1>4, <1>5, <1>6 DEF Next

\* Every reachable state is well typed, whatever the events, consumers, crons,
\* batch size, retries, limits and faults.
THEOREM TypeCorrect == Spec => []TypeOK
<1>1. IInv => TypeOK
  BY DEF IInv
<1>2. QED
  BY <1>1, InitIInv, StepIInv, PTL DEF Spec

\* No published message is dropped silently: consume.ts never forgets a
\* message that it neither remembered nor gave back to the queue.
THEOREM NoMessageLost == Spec => []NothingLost
<1>1. IInv => NothingLost
  BY DEF IInv
<1>2. QED
  BY <1>1, InitIInv, StepIInv, PTL DEF Spec

-----------------------------------------------------------------------------
(* A remembered log event has been sent to the live tail, because what a   *)
(* consumer is about to remember has been.                                 *)

HeldTailed == \A w \in Worker : pc[w] = "remember" => bucket[w] \subseteq tail
Tailed == Signal = "logs" => RememberedIsTailed /\ HeldTailed

LEMMA TailedFrame ==
  ASSUME Tailed, tail \subseteq tail', dedup' \ dropped' \subseteq dedup \ dropped,
         Signal = "logs" => \A w \in Worker : pc'[w] = "remember" =>
           \/ pc[w] = "remember" /\ bucket'[w] = bucket[w]
           \/ bucket'[w] \subseteq tail'
  PROVE  Tailed'
BY DEF Tailed, RememberedIsTailed, HeldTailed

\* A failed batch leaves its consumer idle.
LEMMA FailIsIdle ==
  ASSUME ConsumersOK, NEW w \in Worker, Fail(w)
  PROVE  \A v \in Worker : pc'[v] = "remember" => pc[v] = "remember" /\ bucket'[v] = bucket[v]
BY DEF Fail, Goto, ConsumersOK

LEMMA TailedWork ==
  ASSUME IInv, Tailed, NEW w \in Worker, Work(w)
  PROVE  Tailed'
<1>a. ConsumersOK /\ StoreOK /\ Consumer(w)
  BY DEF IInv, TypeOK
<1>1. ASSUME NEW t, FilterUnseen(w, t) PROVE Tailed'
  BY <1>a, <1>1, TailedFrame DEF FilterUnseen, Goto, storeVars, ConsumersOK
<1>2. ASSUME NEW m, FindStream(w, m) PROVE Tailed'
  BY <1>a, <1>2, TailedFrame DEF FindStream, Goto, storeVars, ConsumersOK
<1>3. ASSUME NEW s, SavePending(w, s) PROVE Tailed'
  BY <1>a, <1>3, TailedFrame DEF SavePending, Goto, ConsumersOK
<1>4. CASE CountStreams(w)
  BY <1>a, <1>4, TailedFrame DEF CountStreams, Goto, localVars, storeVars, ConsumersOK
<1>5. CASE InsertStream(w)
  <2>1. UNCHANGED <<dedup, dropped, tail>>
    BY <1>5 DEF InsertStream
  <2>2. \A v \in Worker : pc'[v] = "remember" => pc[v] = "remember" /\ bucket'[v] = bucket[v]
    BY <1>a, <1>5, FailIsIdle DEF InsertStream, Goto, ConsumersOK
  <2>3. QED
    BY <2>1, <2>2, TailedFrame
<1>6. CASE DropEvent(w)
  <2>1. dedup' \ dropped' \subseteq dedup \ dropped
    BY <1>6 DEF DropEvent
  <2>2. QED
    BY <1>a, <1>6, <2>1, TailedFrame DEF DropEvent, Goto, ConsumersOK
<1>7. CASE PutObject(w) \/ CountUsage(w) \/ Ack(w)
  BY <1>a, <1>7, TailedFrame DEF PutObject, CountUsage, Ack, Goto, localVars, storeVars, ConsumersOK
<1>8. CASE SaveReady(w)
  BY <1>a, <1>8, TailedFrame DEF SaveReady, Goto, localVars, ConsumersOK
<1>9. CASE PublishTail(w)
  <2>1. tail' = tail \union bucket[w] /\ bucket' = bucket
    BY <1>9 DEF PublishTail, localVars
  <2>2. \A v \in Worker \ {w} : pc'[v] = pc[v]
    BY <1>a, <1>9 DEF PublishTail, Goto, ConsumersOK
  <2>3. QED
    BY <1>9, <2>1, <2>2, TailedFrame DEF PublishTail
<1>10. CASE Remember(w)
  <2>1. /\ dedup' = dedup \union {DedupKey(m) : m \in bucket[w]}
        /\ dropped' = dropped /\ tail' = tail
        /\ \A v \in Worker : pc'[v] = "remember" => pc[v] = "remember" /\ bucket'[v] = bucket[v]
        /\ pc[w] = "remember" /\ bucket[w] \subseteq Message
    BY <1>a, <1>10 DEF Remember, Goto, ConsumersOK
  <2>2. SUFFICES ASSUME Signal = "logs", NEW e \in Event, <<e.tenant, e.id>> \in dedup' \ dropped'
                 PROVE  \E m \in tail' : m[1] = e
    BY <2>1 DEF Tailed, RememberedIsTailed, HeldTailed
  <2>3. CASE <<e.tenant, e.id>> \in dedup
    BY <2>1, <2>2, <2>3 DEF Tailed, RememberedIsTailed
  <2>4. ASSUME NEW m \in bucket[w], <<e.tenant, e.id>> = DedupKey(m) PROVE m \in tail' /\ m[1] = e
    <3>1. m[1] \in Event /\ m[1].tenant = e.tenant /\ m[1].id = e.id
      BY <2>1, <2>4, MessageParts DEF DedupKey
    <3>2. m[1] = e
      BY <3>1, EventAssumption
    <3>3. QED
      BY <2>1, <2>2, <3>2 DEF Tailed, HeldTailed
  <2>5. QED
    BY <2>1, <2>2, <2>3, <2>4
<1>11. QED
  BY <1>1, <1>2, <1>3, <1>4, <1>5, <1>6, <1>7, <1>8, <1>9, <1>10 DEF Work

LEMMA TailedStep == IInv /\ Tailed /\ [Next]_vars => Tailed'
<1> SUFFICES ASSUME IInv, Tailed, [Next]_vars PROVE Tailed'
  OBVIOUS
<1>a. ConsumersOK /\ StoreOK
  BY DEF IInv, TypeOK
<1>1. ASSUME NEW m, Publish(m) PROVE Tailed'
  BY <1>1, TailedFrame DEF Publish, storeVars, workerVars, localVars
<1>2. ASSUME NEW w \in Worker, NEW B, Receive(w, B) PROVE Tailed'
  BY <1>a, <1>2, TailedFrame DEF Receive, Goto, storeVars, ConsumersOK
<1>3. ASSUME NEW w \in Worker, Throws(w) \/ PublishTailThrows(w) PROVE Tailed'
  <2>1. Fail(w) /\ dedup' = dedup /\ dropped' = dropped /\ tail \subseteq tail'
    BY <1>3 DEF Throws, PublishTailThrows, storeVars
  <2>2. QED
    BY <1>a, <2>1, FailIsIdle, TailedFrame
<1>4. ASSUME NEW c \in Cron, Reconcile(c) PROVE Tailed'
  BY <1>4, TailedFrame DEF Reconcile, ListPending, SaveFailed, storeVars, workerVars, localVars
<1>5. CASE UNCHANGED vars
  BY <1>5, TailedFrame DEF vars, storeVars, workerVars, localVars
<1>6. QED
  BY <1>1, <1>2, <1>3, <1>4, <1>5, TailedWork DEF Next

\* Whatever faults and redeliveries occur, a remembered log event has been
\* sent to the live tail: remembering comes last in consumeLogGroup.
THEOREM TailIsComplete == Spec => []RememberedIsTailed
<1>1. Init => Tailed
  BY DEF Init, Tailed, RememberedIsTailed, HeldTailed
<1>2. Tailed => RememberedIsTailed
  BY DEF Tailed, RememberedIsTailed
<1>3. QED
  BY <1>1, <1>2, InitIInv, StepIInv, TailedStep, PTL DEF Spec

-----------------------------------------------------------------------------
(* The limit on streams.  Between counting and inserting, the streams of a *)
(* tenant and the consumers about to insert one are together bounded: each *)
(* of those consumers counted fewer than MaxStreams streams.               *)

OfTenant(t) == {s \in streams : s[1] = t}
Inserting(t) == {w \in Worker : pc[w] = "insert" /\ group[w] = {t}}
Choosing == {"count", "insert", "drop"}

\* A consumer that has no stream for a message asks about its tenant.
Chosen(w) ==
  pc[w] \in Choosing => \E m \in Message : pick[w] = {m} /\ group[w] = {TenantOf(m)}

Room(t) == Cardinality(OfTenant(t)) + Cardinality(Inserting(t)) < MaxStreams + Cardinality(Worker)

LimitInv ==
  /\ IsFiniteSet(streams)
  /\ \A w \in Worker : Chosen(w)
  /\ \A t \in Tenant : Room(t)

Still(v) == Same(v) /\ group'[v] = group[v]

LEMMA InitLimit ==
  ASSUME IsFiniteSet(Worker), Worker # {}, Init
  PROVE  LimitInv
<1>1. Cardinality(Worker) \in Nat /\ Cardinality(Worker) # 0 /\ MaxStreams \in Nat
  BY FS_CardinalityType, FS_EmptySet, BoundsAssumption
<1>2. ASSUME NEW t \in Tenant PROVE Room(t)
  <2>1. OfTenant(t) = {} /\ Inserting(t) = {}
    BY DEF Init, OfTenant, Inserting
  <2>2. QED
    BY <1>1, <2>1, FS_EmptySet DEF Room
<1>3. IsFiniteSet(streams)
  BY FS_EmptySet DEF Init
<1>4. QED
  BY <1>2, <1>3 DEF LimitInv, Chosen, Choosing, Init

\* No stream is added, and only w may have come to insert one.
LEMMA RoomKept ==
  ASSUME IsFiniteSet(Worker), LimitInv, NEW t \in Tenant, streams' = streams,
         Inserting(t)' \subseteq Inserting(t)
  PROVE  Room(t)'
<1>1. IsFiniteSet(Inserting(t)) /\ OfTenant(t)' = OfTenant(t) /\ IsFiniteSet(OfTenant(t))
  BY FS_Subset DEF Inserting, LimitInv, OfTenant
<1>2. /\ Cardinality(Inserting(t)') \in Nat /\ Cardinality(Inserting(t)) \in Nat
      /\ Cardinality(Inserting(t)') <= Cardinality(Inserting(t))
  BY <1>1, FS_Subset, FS_CardinalityType
<1>3. /\ Cardinality(OfTenant(t)) \in Nat /\ Cardinality(Worker) \in Nat /\ MaxStreams \in Nat
  BY <1>1, FS_CardinalityType, BoundsAssumption
<1>4. Cardinality(OfTenant(t)) + Cardinality(Inserting(t)) < MaxStreams + Cardinality(Worker)
  BY DEF LimitInv, Room
<1>5. QED
  BY <1>1, <1>2, <1>3, <1>4 DEF Room

\* Nobody else moves, and w does not come to insert.
LEMMA LimitFrame ==
  ASSUME IsFiniteSet(Worker), LimitInv, NEW w \in Worker, streams' = streams,
         \A v \in Worker \ {w} : Still(v), pc'[w] # "insert", Chosen(w)'
  PROVE  LimitInv'
<1>1. \A v \in Worker : Chosen(v)'
  BY DEF LimitInv, Chosen, Still, Same
<1>2. \A t \in Tenant : Inserting(t)' \subseteq Inserting(t)
  BY DEF Inserting, Still, Same
<1>3. \A t \in Tenant : Room(t)'
  BY <1>2, RoomKept
<1>4. QED
  BY <1>1, <1>3 DEF LimitInv

LEMMA FailStill ==
  ASSUME ConsumersOK, NEW w \in Worker, Fail(w)
  PROVE  /\ pc'[w] = "idle" /\ batch'[w] = {} /\ fresh'[w] = {} /\ opened'[w] = {} /\ bucket'[w] = {}
         /\ \A v \in Worker \ {w} : Still(v)
<1>1. pc'[w] = "idle" /\ batch'[w] = {} /\ fresh'[w] = {} /\ opened'[w] = {} /\ bucket'[w] = {}
  BY DEF Fail, Goto, ConsumersOK
<1>2. \A v \in Worker \ {w} : Still(v)
  BY DEF Fail, Goto, ConsumersOK, Still, Same
<1>3. QED
  BY <1>1, <1>2

LEMMA LimitCount ==
  ASSUME IsFiniteSet(Worker), IInv, LimitInv, NEW w \in Worker, CountStreams(w)
  PROVE  LimitInv'
<1>a. ConsumersOK
  BY DEF IInv, TypeOK
<1>1. /\ pc[w] = "count" /\ pc'[w] \in {"drop", "insert"}
      /\ pc'[w] = "insert" => ~(Cardinality({s \in streams : {s[1]} = group[w]}) >= MaxStreams)
      /\ UNCHANGED <<streams, pick, group>> /\ \A v \in Worker \ {w} : Still(v)
  BY <1>a DEF CountStreams, Goto, localVars, storeVars, ConsumersOK, Still, Same
<1>2. \A v \in Worker : Chosen(v)'
  BY <1>1 DEF LimitInv, Chosen, Choosing, Still, Same
<1>3. ASSUME NEW t \in Tenant PROVE Room(t)'
  <2>1. CASE pc'[w] = "insert" /\ group[w] = {t}
    <3>1. {s \in streams : {s[1]} = group[w]} = OfTenant(t)
      BY <2>1 DEF OfTenant
    <3>2. ~(Cardinality(OfTenant(t)) >= MaxStreams)
      BY <1>1, <2>1, <3>1
    <3>3. IsFiniteSet(OfTenant(t)) /\ OfTenant(t)' = OfTenant(t) /\ Inserting(t)' \in SUBSET Worker
      BY <1>1, FS_Subset DEF LimitInv, OfTenant, Inserting
    <3>4. /\ Cardinality(OfTenant(t)) \in Nat /\ MaxStreams \in Nat
          /\ Cardinality(Inserting(t)') \in Nat /\ Cardinality(Worker) \in Nat
          /\ Cardinality(Inserting(t)') <= Cardinality(Worker)
      BY <3>3, FS_Subset, FS_CardinalityType, BoundsAssumption
    <3>5. QED
      BY <3>2, <3>3, <3>4 DEF Room
  <2>2. CASE ~(pc'[w] = "insert" /\ group[w] = {t})
    <3>1. Inserting(t)' \subseteq Inserting(t)
      BY <1>1, <2>2 DEF Inserting, Still, Same
    <3>2. QED
      BY <1>1, <3>1, RoomKept
  <2>3. QED
    BY <2>1, <2>2
<1>4. QED
  BY <1>1, <1>2, <1>3 DEF LimitInv

LEMMA LimitInsert ==
  ASSUME IsFiniteSet(Worker), IInv, LimitInv, NEW w \in Worker, InsertStream(w)
  PROVE  LimitInv'
<1>a. ConsumersOK
  BY DEF IInv, TypeOK
<1>1. PICK m \in pick[w] :
        IF StreamOf(m) \in streams
        THEN Fail(w) /\ UNCHANGED streams
        ELSE /\ streams' = streams \union {StreamOf(m)}
             /\ OpenBucket(w, m)
             /\ pick' = [pick EXCEPT ![w] = {}]
             /\ Goto(w, "group")
             /\ UNCHANGED <<batch, asking, group, bucket, queueVars, found>>
  BY DEF InsertStream
<1>2. CASE StreamOf(m) \in streams
  BY <1>a, <1>1, <1>2, FailStill, LimitFrame DEF Chosen, Choosing
<1>3. CASE StreamOf(m) \notin streams
  <2>1. /\ streams' = streams \union {StreamOf(m)} /\ pc'[w] = "group" /\ group' = group
        /\ \A v \in Worker \ {w} : pc'[v] = pc[v] /\ pick'[v] = pick[v]
    BY <1>a, <1>1, <1>3 DEF Goto, ConsumersOK
  <2>2. pc[w] = "insert" /\ m \in Message /\ group[w] = {TenantOf(m)} /\ pick[w] = {m}
    BY <1>1 DEF InsertStream, LimitInv, Chosen, Choosing
  <2>3. \A v \in Worker : Chosen(v)'
    BY <2>1 DEF LimitInv, Chosen, Choosing
  <2>4. IsFiniteSet(streams')
    BY <2>1, FS_AddElement DEF LimitInv
  <2>5. ASSUME NEW t \in Tenant PROVE Room(t)'
    <3>1. /\ IsFiniteSet(OfTenant(t)) /\ IsFiniteSet(Inserting(t))
          /\ Cardinality(OfTenant(t)) \in Nat /\ Cardinality(Inserting(t)) \in Nat
          /\ Cardinality(Worker) \in Nat /\ MaxStreams \in Nat
      <4>1. IsFiniteSet(OfTenant(t)) /\ IsFiniteSet(Inserting(t))
        BY FS_Subset DEF LimitInv, OfTenant, Inserting
      <4>2. QED
        BY <4>1, FS_CardinalityType, BoundsAssumption
    <3>2. Cardinality(OfTenant(t)) + Cardinality(Inserting(t)) < MaxStreams + Cardinality(Worker)
      BY DEF LimitInv, Room
    <3>3. CASE t = TenantOf(m)
      <4>1. OfTenant(t)' = OfTenant(t) \union {StreamOf(m)} /\ Inserting(t)' = Inserting(t) \ {w}
            /\ w \in Inserting(t) /\ StreamOf(m) \notin OfTenant(t)
        <5>1. StreamOf(m)[1] = t
          BY <3>3 DEF StreamOf, TenantOf
        <5>2. OfTenant(t)' = OfTenant(t) \union {StreamOf(m)} /\ StreamOf(m) \notin OfTenant(t)
          BY <1>3, <2>1, <5>1 DEF OfTenant
        <5>3. Inserting(t)' = Inserting(t) \ {w} /\ w \in Inserting(t)
          <6>1. pc'[w] # "insert"
            BY <2>1
          <6>2. \A v \in Worker \ {w} : pc'[v] = pc[v] /\ group'[v] = group[v]
            BY <2>1
          <6>3. w \in Inserting(t)
            BY <2>2, <3>3 DEF Inserting
          <6>4. Inserting(t)' = Inserting(t) \ {w}
            BY <6>1, <6>2 DEF Inserting
          <6>5. QED
            BY <6>3, <6>4
        <5>4. QED
          BY <5>2, <5>3
      <4>2. /\ Cardinality(OfTenant(t)') = Cardinality(OfTenant(t)) + 1
            /\ Cardinality(Inserting(t)') = Cardinality(Inserting(t)) - 1
        <5>1. Cardinality(OfTenant(t) \union {StreamOf(m)}) = Cardinality(OfTenant(t)) + 1
          BY <3>1, <4>1, FS_AddElement
        <5>2. Cardinality(Inserting(t) \ {w}) = Cardinality(Inserting(t)) - 1
          BY <3>1, <4>1, FS_RemoveElement
        <5>3. QED
          BY <4>1, <5>1, <5>2
      <4>3. QED
        BY <3>1, <3>2, <4>2 DEF Room
    <3>4. CASE t # TenantOf(m)
      <4>1. OfTenant(t)' = OfTenant(t) /\ Inserting(t)' = Inserting(t)
        BY <2>1, <2>2, <3>4 DEF OfTenant, Inserting, StreamOf, TenantOf
      <4>2. QED
        BY <3>2, <4>1 DEF Room
    <3>5. QED
      BY <3>3, <3>4
  <2>6. QED
    BY <2>3, <2>4, <2>5 DEF LimitInv
<1>4. QED
  BY <1>2, <1>3

LEMMA LimitStep ==
  ASSUME IsFiniteSet(Worker), IInv, LimitInv, [Next]_vars
  PROVE  LimitInv'
<1>a. ConsumersOK
  BY DEF IInv, TypeOK
<1>b. ASSUME UNCHANGED <<streams, pc, pick, group>> PROVE LimitInv'
  BY <1>b DEF LimitInv, Chosen, Room, OfTenant, Inserting
\* Every other step of a consumer leaves the streams alone and ends elsewhere.
<1>c. ASSUME NEW w \in Worker, NEW l, l \notin Choosing, Goto(w, l), UNCHANGED streams,
             \A v \in Worker \ {w} : pick'[v] = pick[v] /\ group'[v] = group[v]
      PROVE  LimitInv'
  <2>1. pc'[w] = l /\ \A v \in Worker \ {w} : pc'[v] = pc[v]
    BY <1>a, <1>c DEF Goto, ConsumersOK
  <2>2. \A v \in Worker : Chosen(v)'
    BY <1>c, <2>1 DEF LimitInv, Chosen, Choosing
  <2>3. \A t \in Tenant : Inserting(t)' \subseteq Inserting(t)
    BY <1>c, <2>1 DEF Inserting, Choosing
  <2>4. \A t \in Tenant : Room(t)'
    BY <1>c, <2>3, RoomKept
  <2>5. QED
    BY <1>c, <2>2, <2>4 DEF LimitInv
<1>1. ASSUME NEW w \in Worker, NEW m \in fresh[w], FindStream(w, m) PROVE LimitInv'
  <2>1. CASE StreamOf(m) \in streams
    <3>1. UNCHANGED <<streams, pc, pick>> /\ pc[w] = "group" /\ \A v \in Worker \ {w} : group'[v] = group[v]
      BY <1>1, <1>a, <2>1 DEF FindStream, storeVars, ConsumersOK
    <3>2. Goto(w, "group")
      BY <1>a, <3>1 DEF Goto, ConsumersOK
    <3>3. QED
      BY <1>c, <3>1, <3>2 DEF Choosing
  <2>2. CASE StreamOf(m) \notin streams
    <3>1. /\ pc'[w] = "count" /\ pick'[w] = {m} /\ group'[w] = {TenantOf(m)} /\ UNCHANGED streams
          /\ \A v \in Worker \ {w} : Still(v)
      BY <1>1, <1>a, <2>2 DEF FindStream, Goto, storeVars, ConsumersOK, Still, Same
    <3>2. m \in Message
      BY <1>a DEF ConsumersOK
    <3>3. QED
      BY <3>1, <3>2, LimitFrame DEF Chosen
  <2>3. QED
    BY <2>1, <2>2
<1>2. ASSUME NEW w \in Worker, NEW t \in asking[w], FilterUnseen(w, t) PROVE LimitInv'
  <2>1. Goto(w, "group") \/ Goto(w, "filter")
    BY <1>2 DEF FilterUnseen
  <2>2. QED
    BY <1>2, <1>c, <2>1 DEF FilterUnseen, storeVars, Choosing
<1>3. ASSUME NEW w \in Worker, DropEvent(w) PROVE LimitInv'
  BY <1>3, <1>a, <1>c DEF DropEvent, Choosing, ConsumersOK
<1>4. ASSUME NEW w \in Worker, NEW s, SavePending(w, s) PROVE LimitInv'
  BY <1>4, <1>c DEF SavePending, Choosing
<1>5. ASSUME NEW w \in Worker, SaveReady(w) PROVE LimitInv'
  <2>1. Goto(w, "usage") \/ Goto(w, "remember")
    BY <1>5 DEF SaveReady
  <2>2. QED
    BY <1>5, <1>c, <2>1 DEF SaveReady, localVars, Choosing
<1>6. ASSUME NEW w \in Worker, PutObject(w) \/ CountUsage(w) \/ PublishTail(w) PROVE LimitInv'
  BY <1>6, <1>c DEF PutObject, CountUsage, PublishTail, localVars, Choosing
<1>7. ASSUME NEW w \in Worker, Remember(w) \/ Ack(w) PROVE LimitInv'
  BY <1>7, <1>a, <1>c DEF Remember, Ack, storeVars, Choosing, ConsumersOK
<1>8. ASSUME NEW w \in Worker, Throws(w) \/ PublishTailThrows(w) PROVE LimitInv'
  BY <1>8, <1>a, FailStill, LimitFrame DEF Throws, PublishTailThrows, storeVars, Chosen, Choosing
<1>9. ASSUME NEW w \in Worker, NEW B \in SUBSET queue, Receive(w, B) PROVE LimitInv'
  BY <1>9, <1>c DEF Receive, storeVars, Choosing
<1>10. ASSUME NEW m \in Message, Publish(m) PROVE LimitInv'
  BY <1>10, <1>b DEF Publish, storeVars, workerVars, localVars
<1>11. ASSUME NEW c \in Cron, Reconcile(c) PROVE LimitInv'
  BY <1>11, <1>b DEF Reconcile, ListPending, SaveFailed, storeVars, workerVars, localVars
<1>12. CASE UNCHANGED vars
  BY <1>12, <1>b DEF vars, storeVars, workerVars, localVars
<1>13. QED
  BY <1>1, <1>2, <1>3, <1>4, <1>5, <1>6, <1>7, <1>8, <1>9, <1>10, <1>11, <1>12, LimitCount, LimitInsert
  DEF Next, Work

\* A tenant gets past its limit by less than one stream per consumer, whatever
\* the interleaving of their counts and insertions.
THEOREM StreamLimitHolds ==
  ASSUME IsFiniteSet(Worker), Worker # {}
  PROVE  Spec => []StreamLimit
<1>1. LimitInv => StreamLimit
  <2> SUFFICES ASSUME LimitInv, NEW t \in Tenant
               PROVE  Cardinality(OfTenant(t)) < MaxStreams + Cardinality(Worker)
    BY DEF StreamLimit, OfTenant
  <2>1. IsFiniteSet(OfTenant(t)) /\ IsFiniteSet(Inserting(t))
    BY FS_Subset DEF LimitInv, OfTenant, Inserting
  <2>2. /\ Cardinality(OfTenant(t)) \in Nat /\ Cardinality(Inserting(t)) \in Nat
        /\ Cardinality(Worker) \in Nat /\ MaxStreams \in Nat
    BY <2>1, FS_CardinalityType, BoundsAssumption
  <2>3. QED
    BY <2>2 DEF LimitInv, Room
<1>2. Init => LimitInv
  BY InitLimit
<1>3. IInv /\ LimitInv /\ [Next]_vars => LimitInv'
  BY LimitStep
<1>4. QED
  BY <1>1, <1>2, <1>3, InitIInv, StepIInv, PTL DEF Spec

-----------------------------------------------------------------------------
(* The steps, by what they do to what consumers hold and to the stores.    *)

Stores == UNCHANGED <<chunks, objects, dedup, dropped>>
Others(w) == \A v \in Worker \ {w} : Still(v)

Published(m) ==
  /\ m \notin sent /\ sent' = sent \union {m} /\ queue' = queue \union {m}
  /\ Stores /\ \A v \in Worker : Still(v)

Received(w) ==
  /\ pc'[w] = "filter" /\ batch'[w] \subseteq queue /\ queue' = queue \ batch'[w]
  /\ Cardinality(batch'[w]) <= BatchSize
  /\ fresh'[w] = {} /\ opened'[w] = {} /\ bucket'[w] = {}
  /\ sent' = sent /\ Stores /\ Others(w)

Filtered(w) ==
  /\ pc[w] = "filter" /\ pc'[w] \in {"filter", "group"}
  /\ \A m \in fresh'[w] : m \in fresh[w] \/ (m \in batch[w] /\ DedupKey(m) \notin dedup)
  /\ UNCHANGED <<batch[w], opened[w], bucket[w]>>
  /\ UNCHANGED <<sent, queue>> /\ Stores /\ Others(w)

Sorted(w) ==
  /\ pc[w] \in {"group", "count", "insert"} /\ pc'[w] \in {"group", "count", "insert", "drop"}
  /\ fresh'[w] \subseteq fresh[w] /\ opened'[w] = opened[w] \union (fresh[w] \ fresh'[w])
  /\ UNCHANGED <<batch[w], bucket[w]>>
  /\ UNCHANGED <<sent, queue>> /\ Stores /\ Others(w)

Refused(w, m) ==
  /\ m \in fresh[w] /\ fresh'[w] = fresh[w] \ {m}
  /\ dedup' = dedup \union {DedupKey(m)} /\ dropped' = dropped \union {DedupKey(m)}
  /\ pc[w] = "drop" /\ pc'[w] = "group" /\ UNCHANGED <<batch[w], opened[w], bucket[w]>>
  /\ UNCHANGED <<sent, queue, chunks, objects>> /\ Others(w)

Pended(w, s) ==
  /\ bucket'[w] = {m \in opened[w] : StreamOf(m) = s} /\ bucket'[w] # {}
  /\ opened'[w] = opened[w] \ bucket'[w]
  /\ chunks' = [chunks EXCEPT ![ChunkId(bucket'[w])] =
       IF @ = NoRow THEN [key |-> ObjectKey(bucket'[w]), status |-> "pending"]
                    ELSE [@ EXCEPT !.status = "pending"]]
  /\ pc[w] = "group" /\ pc'[w] = "put" /\ UNCHANGED <<batch[w], fresh[w]>>
  /\ UNCHANGED <<sent, queue, objects, dedup, dropped>> /\ Others(w)

Keeps(w) == UNCHANGED <<batch[w], fresh[w], opened[w], bucket[w]>> /\ Others(w)

Stored(w) ==
  /\ pc[w] = "put" /\ pc'[w] = "ready" /\ Keeps(w)
  /\ objects' = [objects EXCEPT ![ObjectKey(bucket[w])] = bucket[w]]
  /\ UNCHANGED <<sent, queue, chunks, dedup, dropped>>

Readied(w) ==
  /\ pc[w] = "ready" /\ pc'[w] \in {"usage", "remember"} /\ Keeps(w)
  /\ SaveChunk(bucket[w], "ready")
  /\ UNCHANGED <<sent, queue, objects, dedup, dropped>>

Advanced(w) ==
  /\ pc[w] \in {"usage", "publish"} /\ pc'[w] \in {"publish", "remember"} /\ Keeps(w)
  /\ UNCHANGED <<sent, queue>> /\ Stores

Remembered(w) ==
  /\ pc[w] = "remember" /\ pc'[w] = "group"
  /\ dedup' = dedup \union {DedupKey(m) : m \in bucket[w]} /\ bucket'[w] = {}
  /\ UNCHANGED <<batch[w], fresh[w], opened[w]>>
  /\ UNCHANGED <<sent, queue, chunks, objects, dropped>> /\ Others(w)

Ended(w) ==
  /\ pc'[w] = "idle" /\ batch'[w] = {} /\ fresh'[w] = {} /\ opened'[w] = {} /\ bucket'[w] = {}
  /\ queue' \subseteq queue \union batch[w]
  /\ sent' = sent /\ Stores /\ Others(w)

Rested ==
  /\ \A v \in Worker : Still(v)
  /\ UNCHANGED <<sent, queue, objects, dedup, dropped>>
  /\ \/ UNCHANGED <<chunks, found>>
     \/ \E c \in Cron, i \in Id : i \in found[c] /\ chunks' = [chunks EXCEPT ![i].status = "failed"]
          /\ \A d \in Cron : found'[d] \subseteq found[d]
     \/ chunks' = chunks /\ Signal = "logs"

Moved(w) ==
  \/ Received(w) \/ Filtered(w) \/ Sorted(w) \/ (\E m \in Message : Refused(w, m))
  \/ (\E s : Pended(w, s)) \/ Stored(w) \/ Readied(w) \/ Advanced(w) \/ Remembered(w) \/ Ended(w)

LEMMA WorkMoves ==
  ASSUME IInv, \A v \in Worker : Chosen(v), NEW w \in Worker, Work(w)
  PROVE  Moved(w)
<1>a. ConsumersOK /\ Consumer(w)
  BY DEF IInv, TypeOK
<1>1. ASSUME NEW t \in asking[w], FilterUnseen(w, t) PROVE Filtered(w)
  <2>1. /\ pc[w] = "filter" /\ pc'[w] \in {"filter", "group"}
        /\ UNCHANGED <<batch, opened, bucket, group, pick, sent, queue, chunks, objects, dedup, dropped>>
        /\ \A v \in Worker \ {w} : pc'[v] = pc[v] /\ asking'[v] = asking[v] /\ fresh'[v] = fresh[v]
    BY <1>1, <1>a DEF FilterUnseen, Goto, storeVars, queueVars, ConsumersOK
  <2>2. fresh'[w] = fresh[w] \union {m \in batch[w] : TenantOf(m) = t /\ DedupKey(m) \notin dedup}
    BY <1>1, <1>a DEF FilterUnseen, ConsumersOK
  <2>3. Stores /\ Others(w)
    BY <2>1 DEF Stores, Others, Still, Same
  <2>4. \A m \in fresh'[w] : m \in fresh[w] \/ (m \in batch[w] /\ DedupKey(m) \notin dedup)
    BY <2>2
  <2>5. QED
    BY <2>1, <2>3, <2>4 DEF Filtered
<1>2. ASSUME NEW m \in fresh[w], FindStream(w, m) PROVE Sorted(w)
  <2>1. /\ pc[w] = "group" /\ UNCHANGED <<batch, asking, bucket>> /\ UNCHANGED <<sent, queue>> /\ Stores
        /\ \A v \in Worker \ {w} : group'[v] = group[v]
    BY <1>2, <1>a DEF FindStream, storeVars, queueVars, ConsumersOK, Stores
  <2>2. CASE StreamOf(m) \in streams
    <3>1. OpenBucket(w, m) /\ UNCHANGED <<pc, pick>>
      BY <1>2, <2>2 DEF FindStream
    <3>2. /\ fresh'[w] \subseteq fresh[w] /\ opened'[w] = opened[w] \union (fresh[w] \ fresh'[w])
          /\ \A v \in Worker \ {w} : fresh'[v] = fresh[v] /\ opened'[v] = opened[v]
      BY <1>a, <3>1 DEF OpenBucket, ConsumersOK
    <3>3. QED
      BY <2>1, <3>1, <3>2 DEF Sorted, Others, Still, Same
  <2>3. CASE StreamOf(m) \notin streams
    <3>1. UNCHANGED <<opened, fresh>> /\ pc'[w] = "count"
          /\ \A v \in Worker \ {w} : pc'[v] = pc[v] /\ pick'[v] = pick[v]
      BY <1>2, <1>a, <2>3 DEF FindStream, Goto, ConsumersOK
    <3>2. QED
      BY <2>1, <3>1 DEF Sorted, Others, Still, Same
  <2>4. QED
    BY <2>2, <2>3
<1>3. ASSUME CountStreams(w) PROVE Sorted(w)
  BY <1>3, <1>a DEF CountStreams, Goto, localVars, storeVars, queueVars, ConsumersOK, Sorted, Stores, Others, Still, Same
<1>4. ASSUME InsertStream(w) PROVE Sorted(w) \/ Ended(w)
  <2>1. PICK m \in pick[w] :
          IF StreamOf(m) \in streams
          THEN Fail(w) /\ UNCHANGED streams
          ELSE /\ streams' = streams \union {StreamOf(m)}
               /\ OpenBucket(w, m)
               /\ pick' = [pick EXCEPT ![w] = {}]
               /\ Goto(w, "group")
               /\ UNCHANGED <<batch, asking, group, bucket, queueVars, found>>
    BY <1>4 DEF InsertStream
  <2>2. Stores /\ pc[w] = "insert"
    BY <1>4 DEF InsertStream, Stores
  <2>3. CASE Fail(w)
    <3>1. queue' \subseteq queue \union batch[w] /\ sent' = sent
      BY <2>3 DEF Fail
    <3>2. QED
      BY <1>a, <2>2, <2>3, <3>1, FailStill DEF Ended, Others
  <2>4. CASE /\ OpenBucket(w, m) /\ pick' = [pick EXCEPT ![w] = {}] /\ Goto(w, "group")
             /\ UNCHANGED <<batch, asking, group, bucket, queueVars, found>>
    <3>1. /\ fresh'[w] \subseteq fresh[w] /\ opened'[w] = opened[w] \union (fresh[w] \ fresh'[w])
          /\ \A v \in Worker \ {w} : fresh'[v] = fresh[v] /\ opened'[v] = opened[v]
      BY <1>a, <2>4 DEF OpenBucket, ConsumersOK
    <3>2. pc'[w] = "group" /\ \A v \in Worker \ {w} : pc'[v] = pc[v] /\ pick'[v] = pick[v]
      BY <1>a, <2>4 DEF Goto, ConsumersOK
    <3>3. QED
      BY <2>2, <2>4, <3>1, <3>2 DEF Sorted, Others, Still, Same, queueVars
  <2>5. QED
    BY <2>1, <2>3, <2>4
<1>5. ASSUME DropEvent(w) PROVE \E m \in Message : Refused(w, m)
  <2>1. PICK m \in Message : pick[w] = {m}
    BY <1>5 DEF DropEvent, Chosen, Choosing
  <2>2. m \in fresh[w] /\ {DedupKey(k) : k \in pick[w]} = {DedupKey(m)}
    BY <1>a, <2>1 DEF Consumer
  <2>3. /\ dedup' = dedup \union {DedupKey(m)} /\ dropped' = dropped \union {DedupKey(m)}
        /\ pc[w] = "drop" /\ UNCHANGED <<batch, opened, bucket, sent, queue, chunks, objects>>
    BY <1>5, <2>2 DEF DropEvent, queueVars
  <2>4. pc'[w] = "group" /\ fresh'[w] = fresh[w] \ {m} /\ Others(w)
    BY <1>5, <1>a, <2>1 DEF DropEvent, Goto, ConsumersOK, Others, Still, Same
  <2>5. QED
    BY <2>2, <2>3, <2>4 DEF Refused
<1>6. ASSUME NEW s, SavePending(w, s) PROVE Pended(w, s)
  <2> DEFINE B == {m \in opened[w] : StreamOf(m) = s}
  <2>1. /\ B # {} /\ SaveChunk(B, "pending") /\ pc[w] = "group"
        /\ opened' = [opened EXCEPT ![w] = @ \ B] /\ bucket' = [bucket EXCEPT ![w] = B]
        /\ Goto(w, "put")
        /\ UNCHANGED <<batch, asking, fresh, group, pick, sent, queue, objects, dedup, dropped>>
    BY <1>6 DEF SavePending, queueVars
  <2>2. bucket'[w] = B /\ opened'[w] = opened[w] \ B /\ pc'[w] = "put" /\ Others(w)
    BY <1>a, <2>1 DEF Goto, ConsumersOK, Others, Still, Same
  <2>3. bucket'[w] = {m \in opened[w] : StreamOf(m) = s}
    BY <2>2
  <2> HIDE DEF B
  <2>4. QED
    BY <2>1, <2>2, <2>3 DEF Pended, SaveChunk
<1>7. ASSUME PutObject(w) PROVE Stored(w)
  BY <1>7, <1>a DEF PutObject, Goto, localVars, queueVars, ConsumersOK, Stored, Keeps, Others, Still, Same
<1>8. ASSUME SaveReady(w) PROVE Readied(w)
  BY <1>8, <1>a DEF SaveReady, Goto, localVars, queueVars, ConsumersOK, Readied, Keeps, Others, Still, Same
<1>9. ASSUME CountUsage(w) \/ PublishTail(w) PROVE Advanced(w)
  BY <1>9, <1>a DEF CountUsage, PublishTail, Goto, localVars, queueVars, ConsumersOK, Advanced, Keeps,
     Stores, Others, Still, Same
<1>10. ASSUME Remember(w) PROVE Remembered(w)
  BY <1>10, <1>a DEF Remember, Goto, queueVars, ConsumersOK, Remembered, Others, Still, Same
<1>11. ASSUME Ack(w) PROVE Ended(w)
  <2>1. pc[w] = "group" /\ bucket[w] = {}
    BY <1>11, <1>a DEF Ack, Consumer, Writing
  <2>2. QED
    BY <1>11, <1>a, <2>1 DEF Ack, Goto, queueVars, storeVars, ConsumersOK, Ended, Stores, Others, Still, Same
<1>12. QED
  BY <1>1, <1>2, <1>3, <1>4, <1>5, <1>6, <1>7, <1>8, <1>9, <1>10, <1>11 DEF Work, Moved

LEMMA Steps ==
  ASSUME IInv, \A v \in Worker : Chosen(v), [Next]_vars
  PROVE  Rested \/ (\E m \in Message : Published(m)) \/ \E w \in Worker : Moved(w)
<1>a. ConsumersOK
  BY DEF IInv, TypeOK
<1>1. ASSUME NEW m \in Message, Publish(m) PROVE Published(m)
  BY <1>1 DEF Publish, storeVars, workerVars, localVars, Published, Stores, Still, Same
<1>2. ASSUME NEW w \in Worker, NEW B \in SUBSET queue, Receive(w, B) PROVE Moved(w)
  <2>1. fresh[w] = {} /\ opened[w] = {} /\ bucket[w] = {}
    BY <1>2 DEF IInv, Consumer, Receive
  <2>2. Received(w)
    BY <1>2, <1>a, <2>1 DEF Receive, Goto, storeVars, ConsumersOK, Received, Stores, Others, Still, Same
  <2>3. QED
    BY <2>2 DEF Moved
<1>3. ASSUME NEW w \in Worker, Throws(w) \/ PublishTailThrows(w) PROVE Moved(w)
  <2>1. Fail(w) /\ Stores
    BY <1>3 DEF Throws, PublishTailThrows, storeVars, Stores
  <2>2. queue' \subseteq queue \union batch[w] /\ sent' = sent
    BY <2>1 DEF Fail
  <2>3. Ended(w)
    BY <1>a, <2>1, <2>2, FailStill DEF Ended, Others
  <2>4. QED
    BY <2>3 DEF Moved
<1>4. ASSUME NEW c \in Cron, Reconcile(c) PROVE Rested
  <2>1. /\ UNCHANGED <<sent, queue, objects, dedup, dropped>> /\ \A v \in Worker : Still(v)
    BY <1>4 DEF Reconcile, ListPending, SaveFailed, queueVars, workerVars, localVars, storeVars, Still, Same
  <2>2. CASE ListPending(c)
    BY <2>1, <2>2 DEF ListPending, storeVars, Rested
  <2>3. ASSUME NEW i \in found[c], SaveFailed(c, i) PROVE Rested
    <3>1. i \in Id /\ \A d \in Cron : found'[d] \subseteq found[d]
      BY <2>3 DEF SaveFailed, IInv, TypeOK, StoreOK
    <3>2. chunks' = [chunks EXCEPT ![i].status = "failed"]
      BY <2>3 DEF SaveFailed
    <3>3. QED
      BY <2>1, <3>1, <3>2 DEF Rested
  <2>4. QED
    BY <1>4, <2>2, <2>3 DEF Reconcile
<1>5. CASE UNCHANGED vars
  BY <1>5 DEF vars, queueVars, storeVars, workerVars, localVars, Rested, Still, Same
<1>6. QED
  BY <1>1, <1>2, <1>3, <1>4, <1>5, WorkMoves DEF Next

-----------------------------------------------------------------------------
\* What a consumer has chosen is known however many consumers there are.
LEMMA PickStep ==
  ASSUME IInv, \A v \in Worker : Chosen(v), [Next]_vars
  PROVE  (\A v \in Worker : Chosen(v))'
<1>a. ConsumersOK
  BY DEF IInv, TypeOK
<1>b. ASSUME UNCHANGED <<pc, pick, group>> PROVE \A v \in Worker : Chosen(v)'
  BY <1>b DEF Chosen
<1>c. ASSUME NEW w \in Worker, pc'[w] \notin Choosing,
             \A v \in Worker \ {w} : pc'[v] = pc[v] /\ pick'[v] = pick[v] /\ group'[v] = group[v]
      PROVE  \A v \in Worker : Chosen(v)'
  BY <1>c DEF Chosen
<1>1. ASSUME NEW w \in Worker, NEW m \in fresh[w], FindStream(w, m) PROVE \A v \in Worker : Chosen(v)'
  <2>1. CASE StreamOf(m) \in streams
    <3>1. UNCHANGED <<pc, pick>> /\ pc[w] = "group" /\ \A v \in Worker \ {w} : group'[v] = group[v]
      BY <1>1, <1>a, <2>1 DEF FindStream, ConsumersOK
    <3>2. QED
      BY <1>c, <3>1 DEF Choosing
  <2>2. CASE StreamOf(m) \notin streams
    <3>1. pick'[w] = {m} /\ group'[w] = {TenantOf(m)} /\ \A v \in Worker \ {w} : Still(v)
      BY <1>1, <1>a, <2>2 DEF FindStream, Goto, ConsumersOK, Still, Same
    <3>2. m \in Message
      BY <1>a DEF ConsumersOK
    <3>3. QED
      BY <3>1, <3>2 DEF Chosen, Still, Same
  <2>3. QED
    BY <2>1, <2>2
<1>2. ASSUME NEW w \in Worker, CountStreams(w) PROVE \A v \in Worker : Chosen(v)'
  <2>1. pc[w] \in Choosing /\ UNCHANGED <<pick, group>> /\ \A v \in Worker \ {w} : pc'[v] = pc[v]
    BY <1>2, <1>a DEF CountStreams, Goto, localVars, ConsumersOK, Choosing
  <2>2. QED
    BY <2>1 DEF Chosen
<1>3. ASSUME NEW w \in Worker, InsertStream(w) PROVE \A v \in Worker : Chosen(v)'
  <2>1. CASE Fail(w)
    BY <1>a, <1>c, <2>1, FailStill DEF Still, Same, Choosing
  <2>2. CASE ~Fail(w)
    <3>1. pick' = [pick EXCEPT ![w] = {}] /\ Goto(w, "group") /\ group' = group
      BY <1>3, <2>2 DEF InsertStream
    <3>2. QED
      BY <1>a, <1>c, <3>1 DEF Goto, ConsumersOK, Choosing
  <2>3. QED
    BY <2>1, <2>2
<1>4. ASSUME NEW w \in Worker, NEW t \in asking[w], FilterUnseen(w, t) PROVE \A v \in Worker : Chosen(v)'
  BY <1>4, <1>a, <1>c DEF FilterUnseen, Goto, ConsumersOK, Choosing
<1>5. ASSUME NEW w \in Worker, DropEvent(w) PROVE \A v \in Worker : Chosen(v)'
  BY <1>5, <1>a, <1>c DEF DropEvent, Goto, ConsumersOK, Choosing
<1>6. ASSUME NEW w \in Worker, NEW s, SavePending(w, s) PROVE \A v \in Worker : Chosen(v)'
  BY <1>6, <1>a, <1>c DEF SavePending, Goto, ConsumersOK, Choosing
<1>7. ASSUME NEW w \in Worker, SaveReady(w) PROVE \A v \in Worker : Chosen(v)'
  BY <1>7, <1>a, <1>c DEF SaveReady, Goto, localVars, ConsumersOK, Choosing
<1>8. ASSUME NEW w \in Worker, PutObject(w) \/ CountUsage(w) \/ PublishTail(w) PROVE \A v \in Worker : Chosen(v)'
  BY <1>8, <1>a, <1>c DEF PutObject, CountUsage, PublishTail, Goto, localVars, ConsumersOK, Choosing
<1>9. ASSUME NEW w \in Worker, Remember(w) \/ Ack(w) PROVE \A v \in Worker : Chosen(v)'
  BY <1>9, <1>a, <1>c DEF Remember, Ack, Goto, ConsumersOK, Choosing
<1>10. ASSUME NEW w \in Worker, Throws(w) \/ PublishTailThrows(w) PROVE \A v \in Worker : Chosen(v)'
  BY <1>10, <1>a, <1>c, FailStill DEF Throws, PublishTailThrows, Still, Same, Choosing
<1>11. ASSUME NEW w \in Worker, NEW B \in SUBSET queue, Receive(w, B) PROVE \A v \in Worker : Chosen(v)'
  BY <1>11, <1>a, <1>c DEF Receive, Goto, ConsumersOK, Choosing
<1>12. ASSUME NEW m \in Message, Publish(m) PROVE \A v \in Worker : Chosen(v)'
  BY <1>12, <1>b DEF Publish, workerVars, localVars
<1>13. ASSUME NEW c \in Cron, Reconcile(c) PROVE \A v \in Worker : Chosen(v)'
  BY <1>13, <1>b DEF Reconcile, ListPending, SaveFailed, workerVars, localVars
<1>14. CASE UNCHANGED vars
  BY <1>14, <1>b DEF vars, workerVars, localVars
<1>15. QED
  BY <1>1, <1>2, <1>3, <1>4, <1>5, <1>6, <1>7, <1>8, <1>9, <1>10, <1>11, <1>12, <1>13, <1>14
  DEF Next, Work

-----------------------------------------------------------------------------
(* Rows and objects.  When all events are of one day and no two have the   *)
(* same id, a chunk id determines the key of its object, so the row that a *)
(* consumer found in its place names the object it writes.                 *)

OwnIds == \A e, f \in Event : e.id = f.id => e = f
OneDay == \A e, f \in Event : e.day = f.day

KeyOf(e) == [tenant |-> e.tenant, stream |-> e.stream, chunk |-> e.id, day |-> e.day]
Named(k) == \E e \in Event : k = KeyOf(e)

BucketOK(w) ==
  /\ \A m, n \in bucket[w] : StreamOf(m) = StreamOf(n)
  /\ pc[w] \in Writing => chunks[ChunkId(bucket[w])] # NoRow

KeyInv ==
  /\ \A i \in Id : chunks[i] # NoRow => chunks[i].key.chunk = i /\ Named(chunks[i].key)
  /\ \A k \in Key : objects[k] # {} => Named(k) /\ chunks[k.chunk] # NoRow
  /\ \A w \in Worker : BucketOK(w)

LEMMA OneKey ==
  ASSUME OwnIds, NEW k, NEW l, Named(k), Named(l), k.chunk = l.chunk
  PROVE  k = l
<1>1. PICK e \in Event : k = KeyOf(e)
  BY DEF Named
<1>2. PICK f \in Event : l = KeyOf(f)
  BY DEF Named
<1>3. e.id = f.id
  BY <1>1, <1>2 DEF KeyOf
<1>4. QED
  BY <1>1, <1>2, <1>3 DEF OwnIds

\* The id of a bucket is that of one of its messages.
LEMMA ChunkIdIn ==
  ASSUME NEW B \in SUBSET Message, B # {}
  PROVE  \E m \in B : ChunkId(B) = m[1].id
<1>1. \A m \in B : m \in Message /\ m[1].id \in Nat
  BY MessageParts
<1>2. {m[1].id : m \in B} \in SUBSET Nat /\ {m[1].id : m \in B} # {}
  BY <1>1
<1>3. ChunkId(B) \in {m[1].id : m \in B}
  BY <1>2, LeastType DEF ChunkId
<1>4. QED
  BY <1>3

LEMMA BucketKey ==
  ASSUME OneDay, NEW B \in SUBSET Message, B # {}, \A m, n \in B : StreamOf(m) = StreamOf(n)
  PROVE  Named(ObjectKey(B)) /\ ObjectKey(B).chunk = ChunkId(B)
<1>1. PICK m \in B : ChunkId(B) = m[1].id
  BY ChunkIdIn
<1>2. \A n \in B : n[1] \in Event /\ n[1].day \in Nat
  BY MessageParts
<1>3. Least({n[1].day : n \in B}) = m[1].day
  <2>1. {n[1].day : n \in B} \in SUBSET Nat /\ {n[1].day : n \in B} # {}
    BY <1>2
  <2>2. Least({n[1].day : n \in B}) \in {n[1].day : n \in B}
    BY <2>1, LeastType
  <2>3. QED
    BY <1>2, <2>2 DEF OneDay
<1> DEFINE n == CHOOSE n \in B : TRUE
<1>4. n \in B
  OBVIOUS
<1>5. n[1].tenant = m[1].tenant /\ n[1].stream = m[1].stream
  BY <1>4 DEF StreamOf
<1>6. ObjectKey(B) = [tenant |-> n[1].tenant, stream |-> n[1].stream, chunk |-> m[1].id, day |-> m[1].day]
  BY <1>1, <1>3 DEF ObjectKey, TenantOf
<1> HIDE DEF n
<1>7. ObjectKey(B) = KeyOf(m[1])
  BY <1>5, <1>6 DEF KeyOf
<1>8. QED
  BY <1>1, <1>2, <1>7 DEF Named, KeyOf

LEMMA InitKey == Init => KeyInv
BY DEF Init, KeyInv, BucketOK, Writing

\* Rows keep their keys and none goes away.
LEMMA KeyFrame ==
  ASSUME KeyInv, objects' = objects,
         \A i \in Id : chunks[i] # NoRow => chunks'[i] # NoRow /\ chunks'[i].key = chunks[i].key,
         \A i \in Id : chunks'[i] # NoRow /\ chunks[i] = NoRow =>
           chunks'[i].key.chunk = i /\ Named(chunks'[i].key),
         \A w \in Worker : BucketOK(w)'
  PROVE  KeyInv'
<1>1. \A k \in Key : k.chunk \in Id
  BY DEF Key
<1>2. \A i \in Id : chunks'[i] # NoRow => chunks'[i].key.chunk = i /\ Named(chunks'[i].key)
  BY DEF KeyInv
<1>3. \A k \in Key : objects'[k] # {} => Named(k) /\ chunks'[k.chunk] # NoRow
  BY <1>1 DEF KeyInv
<1>4. QED
  BY <1>2, <1>3 DEF KeyInv, Named

\* A consumer whose bucket does not change keeps what it knows of it.
LEMMA BucketFrame ==
  ASSUME IInv, NEW v \in Worker, BucketOK(v), bucket'[v] = bucket[v],
         pc'[v] \in Writing => pc[v] \in Writing,
         \A i \in Id : chunks[i] # NoRow => chunks'[i] # NoRow
  PROVE  BucketOK(v)'
<1>1. pc[v] \in Writing => bucket[v] \in SUBSET Message /\ bucket[v] # {}
  BY DEF IInv, TypeOK, ConsumersOK, Consumer
<1>2. pc[v] \in Writing => ChunkId(bucket[v]) \in Id
  BY <1>1, BucketNames
<1>3. ChunkId(bucket'[v]) = ChunkId(bucket[v])
  OBVIOUS
<1>4. pc'[v] \in Writing => chunks'[ChunkId(bucket[v])] # NoRow
  BY <1>2 DEF BucketOK
<1>5. QED
  BY <1>3, <1>4 DEF BucketOK, StreamOf

\* What SaveChunk does to the table.
LEMMA Saved ==
  ASSUME IInv, NEW B \in SUBSET Message, B # {}, NEW s \in Status,
         chunks' = [chunks EXCEPT ![ChunkId(B)] =
           IF @ = NoRow THEN [key |-> ObjectKey(B), status |-> s] ELSE [@ EXCEPT !.status = s]]
  PROVE  /\ ChunkId(B) \in Id
         /\ \A i \in Id \ {ChunkId(B)} : chunks'[i] = chunks[i]
         /\ chunks'[ChunkId(B)] # NoRow /\ chunks'[ChunkId(B)].status = s
         /\ chunks'[ChunkId(B)].key =
              IF chunks[ChunkId(B)] = NoRow THEN ObjectKey(B) ELSE chunks[ChunkId(B)].key
<1> DEFINE c == ChunkId(B)
           old == chunks[c]
           new == IF old = NoRow THEN [key |-> ObjectKey(B), status |-> s] ELSE [old EXCEPT !.status = s]
<1>1. c \in Id /\ ObjectKey(B) \in Key
  BY BucketNames
<1>2. old \in Row \union {NoRow} /\ chunks \in [Id -> Row \union {NoRow}]
  BY <1>1 DEF IInv, TypeOK, StoreOK
<1>3. new \in Row /\ new.status = s /\ new.key = IF old = NoRow THEN ObjectKey(B) ELSE old.key
  <2>1. CASE old = NoRow
    BY <1>1, <2>1 DEF Row
  <2>2. CASE old # NoRow
    BY <1>2, <2>2 DEF Row
  <2>3. QED
    BY <2>1, <2>2
<1>4. new # NoRow
  BY <1>3 DEF NoRow, Status
<1>5. chunks' = [chunks EXCEPT ![c] = new]
  OBVIOUS
<1> HIDE DEF new
<1>6. chunks'[c] = new /\ \A i \in Id \ {c} : chunks'[i] = chunks[i]
  BY <1>1, <1>2, <1>5
<1>7. QED
  BY <1>1, <1>3, <1>4, <1>6

LEMMA KeyStep ==
  ASSUME OwnIds, OneDay, IInv, \A v \in Worker : Chosen(v), KeyInv, [Next]_vars
  PROVE  KeyInv'
<1>a. ConsumersOK /\ StoreOK
  BY DEF IInv, TypeOK
\* The table stays as it is, and no consumer comes to write another bucket.
<1>b. ASSUME UNCHANGED <<chunks, objects>>,
             \A v \in Worker :
               \/ bucket'[v] = {} /\ pc'[v] \notin Writing
               \/ bucket'[v] = bucket[v] /\ (pc'[v] \in Writing => pc[v] \in Writing)
      PROVE  KeyInv'
  <2>1. ASSUME NEW v \in Worker PROVE BucketOK(v)'
    <3>1. CASE bucket'[v] = {} /\ pc'[v] \notin Writing
      BY <3>1 DEF BucketOK
    <3>2. CASE bucket'[v] = bucket[v] /\ (pc'[v] \in Writing => pc[v] \in Writing)
      BY <1>b, <3>2, BucketFrame DEF KeyInv
    <3>3. QED
      BY <1>b, <3>1, <3>2
  <2>2. QED
    BY <1>b, <2>1, KeyFrame
<1>1. ASSUME NEW m \in Message, Published(m) PROVE KeyInv'
  BY <1>1, <1>b DEF Published, Stores, Still, Same
<1>2. CASE Rested
  <2>1. objects' = objects /\ \A v \in Worker : bucket'[v] = bucket[v] /\ pc'[v] = pc[v]
    BY <1>2 DEF Rested, Still, Same
  <2>2. CASE chunks' = chunks
    BY <1>b, <2>1, <2>2
  <2>3. ASSUME NEW c \in Cron, NEW i \in Id, i \in found[c], chunks' = [chunks EXCEPT ![i].status = "failed"]
        PROVE  KeyInv'
    <3>1. chunks[i] \in Row /\ chunks \in [Id -> Row \union {NoRow}]
      BY <1>a, <2>3 DEF IInv, FoundRows, StoreOK
    <3> DEFINE new == [chunks[i] EXCEPT !.status = "failed"]
    <3>2. new.key = chunks[i].key /\ new # NoRow
      BY <3>1 DEF Row, NoRow
    <3>3. chunks' = [chunks EXCEPT ![i] = new]
      BY <2>3
    <3> HIDE DEF new
    <3>4. /\ \A k \in Id : chunks[k] # NoRow => chunks'[k] # NoRow /\ chunks'[k].key = chunks[k].key
          /\ \A k \in Id : chunks'[k] # NoRow /\ chunks[k] = NoRow => FALSE
      BY <2>3, <3>1, <3>2, <3>3 DEF IInv, FoundRows
    <3>5. ASSUME NEW v \in Worker PROVE BucketOK(v)'
      BY <2>1, <3>4, BucketFrame DEF KeyInv
    <3>6. QED
      BY <2>1, <3>4, <3>5, KeyFrame
  <2>4. QED
    BY <1>2, <2>2, <2>3 DEF Rested
<1>3. ASSUME NEW w \in Worker, Received(w) \/ Ended(w) PROVE KeyInv'
  BY <1>3, <1>b DEF Received, Ended, Stores, Others, Still, Same, Writing
<1>4. ASSUME NEW w \in Worker, Filtered(w) \/ Sorted(w) \/ \E m \in Message : Refused(w, m) PROVE KeyInv'
  <2>1. /\ pc'[w] \notin Writing /\ bucket'[w] = bucket[w] /\ UNCHANGED <<chunks, objects>>
        /\ Others(w)
    BY <1>4 DEF Filtered, Sorted, Refused, Stores, Writing
  <2>2. QED
    BY <1>b, <2>1 DEF Others, Still, Same
<1>5. ASSUME NEW w \in Worker, Advanced(w) \/ Remembered(w) PROVE KeyInv'
  <2>1. /\ UNCHANGED <<chunks, objects>> /\ Others(w)
        /\ \/ bucket'[w] = {} /\ pc'[w] \notin Writing
           \/ bucket'[w] = bucket[w] /\ pc[w] \in Writing
    BY <1>5 DEF Advanced, Remembered, Keeps, Stores, Writing
  <2>2. QED
    BY <1>b, <2>1 DEF Others, Still, Same
<1>6. ASSUME NEW w \in Worker, NEW B \in SUBSET Message, B # {}, \A m, n \in B : StreamOf(m) = StreamOf(n),
             NEW s \in Status, Others(w), objects' = objects, bucket'[w] = B,
             chunks' = [chunks EXCEPT ![ChunkId(B)] =
               IF @ = NoRow THEN [key |-> ObjectKey(B), status |-> s] ELSE [@ EXCEPT !.status = s]]
      PROVE  KeyInv'
  <2>1. /\ ChunkId(B) \in Id
        /\ \A i \in Id \ {ChunkId(B)} : chunks'[i] = chunks[i]
        /\ chunks'[ChunkId(B)] # NoRow
        /\ chunks'[ChunkId(B)].key =
             IF chunks[ChunkId(B)] = NoRow THEN ObjectKey(B) ELSE chunks[ChunkId(B)].key
    BY <1>6, Saved
  <2>2. Named(ObjectKey(B)) /\ ObjectKey(B).chunk = ChunkId(B)
    BY <1>6, BucketKey
  <2>3. /\ \A i \in Id : chunks[i] # NoRow => chunks'[i] # NoRow /\ chunks'[i].key = chunks[i].key
        /\ \A i \in Id : chunks'[i] # NoRow /\ chunks[i] = NoRow =>
             chunks'[i].key.chunk = i /\ Named(chunks'[i].key)
    BY <2>1, <2>2
  <2>4. ASSUME NEW v \in Worker PROVE BucketOK(v)'
    <3>1. CASE v = w
      BY <1>6, <2>1, <3>1 DEF BucketOK, StreamOf
    <3>2. CASE v # w
      BY <1>6, <2>3, <3>2, BucketFrame DEF Others, Still, Same, KeyInv
    <3>3. QED
      BY <3>1, <3>2
  <2>5. QED
    BY <1>6, <2>3, <2>4, KeyFrame
<1>7. ASSUME NEW w \in Worker, NEW s, Pended(w, s) PROVE KeyInv'
  <2>1. bucket'[w] = {m \in opened[w] : StreamOf(m) = s} /\ bucket'[w] # {} /\ opened[w] \subseteq Message
    BY <1>7, <1>a DEF Pended, ConsumersOK
  <2>2. bucket'[w] \in SUBSET Message /\ \A m, n \in bucket'[w] : StreamOf(m) = StreamOf(n)
    BY <2>1
  <2>3. QED
    BY <1>6, <1>7, <2>1, <2>2 DEF Pended, Status
<1>8. ASSUME NEW w \in Worker, Readied(w) PROVE KeyInv'
  <2>1. bucket[w] \in SUBSET Message /\ bucket[w] # {} /\ \A m, n \in bucket[w] : StreamOf(m) = StreamOf(n)
    BY <1>8, <1>a DEF Readied, ConsumersOK, IInv, Consumer, Writing, KeyInv, BucketOK
  <2>2. bucket'[w] = bucket[w] /\ Others(w) /\ objects' = objects /\ SaveChunk(bucket[w], "ready")
    BY <1>8 DEF Readied, Keeps
  <2>3. QED
    BY <1>6, <2>1, <2>2 DEF SaveChunk, Status
<1>9. ASSUME NEW w \in Worker, Stored(w) PROVE KeyInv'
  <2>1. /\ bucket[w] \in SUBSET Message /\ bucket[w] # {} /\ \A m, n \in bucket[w] : StreamOf(m) = StreamOf(n)
        /\ chunks[ChunkId(bucket[w])] # NoRow
    BY <1>9, <1>a DEF Stored, ConsumersOK, IInv, Consumer, Writing, KeyInv, BucketOK
  <2>2. ObjectKey(bucket[w]) \in Key /\ Named(ObjectKey(bucket[w])) /\ ObjectKey(bucket[w]).chunk = ChunkId(bucket[w])
    BY <2>1, BucketKey, BucketNames
  <2>3. \A k \in Key : objects'[k] = IF k = ObjectKey(bucket[w]) THEN bucket[w] ELSE objects[k]
    BY <1>9, <1>a, <2>2 DEF Stored, StoreOK
  <2>4. chunks' = chunks
    BY <1>9 DEF Stored
  <2>5. \A k \in Key : objects'[k] # {} => Named(k) /\ chunks'[k.chunk] # NoRow
    BY <2>1, <2>2, <2>3, <2>4 DEF KeyInv
  <2>6. ASSUME NEW v \in Worker PROVE BucketOK(v)'
    <3>1. bucket'[v] = bucket[v] /\ (pc'[v] \in Writing => pc[v] \in Writing)
      BY <1>9 DEF Stored, Keeps, Others, Still, Same, Writing
    <3>2. QED
      BY <2>4, <3>1, BucketFrame DEF KeyInv
  <2>7. QED
    BY <2>4, <2>5, <2>6 DEF KeyInv, Named
<1>10. QED
  BY <1>1, <1>2, <1>3, <1>4, <1>5, <1>7, <1>8, <1>9, Steps DEF Moved

\* Every object in R2 is named by a row of the table, so deletion and retention
\* can find it, for events of one day with ids of their own: SavePending keeps
\* the key of the row it finds, and PutObject writes under the bucket's own.
THEOREM ObjectsHaveRows ==
  ASSUME OwnIds, OneDay
  PROVE  Spec => []ObjectHasRow
<1>1. KeyInv => ObjectHasRow
  <2> SUFFICES ASSUME KeyInv, NEW k \in Key, objects[k] # {}
               PROVE  chunks[k.chunk] # NoRow /\ chunks[k.chunk].key = k
    BY DEF ObjectHasRow
  <2>1. Named(k) /\ chunks[k.chunk] # NoRow /\ k.chunk \in Id
    BY DEF KeyInv, Key
  <2>2. chunks[k.chunk].key.chunk = k.chunk /\ Named(chunks[k.chunk].key)
    BY <2>1 DEF KeyInv
  <2>3. QED
    BY <2>1, <2>2, OneKey
<1>2. Init => (\A v \in Worker : Chosen(v)) /\ KeyInv
  BY InitKey DEF Init, Chosen, Choosing
<1>3. IInv /\ (\A v \in Worker : Chosen(v)) /\ KeyInv /\ [Next]_vars => (\A v \in Worker : Chosen(v))' /\ KeyInv'
  BY PickStep, KeyStep
<1>4. QED
  BY <1>1, <1>2, <1>3, InitIInv, StepIInv, PTL DEF Spec
-----------------------------------------------------------------------------
(* A batch of one message.  Its bucket is that message, so an object holds *)
(* one message, the one whose event id names the chunk.                    *)

OneMessage(B) == \A m, n \in B : m = n

OnceInv ==
  /\ IsFiniteSet(sent)
  /\ \A w \in Worker : OneMessage(batch[w])
  /\ \A i \in Id : chunks[i] # NoRow => chunks[i].key.chunk = i
  /\ \A k \in Key : OneMessage(objects[k]) /\ \A m \in objects[k] : m[1].id = k.chunk

\* The table may change, but a row keeps its key.
LEMMA OnceFrame ==
  ASSUME OnceInv, sent' = sent, objects' = objects,
         \A v \in Worker : OneMessage(batch'[v]),
         \A i \in Id : chunks'[i] # NoRow =>
           chunks'[i].key.chunk = i \/ (chunks[i] # NoRow /\ chunks'[i].key = chunks[i].key)
  PROVE  OnceInv'
BY DEF OnceInv, OneMessage

LEMMA OnceStep ==
  ASSUME BatchSize = 1, IInv, \A v \in Worker : Chosen(v), OnceInv, [Next]_vars
  PROVE  OnceInv'
<1>a. ConsumersOK /\ StoreOK /\ QueueOK
  BY DEF IInv, TypeOK
<1>b. \A v \in Worker : Still(v) => OneMessage(batch'[v])
  BY DEF OnceInv, Still, Same, OneMessage
<1>1. ASSUME NEW m \in Message, Published(m) PROVE OnceInv'
  <2>1. IsFiniteSet(sent')
    BY <1>1, FS_AddElement DEF Published, OnceInv
  <2>2. \A v \in Worker : OneMessage(batch'[v])
    BY <1>1, <1>b DEF Published
  <2>3. chunks' = chunks /\ objects' = objects
    BY <1>1 DEF Published, Stores
  <2>4. QED
    BY <2>1, <2>2, <2>3 DEF OnceInv, OneMessage
<1>2. CASE Rested
  <2>1. \A v \in Worker : OneMessage(batch'[v])
    BY <1>2, <1>b DEF Rested
  <2>2. sent' = sent /\ objects' = objects
    BY <1>2 DEF Rested
  <2>3. CASE chunks' = chunks
    BY <2>1, <2>2, <2>3, OnceFrame
  <2>4. ASSUME NEW c \in Cron, NEW i \in Id, i \in found[c], chunks' = [chunks EXCEPT ![i].status = "failed"]
        PROVE  OnceInv'
    <3>1. chunks[i] \in Row /\ chunks[i] # NoRow /\ chunks \in [Id -> Row \union {NoRow}]
      BY <1>a, <2>4 DEF IInv, FoundRows, StoreOK
    <3> DEFINE new == [chunks[i] EXCEPT !.status = "failed"]
    <3>2. new.key = chunks[i].key
      BY <3>1 DEF Row
    <3>3. chunks' = [chunks EXCEPT ![i] = new]
      BY <2>4
    <3> HIDE DEF new
    <3>4. \A j \in Id : chunks'[j] # NoRow =>
            chunks'[j].key.chunk = j \/ (chunks[j] # NoRow /\ chunks'[j].key = chunks[j].key)
      BY <3>1, <3>2, <3>3
    <3>5. QED
      BY <2>1, <2>2, <3>4, OnceFrame
  <2>5. QED
    BY <1>2, <2>3, <2>4 DEF Rested
<1>3. ASSUME NEW w \in Worker, Received(w) PROVE OnceInv'
  <2>1. batch'[w] \subseteq queue /\ Cardinality(batch'[w]) <= 1
    BY <1>3 DEF Received
  <2>2. IsFiniteSet(batch'[w])
    BY <1>a, <2>1, FS_Subset DEF OnceInv, QueueOK
  <2>3. OneMessage(batch'[w])
    <3>1. SUFFICES ASSUME NEW m \in batch'[w], NEW n \in batch'[w], m # n PROVE FALSE
      BY DEF OneMessage
    <3>2. Cardinality({m, n}) = 2
      <4>1. IsFiniteSet({m}) /\ Cardinality({m}) = 1
        BY FS_Singleton
      <4>2. Cardinality({m} \union {n}) = 1 + 1
        BY <3>1, <4>1, FS_AddElement
      <4>3. {m} \union {n} = {m, n}
        OBVIOUS
      <4>4. QED
        BY <4>2, <4>3
    <3>3. {m, n} \subseteq batch'[w]
      OBVIOUS
    <3>4. Cardinality({m, n}) <= Cardinality(batch'[w]) /\ Cardinality(batch'[w]) \in Nat
      BY <2>2, <3>3, FS_Subset, FS_CardinalityType
    <3>5. QED
      BY <2>1, <3>2, <3>4
  <2>4. \A v \in Worker : OneMessage(batch'[v])
    BY <1>3, <1>b, <2>3 DEF Received, Others
  <2>5. QED
    BY <1>3, <2>4, OnceFrame DEF Received, Stores
<1>4. ASSUME NEW w \in Worker, Others(w), batch'[w] = {} \/ batch'[w] = batch[w] PROVE \A v \in Worker : OneMessage(batch'[v])
  BY <1>4, <1>b DEF Others, OnceInv, OneMessage
<1>5. ASSUME NEW w \in Worker,
             Filtered(w) \/ Sorted(w) \/ (\E m \in Message : Refused(w, m)) \/ Advanced(w) \/ Remembered(w) \/ Ended(w)
      PROVE  OnceInv'
  <2>1. /\ Others(w) /\ (batch'[w] = {} \/ batch'[w] = batch[w])
        /\ UNCHANGED <<sent, chunks, objects>>
    BY <1>5 DEF Filtered, Sorted, Refused, Advanced, Remembered, Ended, Keeps, Stores
  <2>2. QED
    BY <1>4, <2>1, OnceFrame
<1>6. ASSUME NEW w \in Worker, NEW B \in SUBSET Message, B # {}, NEW s \in Status, Others(w), batch'[w] = batch[w],
             objects' = objects, sent' = sent,
             chunks' = [chunks EXCEPT ![ChunkId(B)] =
               IF @ = NoRow THEN [key |-> ObjectKey(B), status |-> s] ELSE [@ EXCEPT !.status = s]]
      PROVE  OnceInv'
  <2>1. /\ \A i \in Id \ {ChunkId(B)} : chunks'[i] = chunks[i]
        /\ chunks'[ChunkId(B)].key =
             IF chunks[ChunkId(B)] = NoRow THEN ObjectKey(B) ELSE chunks[ChunkId(B)].key
    BY <1>6, Saved
  <2>2. ObjectKey(B).chunk = ChunkId(B)
    BY DEF ObjectKey
  <2>3. \A i \in Id : chunks'[i] # NoRow =>
          chunks'[i].key.chunk = i \/ (chunks[i] # NoRow /\ chunks'[i].key = chunks[i].key)
    BY <2>1, <2>2
  <2>4. QED
    BY <1>4, <1>6, <2>3, OnceFrame
<1>7. ASSUME NEW w \in Worker, NEW s, Pended(w, s) PROVE OnceInv'
  <2>1. bucket'[w] \in SUBSET Message /\ bucket'[w] # {}
    BY <1>7, <1>a DEF Pended, ConsumersOK
  <2>2. QED
    BY <1>6, <1>7, <2>1 DEF Pended, Status
<1>8. ASSUME NEW w \in Worker, Readied(w) PROVE OnceInv'
  <2>1. bucket[w] \in SUBSET Message /\ bucket[w] # {}
    BY <1>8, <1>a DEF Readied, ConsumersOK, IInv, Consumer, Writing
  <2>2. Others(w) /\ batch'[w] = batch[w] /\ objects' = objects /\ sent' = sent /\ SaveChunk(bucket[w], "ready")
    BY <1>8 DEF Readied, Keeps
  <2>3. QED
    BY <1>6, <2>1, <2>2 DEF SaveChunk, Status
<1>9. ASSUME NEW w \in Worker, Stored(w) PROVE OnceInv'
  <2>1. bucket[w] \in SUBSET Message /\ bucket[w] # {} /\ OneMessage(bucket[w])
    BY <1>9, <1>a DEF Stored, ConsumersOK, IInv, Consumer, Writing, OnceInv, OneMessage
  <2>2. ObjectKey(bucket[w]) \in Key /\ ObjectKey(bucket[w]).chunk = ChunkId(bucket[w])
    BY <2>1, BucketNames DEF ObjectKey
  <2>3. \A m \in bucket[w] : m[1].id = ObjectKey(bucket[w]).chunk
    BY <2>1, <2>2, ChunkIdIn DEF OneMessage
  <2>4. \A k \in Key : objects'[k] = IF k = ObjectKey(bucket[w]) THEN bucket[w] ELSE objects[k]
    BY <1>9, <1>a, <2>2 DEF Stored, StoreOK
  <2>5. \A k \in Key : OneMessage(objects'[k]) /\ \A m \in objects'[k] : m[1].id = k.chunk
    BY <2>1, <2>3, <2>4 DEF OnceInv
  <2>6. sent' = sent /\ chunks' = chunks /\ \A v \in Worker : OneMessage(batch'[v])
    BY <1>4, <1>9 DEF Stored, Keeps
  <2>7. QED
    BY <2>5, <2>6 DEF OnceInv, OneMessage
<1>10. QED
  BY <1>1, <1>2, <1>3, <1>5, <1>7, <1>8, <1>9, Steps DEF Moved

\* When each copy of an event comes in a batch of its own, duplicates are
\* suppressed: whatever is retried, reordered or redelivered, no event can be
\* read from two chunks or twice from one.  The chunk id computed from the
\* event id makes consumeLogGroup overwrite instead of add.
THEOREM CopiesAreSuppressed ==
  ASSUME BatchSize = 1
  PROVE  Spec => []StoredOnce
<1>1. IInv /\ OnceInv => StoredOnce
  <2> SUFFICES ASSUME IInv, OnceInv, NEW e \in Event, NEW i \in Id, NEW j \in Id,
                      ReadableIn(e, i), ReadableIn(e, j)
               PROVE  i = j /\ Cardinality({m \in objects[chunks[i].key] : m[1] = e}) = 1
    BY DEF StoredOnce
  <2>1. ASSUME NEW k \in Id, ReadableIn(e, k)
        PROVE  /\ chunks[k].key \in Key /\ e.id = k
               /\ \E m \in objects[chunks[k].key] : m[1] = e
    <3>1. chunks[k] \in Row /\ chunks[k].key.chunk = k
      BY <2>1 DEF ReadableIn, IInv, TypeOK, StoreOK, OnceInv
    <3>2. chunks[k].key \in Key
      BY <3>1 DEF Row
    <3>3. QED
      BY <2>1, <3>1, <3>2 DEF ReadableIn, OnceInv
  <2>2. i = j
    BY <2>1
  <2>3. PICK m \in objects[chunks[i].key] : m[1] = e
    BY <2>1
  <2>4. {n \in objects[chunks[i].key] : n[1] = e} = {m}
    BY <2>1, <2>3 DEF OnceInv, OneMessage
  <2>5. QED
    BY <2>2, <2>4, FS_Singleton
<1>2. Init => (\A v \in Worker : Chosen(v)) /\ OnceInv
  BY FS_EmptySet DEF Init, Chosen, Choosing, OnceInv, OneMessage
<1>3. IInv /\ (\A v \in Worker : Chosen(v)) /\ OnceInv /\ [Next]_vars => (\A v \in Worker : Chosen(v))' /\ OnceInv'
  BY PickStep, OnceStep
<1>4. QED
  BY <1>1, <1>2, <1>3, InitIInv, StepIInv, PTL DEF Spec
-----------------------------------------------------------------------------
(* What consumers hold, when clients send each event once: a message is in *)
(* the queue or with one consumer, in one place of its work, and is not    *)
(* remembered before its bucket is.                                        *)

SingleCopies == Copies = 1

Exclusive ==
  /\ \A w, v \in Worker : w # v => batch[w] \intersect batch[v] = {}
  /\ \A w \in Worker : batch[w] \intersect queue = {}

Holds(w) == fresh[w] \union opened[w] \union bucket[w]
NotYet(w) == \A m \in Holds(w) : DedupKey(m) \notin dedup

Apart(w) ==
  /\ fresh[w] \intersect opened[w] = {}
  /\ bucket[w] \intersect (fresh[w] \union opened[w]) = {}
  /\ pc[w] = "filter" => opened[w] = {}

HeldInv == Exclusive /\ \A w \in Worker : NotYet(w) /\ Apart(w)

LEMMA OneCopy ==
  ASSUME SingleCopies, NEW m \in Message, NEW n \in Message, DedupKey(m) = DedupKey(n)
  PROVE  m = n
<1>1. m[1] \in Event /\ n[1] \in Event /\ m[1].tenant = n[1].tenant /\ m[1].id = n[1].id
  BY DEF Message, DedupKey
<1>2. m[1] = n[1]
  BY <1>1, EventAssumption
<1>3. m[2] = 1 /\ n[2] = 1
  BY DEF Message, SingleCopies
<1>4. QED
  BY <1>2, <1>3 DEF Message

\* What is held is part of the batch, and so of no other consumer's.
LEMMA HeldByOne ==
  ASSUME IInv, Exclusive, NEW w \in Worker, NEW v \in Worker, w # v
  PROVE  Holds(w) \intersect Holds(v) = {} /\ Holds(w) \subseteq Message
BY DEF IInv, TypeOK, ConsumersOK, Consumer, Exclusive, Holds

\* A consumer that does not move is not affected by what is remembered of
\* messages that it does not hold.
LEMMA HeldFrame ==
  ASSUME HeldInv, NEW v \in Worker, Still(v), \A m \in Holds(v) : DedupKey(m) \notin dedup' \ dedup
  PROVE  NotYet(v)' /\ Apart(v)'
BY DEF HeldInv, NotYet, Apart, Holds, Still, Same

\* Batches and the queue stay, or a batch goes back to it.
LEMMA ExclusiveFrame ==
  ASSUME Exclusive, NEW w \in Worker, Others(w),
         \/ batch'[w] = batch[w] /\ queue' = queue
         \/ batch'[w] = {} /\ queue' \subseteq queue \union batch[w]
  PROVE  Exclusive'
<1>1. \A v \in Worker \ {w} : batch'[v] = batch[v]
  BY DEF Others, Still, Same
<1>2. CASE batch'[w] = batch[w] /\ queue' = queue
  BY <1>1, <1>2 DEF Exclusive
<1>3. CASE batch'[w] = {} /\ queue' \subseteq queue \union batch[w]
  BY <1>1, <1>3 DEF Exclusive
<1>4. QED
  BY <1>2, <1>3

LEMMA HeldStep ==
  ASSUME SingleCopies, IInv, \A v \in Worker : Chosen(v), HeldInv, [Next]_vars
  PROVE  HeldInv'
<1>a. ConsumersOK /\ StoreOK /\ QueueOK /\ Exclusive
  BY DEF IInv, TypeOK, HeldInv
<1>1. ASSUME NEW m \in Message, Published(m) PROVE HeldInv'
  <2>1. \A v \in Worker : NotYet(v)' /\ Apart(v)'
    BY <1>1, HeldFrame DEF Published, Stores
  <2>2. \A v \in Worker : batch'[v] = batch[v] /\ m \notin batch[v]
    BY <1>1 DEF Published, Still, Same, IInv, Consumer
  <2>3. Exclusive'
    BY <1>1, <1>a, <2>2 DEF Exclusive, Published
  <2>4. QED
    BY <2>1, <2>3 DEF HeldInv
<1>2. CASE Rested
  <2>1. \A v \in Worker : NotYet(v)' /\ Apart(v)'
    BY <1>2, HeldFrame DEF Rested
  <2>2. (\A v \in Worker : batch'[v] = batch[v]) /\ queue' = queue
    BY <1>2 DEF Rested, Still, Same
  <2>3. Exclusive'
    BY <1>a, <2>2 DEF Exclusive
  <2>4. QED
    BY <2>1, <2>3 DEF HeldInv
\* The step of one consumer.
<1>b. ASSUME NEW w \in Worker, Others(w), Exclusive', NotYet(w)', Apart(w)',
             \A v \in Worker \ {w} : \A m \in Holds(v) : DedupKey(m) \notin dedup' \ dedup
      PROVE  HeldInv'
  <2>1. \A v \in Worker \ {w} : NotYet(v)' /\ Apart(v)'
    BY <1>b, HeldFrame DEF Others
  <2>2. QED
    BY <1>b, <2>1 DEF HeldInv
\* It holds no more than it did, and remembers nothing.
<1>c. ASSUME NEW w \in Worker, Others(w), Exclusive', Apart(w)', dedup' = dedup, Holds(w)' \subseteq Holds(w)
      PROVE  HeldInv'
  <2>1. NotYet(w)'
    BY <1>c DEF HeldInv, NotYet
  <2>2. QED
    BY <1>b, <1>c, <2>1
<1>3. ASSUME NEW w \in Worker, Received(w) PROVE HeldInv'
  <2>1. \A v \in Worker \ {w} : batch'[v] = batch[v]
    BY <1>3 DEF Received, Others, Still, Same
  <2>2. Exclusive'
    BY <1>3, <1>a, <2>1 DEF Received, Exclusive
  <2>3. Apart(w)' /\ Holds(w)' \subseteq Holds(w)
    BY <1>3 DEF Received, Apart, Holds
  <2>4. QED
    BY <1>3, <1>c, <2>2, <2>3 DEF Received, Stores
<1>4. ASSUME NEW w \in Worker, Filtered(w) PROVE HeldInv'
  <2>1. Exclusive'
    BY <1>4, <1>a, ExclusiveFrame DEF Filtered
  <2>2. opened[w] = {} /\ bucket[w] = {}
    BY <1>4 DEF Filtered, HeldInv, Apart, IInv, Consumer, Writing
  <2>3. Apart(w)'
    BY <1>4, <2>2 DEF Filtered, Apart
  <2>4. NotYet(w)'
    BY <1>4, <2>2 DEF Filtered, Stores, HeldInv, NotYet, Holds
  <2>5. QED
    BY <1>4, <1>b, <2>1, <2>3, <2>4 DEF Filtered, Stores
<1>5. ASSUME NEW w \in Worker, Sorted(w) PROVE HeldInv'
  <2>1. Exclusive'
    BY <1>5, <1>a, ExclusiveFrame DEF Sorted
  <2>2. Apart(w)' /\ Holds(w)' \subseteq Holds(w)
    BY <1>5 DEF Sorted, HeldInv, Apart, Holds
  <2>3. QED
    BY <1>5, <1>c, <2>1, <2>2 DEF Sorted, Stores
<1>6. ASSUME NEW w \in Worker, NEW m \in Message, Refused(w, m) PROVE HeldInv'
  <2>1. Exclusive'
    BY <1>6, <1>a, ExclusiveFrame DEF Refused
  <2>2. m \in Holds(w) /\ m \notin Holds(w)' /\ Holds(w)' \subseteq Holds(w) /\ Holds(w) \subseteq Message
    BY <1>6, <1>a DEF Refused, Holds, HeldInv, Apart, ConsumersOK
  <2>3. Apart(w)'
    BY <1>6 DEF Refused, HeldInv, Apart
  <2>4. NotYet(w)'
    BY <1>6, <2>2, OneCopy DEF Refused, HeldInv, NotYet
  <2>5. ASSUME NEW v \in Worker \ {w}, NEW k \in Holds(v) PROVE DedupKey(k) \notin dedup' \ dedup
    <3>1. k \in Message /\ k # m
      BY <1>a, <2>2, HeldByOne
    <3>2. QED
      BY <1>6, <3>1, OneCopy DEF Refused
  <2>6. QED
    BY <1>6, <1>b, <2>1, <2>3, <2>4, <2>5 DEF Refused
<1>7. ASSUME NEW w \in Worker, NEW s, Pended(w, s) PROVE HeldInv'
  <2>1. Exclusive'
    BY <1>7, <1>a, ExclusiveFrame DEF Pended
  <2>2. bucket'[w] \subseteq opened[w] /\ opened'[w] = opened[w] \ bucket'[w] /\ fresh'[w] = fresh[w] /\ pc'[w] = "put"
    BY <1>7 DEF Pended
  <2>3. Apart(w)' /\ Holds(w)' \subseteq Holds(w)
    BY <2>2 DEF HeldInv, Apart, Holds
  <2>4. QED
    BY <1>7, <1>c, <2>1, <2>3 DEF Pended
<1>8. ASSUME NEW w \in Worker, Stored(w) \/ Readied(w) \/ Advanced(w) PROVE HeldInv'
  <2>1. Keeps(w) /\ dedup' = dedup /\ queue' = queue /\ pc'[w] # "filter"
    BY <1>8 DEF Stored, Readied, Advanced, Stores
  <2>2. Exclusive'
    BY <1>a, <2>1, ExclusiveFrame DEF Keeps
  <2>3. Apart(w)' /\ Holds(w)' \subseteq Holds(w)
    BY <2>1 DEF HeldInv, Apart, Holds, Keeps
  <2>4. QED
    BY <1>c, <2>1, <2>2, <2>3 DEF Keeps
<1>9. ASSUME NEW w \in Worker, Remembered(w) PROVE HeldInv'
  <2>1. Exclusive'
    BY <1>9, <1>a, ExclusiveFrame DEF Remembered
  <2>2. /\ bucket[w] \subseteq Holds(w) /\ Holds(w)' \subseteq Holds(w) \ bucket[w] /\ Holds(w) \subseteq Message
    BY <1>9, <1>a DEF Remembered, Holds, HeldInv, Apart, ConsumersOK
  <2>3. Apart(w)'
    BY <1>9 DEF Remembered, HeldInv, Apart
  <2>4. NotYet(w)'
    BY <1>9, <2>2, OneCopy DEF Remembered, HeldInv, NotYet
  <2>5. ASSUME NEW v \in Worker \ {w}, NEW k \in Holds(v) PROVE DedupKey(k) \notin dedup' \ dedup
    <3>1. k \in Message /\ k \notin bucket[w]
      BY <1>a, <2>2, HeldByOne
    <3>2. \A n \in bucket[w] : DedupKey(k) # DedupKey(n)
      BY <2>2, <3>1, OneCopy
    <3>3. QED
      BY <1>9, <3>2 DEF Remembered
  <2>6. QED
    BY <1>9, <1>b, <2>1, <2>3, <2>4, <2>5 DEF Remembered
<1>10. ASSUME NEW w \in Worker, Ended(w) PROVE HeldInv'
  <2>1. Exclusive'
    BY <1>10, <1>a, ExclusiveFrame DEF Ended
  <2>2. Apart(w)' /\ Holds(w)' \subseteq Holds(w)
    BY <1>10 DEF Ended, Apart, Holds
  <2>3. QED
    BY <1>10, <1>c, <2>1, <2>2 DEF Ended, Stores
<1>11. QED
  BY <1>1, <1>2, <1>3, <1>4, <1>5, <1>6, <1>7, <1>8, <1>9, <1>10, Steps DEF Moved
-----------------------------------------------------------------------------
(* What is stored, when moreover no cron reconciles chunks: the chunk of a *)
(* consumer is its own until its bucket is remembered, and nobody's after. *)

NoReconciliation == Signal = "metrics" \/ Cron = {}
NothingFound == \A c \in Cron : found[c] = {}

Written(w) ==
  /\ pc[w] \in {"ready", "usage", "publish", "remember"} => objects[ObjectKey(bucket[w])] = bucket[w]
  /\ pc[w] \in {"usage", "publish", "remember"} => chunks[ChunkId(bucket[w])].status = "ready"

\* The chunk of this id can be written no more: its event is remembered.
Gone(i) == \E f \in Event : f.id = i /\ <<f.tenant, f.id>> \in dedup
Safe(e) == \E i \in Id : ReadableIn(e, i) /\ Gone(i)

StoreInv ==
  /\ \A w \in Worker : Written(w)
  /\ \A e \in Event : <<e.tenant, e.id>> \in dedup \ dropped => Safe(e)
  /\ \A k \in Key : objects[k] \subseteq sent

LEMMA NothingFoundStep ==
  ASSUME NoReconciliation, NothingFound, [Next]_vars
  PROVE  NothingFound'
<1>1. ASSUME NEW c \in Cron, Reconcile(c) PROVE FALSE
  <2>1. Signal = "metrics" /\ found[c] = {}
    BY DEF NoReconciliation, NothingFound
  <2>2. QED
    BY <1>1, <2>1 DEF Reconcile, ListPending
<1>2. CASE found' = found
  BY <1>2 DEF NothingFound
<1>3. ASSUME NEW w \in Worker, Work(w) PROVE found' = found
  <2>1. CASE InsertStream(w)
    BY <2>1 DEF InsertStream, Fail
  <2>2. CASE ~InsertStream(w)
    BY <1>3, <2>2 DEF Work, FilterUnseen, FindStream, CountStreams, DropEvent, SavePending, PutObject,
       SaveReady, CountUsage, PublishTail, Remember, Ack
  <2>3. QED
    BY <2>1, <2>2
<1>4. ASSUME NEW w \in Worker, PublishTailThrows(w) \/ Throws(w) PROVE found' = found
  BY <1>4 DEF PublishTailThrows, Throws, Fail
<1>5. QED
  BY <1>1, <1>2, <1>3, <1>4 DEF Next, Publish, Receive, vars

\* What two consumers hold has different chunk ids.
LEMMA OwnChunk ==
  ASSUME OwnIds, SingleCopies, IInv, Exclusive, NEW w \in Worker, NEW v \in Worker, w # v,
         NEW B \in SUBSET Holds(w), NEW C \in SUBSET Holds(v), B # {}, C # {}
  PROVE  ChunkId(B) # ChunkId(C)
<1>1. B \subseteq Message /\ C \subseteq Message /\ B \intersect C = {}
  BY HeldByOne
<1>2. PICK m \in B : ChunkId(B) = m[1].id
  BY <1>1, ChunkIdIn
<1>3. PICK n \in C : ChunkId(C) = n[1].id
  BY <1>1, ChunkIdIn
<1>4. m \in Message /\ n \in Message /\ m # n
  BY <1>1
<1>5. ASSUME m[1].id = n[1].id PROVE FALSE
  <2>1. m[1] = n[1]
    BY <1>4, <1>5, MessageParts DEF OwnIds
  <2>2. QED
    BY <1>4, <2>1, OneCopy DEF DedupKey
<1>6. QED
  BY <1>2, <1>3, <1>5

\* What a consumer holds goes to a chunk that is not settled.
LEMMA NotGone ==
  ASSUME OwnIds, IInv, HeldInv, NEW w \in Worker, NEW B \in SUBSET Holds(w), B # {}
  PROVE  ~Gone(ChunkId(B))
<1>1. B \subseteq Message
  BY DEF IInv, TypeOK, ConsumersOK, Holds
<1>2. PICK m \in B : ChunkId(B) = m[1].id
  BY <1>1, ChunkIdIn
<1>3. DedupKey(m) \notin dedup /\ m[1] \in Event
  BY <1>1, MessageParts DEF HeldInv, NotYet
<1>4. ASSUME NEW f \in Event, f.id = m[1].id, <<f.tenant, f.id>> \in dedup PROVE FALSE
  BY <1>3, <1>4 DEF OwnIds, DedupKey
<1>5. QED
  BY <1>2, <1>4 DEF Gone

LEMMA SafeFrame ==
  ASSUME NEW e \in Event, Safe(e), dedup \subseteq dedup',
         \A i \in Id : Gone(i) /\ chunks[i] # NoRow =>
           chunks'[i] = chunks[i] /\ objects'[chunks[i].key] = objects[chunks[i].key]
  PROVE  Safe(e)'
<1>1. PICK i \in Id : ReadableIn(e, i) /\ Gone(i)
  BY DEF Safe
<1>2. chunks'[i] = chunks[i] /\ objects'[chunks[i].key] = objects[chunks[i].key]
  BY <1>1 DEF ReadableIn
<1>3. ReadableIn(e, i)'
  BY <1>1, <1>2 DEF ReadableIn
<1>4. Gone(i)'
  BY <1>1 DEF Gone
<1>5. QED
  BY <1>3, <1>4 DEF Safe

LEMMA WrittenFrame ==
  ASSUME NEW v \in Worker, Written(v), Still(v),
         pc[v] \in Writing => /\ chunks'[ChunkId(bucket[v])] = chunks[ChunkId(bucket[v])]
                              /\ objects'[ObjectKey(bucket[v])] = objects[ObjectKey(bucket[v])]
  PROVE  Written(v)'
<1>1. pc'[v] = pc[v] /\ bucket'[v] = bucket[v]
  BY DEF Still, Same
<1>2. ChunkId(bucket'[v]) = ChunkId(bucket[v]) /\ ObjectKey(bucket'[v]) = ObjectKey(bucket[v])
  BY <1>1
<1>3. pc[v] \in {"ready", "usage", "publish", "remember"} => pc[v] \in Writing
  BY DEF Writing
<1>4. QED
  BY <1>1, <1>2, <1>3 DEF Written

\* The bucket of a consumer, when it has one.
LEMMA Bucket ==
  ASSUME IInv, KeyInv, NEW w \in Worker, pc[w] \in Writing
  PROVE  /\ bucket[w] # {} /\ bucket[w] \in SUBSET Message /\ bucket[w] \subseteq Holds(w)
         /\ bucket[w] \subseteq sent
         /\ \A m, n \in bucket[w] : StreamOf(m) = StreamOf(n)
         /\ ChunkId(bucket[w]) \in Id /\ ObjectKey(bucket[w]) \in Key
         /\ ObjectKey(bucket[w]).chunk = ChunkId(bucket[w])
         /\ chunks[ChunkId(bucket[w])] # NoRow
<1>1. bucket[w] # {} /\ bucket[w] \in SUBSET Message /\ bucket[w] \subseteq Holds(w) /\ bucket[w] \subseteq sent
  BY DEF IInv, TypeOK, ConsumersOK, Consumer, Holds
<1>2. \A m, n \in bucket[w] : StreamOf(m) = StreamOf(n)
  BY DEF KeyInv, BucketOK
<1>3. chunks[ChunkId(bucket[w])] # NoRow
  BY DEF KeyInv, BucketOK
<1>4. QED
  BY <1>1, <1>2, <1>3, BucketNames DEF ObjectKey

\* A step that leaves rows and objects alone.
LEMMA StoreFrame ==
  ASSUME StoreInv, UNCHANGED <<chunks, objects>>, sent \subseteq sent', dedup \subseteq dedup',
         dedup' \ dropped' \subseteq dedup \ dropped, \A v \in Worker : Written(v)'
  PROVE  StoreInv'
<1>1. \A e \in Event : <<e.tenant, e.id>> \in dedup' \ dropped' => Safe(e)'
  BY SafeFrame DEF StoreInv
<1>2. \A k \in Key : objects'[k] \subseteq sent'
  BY DEF StoreInv
<1>3. QED
  BY <1>1, <1>2 DEF StoreInv

\* A step that writes the chunk c, which w alone holds.
LEMMA ChunkFrame ==
  ASSUME OwnIds, SingleCopies, IInv, KeyInv, HeldInv, StoreInv, NEW w \in Worker, Others(w),
         NEW B \in SUBSET Holds(w), B # {}, UNCHANGED <<sent, dedup, dropped>>,
         \A i \in Id : i # ChunkId(B) => chunks'[i] = chunks[i],
         \A k \in Key : k.chunk # ChunkId(B) => objects'[k] = objects[k],
         \A k \in Key : objects'[k] \subseteq sent,
         Written(w)'
  PROVE  StoreInv'
<1>a. StoreOK /\ Exclusive
  BY DEF IInv, TypeOK, HeldInv
<1>1. ~Gone(ChunkId(B))
  BY NotGone
<1>2. ASSUME NEW i \in Id, Gone(i), chunks[i] # NoRow
      PROVE  chunks'[i] = chunks[i] /\ objects'[chunks[i].key] = objects[chunks[i].key]
  <2>1. i # ChunkId(B)
    BY <1>1, <1>2
  <2>2. chunks[i].key \in Key /\ chunks[i].key.chunk = i
    <3>1. chunks[i] \in Row
      BY <1>2, <1>a DEF StoreOK
    <3>2. QED
      BY <1>2, <3>1 DEF Row, KeyInv
  <2>3. QED
    BY <2>1, <2>2
<1>3. \A e \in Event : <<e.tenant, e.id>> \in dedup' \ dropped' => Safe(e)'
  BY <1>2, SafeFrame DEF StoreInv
<1>4. ASSUME NEW v \in Worker \ {w} PROVE Written(v)'
  <2>1. CASE pc[v] \in Writing
    <3>1. /\ bucket[v] # {} /\ bucket[v] \subseteq Holds(v)
          /\ ChunkId(bucket[v]) \in Id /\ ObjectKey(bucket[v]) \in Key
          /\ ObjectKey(bucket[v]).chunk = ChunkId(bucket[v])
      BY <2>1, Bucket
    <3>2. ChunkId(B) # ChunkId(bucket[v])
      BY <1>a, <3>1, OwnChunk
    <3>3. /\ chunks'[ChunkId(bucket[v])] = chunks[ChunkId(bucket[v])]
          /\ objects'[ObjectKey(bucket[v])] = objects[ObjectKey(bucket[v])]
      BY <3>1, <3>2
    <3>4. QED
      BY <3>3, WrittenFrame DEF StoreInv, Others
  <2>2. CASE pc[v] \notin Writing
    BY <2>2, WrittenFrame DEF StoreInv, Others
  <2>3. QED
    BY <2>1, <2>2
<1>5. QED
  BY <1>3, <1>4 DEF StoreInv
\* The bucket of a consumer about to be remembered can be read.
LEMMA NowSafe ==
  ASSUME OwnIds, OneDay, IInv, KeyInv, StoreInv, NEW w \in Worker, pc[w] = "remember",
         NEW m \in bucket[w], \A n \in bucket[w] : DedupKey(n) \in dedup', UNCHANGED <<chunks, objects>>
  PROVE  Safe(m[1])'
<1>0. PICK i \in Id : i = ChunkId(bucket[w])
  BY Bucket DEF Writing
<1>1. /\ bucket[w] # {} /\ bucket[w] \in SUBSET Message
      /\ \A x, y \in bucket[w] : StreamOf(x) = StreamOf(y)
      /\ ObjectKey(bucket[w]) \in Key /\ ObjectKey(bucket[w]).chunk = i /\ chunks[i] # NoRow
  BY <1>0, Bucket DEF Writing
<1>2. PICK n \in bucket[w] : i = n[1].id
  BY <1>0, <1>1, ChunkIdIn
<1>3. n[1] \in Event /\ m[1] \in Event
  BY <1>1, MessageParts
<1>4. chunks[i].key = ObjectKey(bucket[w]) /\ Named(chunks[i].key) /\ chunks[i].key.chunk = i
  <2>1. Named(ObjectKey(bucket[w])) /\ ObjectKey(bucket[w]).chunk = i
    BY <1>1, BucketKey
  <2>2. Named(chunks[i].key) /\ chunks[i].key.chunk = i
    BY <1>1 DEF KeyInv
  <2>3. QED
    BY <2>1, <2>2, OneKey
<1>5. chunks[i].key = KeyOf(n[1])
  <2>1. PICK f \in Event : chunks[i].key = KeyOf(f)
    BY <1>4 DEF Named
  <2>2. f.id = n[1].id
    BY <1>2, <1>4, <2>1 DEF KeyOf
  <2>3. QED
    BY <1>3, <2>1, <2>2 DEF OwnIds
<1>6. chunks[i].key.tenant = m[1].tenant /\ chunks[i].key.stream = m[1].stream
  BY <1>1, <1>5 DEF KeyOf, StreamOf
<1>7. chunks[i].status = "ready" /\ objects[ObjectKey(bucket[w])] = bucket[w]
  BY <1>0 DEF StoreInv, Written
<1>8. ReadableIn(m[1], i)'
  BY <1>1, <1>4, <1>6, <1>7 DEF ReadableIn
<1>9. Gone(i)'
  BY <1>2, <1>3 DEF Gone, DedupKey
<1>10. QED
  BY <1>1, <1>8, <1>9 DEF Safe

LEMMA StoreStep ==
  ASSUME OwnIds, OneDay, SingleCopies, IInv, \A v \in Worker : Chosen(v), KeyInv, HeldInv, NothingFound,
         StoreInv, [Next]_vars
  PROVE  StoreInv'
<1>a. StoreOK /\ ConsumersOK /\ Exclusive
  BY DEF IInv, TypeOK, HeldInv
<1>b. ASSUME NEW v \in Worker, Still(v), UNCHANGED <<chunks, objects>> PROVE Written(v)'
  BY <1>b, WrittenFrame DEF StoreInv
<1>1. ASSUME NEW m \in Message, Published(m) PROVE StoreInv'
  BY <1>1, <1>b, StoreFrame DEF Published, Stores
<1>2. CASE Rested
  <2>1. chunks' = chunks
    BY <1>2 DEF Rested, NothingFound
  <2>2. QED
    BY <1>2, <1>b, <2>1, StoreFrame DEF Rested
\* A consumer that leaves rows and objects alone.
<1>c. ASSUME NEW w \in Worker, Others(w), UNCHANGED <<chunks, objects, sent>>, dedup \subseteq dedup',
             dedup' \ dropped' \subseteq dedup \ dropped, Written(w)'
      PROVE  StoreInv'
  BY <1>b, <1>c, StoreFrame DEF Others
<1>3. ASSUME NEW w \in Worker, Received(w) \/ Filtered(w) \/ Sorted(w) \/ Ended(w) PROVE StoreInv'
  <2>1. /\ Others(w) /\ Stores /\ sent' = sent
        /\ pc'[w] \in {"idle", "filter", "group", "count", "insert", "drop"}
    BY <1>3 DEF Received, Filtered, Sorted, Ended
  <2>2. Written(w)'
    BY <2>1 DEF Written
  <2>3. QED
    BY <1>c, <2>1, <2>2 DEF Stores
<1>4. ASSUME NEW w \in Worker, NEW m \in Message, Refused(w, m) PROVE StoreInv'
  <2>1. Written(w)'
    BY <1>4 DEF Refused, Written
  <2>2. QED
    BY <1>4, <1>c, <2>1 DEF Refused
<1>5. ASSUME NEW w \in Worker, Advanced(w) PROVE StoreInv'
  <2>1. /\ pc[w] \in {"usage", "publish"} /\ UNCHANGED <<chunks, objects>> /\ bucket'[w] = bucket[w]
    BY <1>5 DEF Advanced, Keeps, Stores
  <2>2. ChunkId(bucket'[w]) = ChunkId(bucket[w]) /\ ObjectKey(bucket'[w]) = ObjectKey(bucket[w])
    BY <2>1
  <2>3. Written(w)'
    BY <2>1, <2>2 DEF Written, StoreInv
  <2>4. QED
    BY <1>5, <1>c, <2>3 DEF Advanced, Keeps, Stores
<1>6. ASSUME NEW w \in Worker, NEW s, Pended(w, s) PROVE StoreInv'
  <2>1. bucket'[w] \in SUBSET Holds(w) /\ bucket'[w] # {} /\ bucket'[w] \in SUBSET Message
    BY <1>6, <1>a DEF Pended, Holds, ConsumersOK
  <2>2. Written(w)'
    BY <1>6 DEF Pended, Written
  <2>3. /\ ChunkId(bucket'[w]) \in Id
        /\ \A i \in Id \ {ChunkId(bucket'[w])} : chunks'[i] = chunks[i]
    BY <1>6, <2>1, Saved DEF Pended, Status
  <2>4. \A i : i # ChunkId(bucket'[w]) => chunks'[i] = chunks[i]
    BY <1>6, <1>a DEF Pended, StoreOK
  <2>5. QED
    BY <1>6, <2>1, <2>2, <2>3, <2>4, ChunkFrame DEF Pended, StoreInv
<1>7. ASSUME NEW w \in Worker, Stored(w) PROVE StoreInv'
  <2>1. /\ bucket[w] # {} /\ bucket[w] \in SUBSET Holds(w) /\ bucket[w] \subseteq sent
        /\ ObjectKey(bucket[w]) \in Key /\ ObjectKey(bucket[w]).chunk = ChunkId(bucket[w])
    BY <1>7, Bucket DEF Stored, Writing
  <2>2. \A k \in Key : objects'[k] = IF k = ObjectKey(bucket[w]) THEN bucket[w] ELSE objects[k]
    BY <1>7, <1>a, <2>1 DEF Stored, StoreOK
  <2>3. bucket'[w] = bucket[w] /\ pc'[w] = "ready"
    BY <1>7 DEF Stored, Keeps
  <2>4. Written(w)'
    <3>1. ObjectKey(bucket'[w]) = ObjectKey(bucket[w])
      BY <2>3
    <3>2. QED
      BY <2>1, <2>2, <2>3, <3>1 DEF Written
  <2>5. \A k \in Key : objects'[k] \subseteq sent
    BY <2>1, <2>2 DEF StoreInv
  <2>6. QED
    BY <1>7, <2>1, <2>2, <2>4, <2>5, ChunkFrame DEF Stored, Keeps
<1>8. ASSUME NEW w \in Worker, Readied(w) PROVE StoreInv'
  <2>1. /\ bucket[w] # {} /\ bucket[w] \in SUBSET Holds(w) /\ bucket[w] \in SUBSET Message
        /\ ObjectKey(bucket[w]) \in Key
    BY <1>8, Bucket DEF Readied, Writing
  <2>2. SaveChunk(bucket[w], "ready") /\ objects' = objects /\ bucket'[w] = bucket[w] /\ pc[w] = "ready"
    BY <1>8 DEF Readied, Keeps
  <2>3. /\ \A i \in Id \ {ChunkId(bucket[w])} : chunks'[i] = chunks[i]
        /\ chunks'[ChunkId(bucket[w])].status = "ready"
    BY <2>1, <2>2, Saved DEF SaveChunk, Status
  <2>4. \A i : i # ChunkId(bucket[w]) => chunks'[i] = chunks[i]
    BY <2>2, <1>a DEF SaveChunk, StoreOK
  <2>5. Written(w)'
    <3>1. ChunkId(bucket'[w]) = ChunkId(bucket[w]) /\ ObjectKey(bucket'[w]) = ObjectKey(bucket[w])
      BY <2>2
    <3>2. QED
      BY <2>2, <2>3, <3>1 DEF Written, StoreInv
  <2>6. QED
    BY <1>8, <2>1, <2>2, <2>4, <2>5, ChunkFrame DEF Readied, Keeps, StoreInv
<1>9. ASSUME NEW w \in Worker, Remembered(w) PROVE StoreInv'
  <2>1. /\ UNCHANGED <<chunks, objects, sent, dropped>> /\ Others(w) /\ pc[w] = "remember" /\ pc'[w] = "group"
        /\ dedup' = dedup \union {DedupKey(m) : m \in bucket[w]} /\ bucket[w] \subseteq Message
    BY <1>9, <1>a DEF Remembered, ConsumersOK
  <2>2. \A v \in Worker : Written(v)'
    BY <1>b, <2>1 DEF Others, Written
  <2>3. ASSUME NEW e \in Event, <<e.tenant, e.id>> \in dedup' \ dropped' PROVE Safe(e)'
    <3>1. CASE <<e.tenant, e.id>> \in dedup
      <4>1. Safe(e)
        BY <2>1, <2>3, <3>1 DEF StoreInv
      <4>2. QED
        BY <2>1, <4>1, SafeFrame
    <3>2. ASSUME NEW m \in bucket[w], <<e.tenant, e.id>> = DedupKey(m) PROVE Safe(e)'
      <4>1. m[1] \in Event /\ m[1].tenant = e.tenant /\ m[1].id = e.id
        BY <2>1, <3>2, MessageParts DEF DedupKey
      <4>2. m[1] = e
        BY <4>1, EventAssumption
      <4>3. \A n \in bucket[w] : DedupKey(n) \in dedup'
        BY <2>1
      <4>4. QED
        BY <2>1, <4>2, <4>3, NowSafe
    <3>3. QED
      BY <2>1, <2>3, <3>1, <3>2
  <2>4. \A k \in Key : objects'[k] \subseteq sent'
    BY <2>1 DEF StoreInv
  <2>5. QED
    BY <2>2, <2>3, <2>4 DEF StoreInv
<1>10. QED
  BY <1>1, <1>2, <1>3, <1>4, <1>5, <1>6, <1>7, <1>8, <1>9, Steps DEF Moved

\* Everything that the steps above rest on.
LogInv == (\A v \in Worker : Chosen(v)) /\ KeyInv /\ HeldInv /\ NothingFound /\ StoreInv

LEMMA InitLog == Init => LogInv
<1> SUFFICES ASSUME Init PROVE LogInv
  OBVIOUS
<1>1. KeyInv
  BY InitKey
<1>2. (\A v \in Worker : Chosen(v)) /\ HeldInv /\ NothingFound
  BY DEF Init, Chosen, Choosing, HeldInv, Exclusive, NotYet, Holds, Apart, NothingFound
<1>3. StoreInv
  BY DEF Init, StoreInv, Written
<1>4. QED
  BY <1>1, <1>2, <1>3 DEF LogInv

LEMMA LogStep ==
  ASSUME OwnIds, OneDay, SingleCopies, NoReconciliation, IInv, LogInv, [Next]_vars
  PROVE  LogInv'
<1>1. (\A v \in Worker : Chosen(v))' /\ KeyInv'
  BY PickStep, KeyStep DEF LogInv
<1>2. HeldInv' /\ NothingFound'
  BY HeldStep, NothingFoundStep DEF LogInv
<1>3. StoreInv'
  BY StoreStep DEF LogInv
<1>4. QED
  BY <1>1, <1>2, <1>3 DEF LogInv

\* What is remembered, and so never processed again, can be read, whatever
\* fails between the row, the object and the memory: for events of one day
\* with ids of their own, sent once, while no cron marks rows failed.  Without
\* any of the four, TLC finds runs of the code that lose an entry.
THEOREM RememberedStaysReadable ==
  ASSUME OwnIds, OneDay, SingleCopies, NoReconciliation
  PROVE  Spec => []RememberedIsReadable
<1>1. LogInv => RememberedIsReadable
  BY DEF LogInv, StoreInv, Safe, RememberedIsReadable, Readable
<1>2. IInv /\ LogInv /\ [Next]_vars => LogInv'
  BY LogStep
<1>3. QED
  BY <1>1, <1>2, InitLog, InitIInv, StepIInv, PTL DEF Spec
-----------------------------------------------------------------------------
(* The refinement of EventLog, step by step.                               *)

Accepted == {m[1] : m \in sent}
ReadableEvents == {e \in Event : Readable(e)}
Settled == {e \in Event : <<e.tenant, e.id>> \in dedup \ dropped}
RefusedEvents == {e \in Event : <<e.tenant, e.id>> \in dropped}

\* Only what is readable is settled, only what was accepted is readable.
Sound == Settled \subseteq ReadableEvents /\ ReadableEvents \subseteq Accepted

LEMMA LogIsSound == IInv /\ LogInv => Sound
<1> SUFFICES ASSUME IInv, LogInv PROVE Sound
  OBVIOUS
<1>1. Settled \subseteq ReadableEvents
  BY DEF LogInv, StoreInv, Safe, Readable, Settled, ReadableEvents
<1>2. ASSUME NEW e \in Event, NEW i \in Id, ReadableIn(e, i) PROVE e \in Accepted
  <2>1. chunks[i].key \in Key
    BY <1>2 DEF ReadableIn, IInv, TypeOK, StoreOK, Row
  <2>2. PICK m \in objects[chunks[i].key] : m[1] = e
    BY <1>2 DEF ReadableIn
  <2>3. m \in sent
    BY <2>1, <2>2 DEF LogInv, StoreInv
  <2>4. QED
    BY <2>2, <2>3 DEF Accepted
<1>3. QED
  BY <1>1, <1>2 DEF Sound, ReadableEvents, Readable

LEMMA StillReadable ==
  ASSUME UNCHANGED <<chunks, objects>>
  PROVE  ReadableEvents' = ReadableEvents
BY DEF ReadableEvents, Readable, ReadableIn

LEMMA StillSettled ==
  ASSUME UNCHANGED <<dedup, dropped>>
  PROVE  Settled' = Settled /\ RefusedEvents' = RefusedEvents
BY DEF Settled, RefusedEvents

\* The four steps of EventLog, in terms of this module.
AcceptStep(e) ==
  Accepted' = Accepted \union {e} /\ UNCHANGED <<ReadableEvents, Settled, RefusedEvents>>
WriteStep ==
  /\ ReadableEvents' \in SUBSET Accepted /\ Settled \subseteq ReadableEvents'
  /\ UNCHANGED <<Accepted, Settled, RefusedEvents>>
SettleStep ==
  /\ Settled' \in SUBSET ReadableEvents /\ Settled \subseteq Settled'
  /\ UNCHANGED <<Accepted, ReadableEvents, RefusedEvents>>
RefuseStep(e) ==
  /\ e \in Accepted \ Settled /\ RefusedEvents' = RefusedEvents \union {e}
  /\ UNCHANGED <<Accepted, ReadableEvents, Settled>>

LEMMA RefusedMaps ==
  ASSUME IInv, LogInv, NEW w \in Worker, NEW m \in Message, Refused(w, m)
  PROVE  RefuseStep(m[1])
<1>1. m \in sent /\ DedupKey(m) \notin dedup /\ m[1] \in Event
  BY MessageParts DEF Refused, LogInv, HeldInv, NotYet, Holds, IInv, Consumer
<1>2. /\ dedup' = dedup \union {DedupKey(m)} /\ dropped' = dropped \union {DedupKey(m)}
      /\ UNCHANGED <<sent, chunks, objects>>
  BY DEF Refused
<1>3. m[1] \in Accepted \ Settled
  BY <1>1 DEF Accepted, Settled, DedupKey
<1>4. \A e \in Event : <<e.tenant, e.id>> = DedupKey(m) <=> e = m[1]
  BY <1>1, EventAssumption DEF DedupKey
<1>5. RefusedEvents' = RefusedEvents \union {m[1]}
  BY <1>1, <1>2, <1>4 DEF RefusedEvents
<1>6. Settled' = Settled
  BY <1>1, <1>2 DEF Settled
<1>7. Accepted' = Accepted
  BY <1>2 DEF Accepted
<1>8. QED
  BY <1>2, <1>3, <1>5, <1>6, <1>7, StillReadable DEF RefuseStep

LEMMA StepMaps ==
  ASSUME IInv, LogInv, Sound', [Next]_vars
  PROVE  \/ (\E e \in Event : AcceptStep(e) \/ RefuseStep(e)) \/ WriteStep \/ SettleStep
         \/ UNCHANGED <<Accepted, ReadableEvents, Settled, RefusedEvents>>
<1> DEFINE Goal == \/ (\E e \in Event : AcceptStep(e) \/ RefuseStep(e)) \/ WriteStep \/ SettleStep
                   \/ UNCHANGED <<Accepted, ReadableEvents, Settled, RefusedEvents>>
<1>a. \A v \in Worker : Chosen(v)
  BY DEF LogInv
<1>b. sent' = sent => Accepted' = Accepted
  BY DEF Accepted
<1>1. ASSUME NEW m \in Message, Published(m) PROVE Goal
  <2>1. sent' = sent \union {m} /\ Stores
    BY <1>1 DEF Published
  <2>2. Accepted' = Accepted \union {m[1]}
    BY <2>1 DEF Accepted
  <2>3. AcceptStep(m[1])
    BY <2>1, <2>2, StillReadable, StillSettled DEF AcceptStep, Stores
  <2>4. QED
    BY <2>3, MessageParts
<1>c. ASSUME sent' = sent, Stores PROVE Goal
  BY <1>b, <1>c, StillReadable, StillSettled DEF Stores
<1>2. CASE Rested
  <2>1. chunks' = chunks
    BY <1>2 DEF Rested, LogInv, NothingFound
  <2>2. QED
    BY <1>2, <1>c, <2>1 DEF Rested, Stores
<1>3. ASSUME NEW w \in Worker, Received(w) \/ Filtered(w) \/ Sorted(w) \/ Advanced(w) \/ Ended(w) PROVE Goal
  BY <1>3, <1>c DEF Received, Filtered, Sorted, Advanced, Ended
<1>4. ASSUME NEW w \in Worker, NEW m \in Message, Refused(w, m) PROVE Goal
  <2>1. RefuseStep(m[1]) /\ m[1] \in Event
    BY <1>4, RefusedMaps, MessageParts
  <2>2. QED
    BY <2>1
<1>5. ASSUME NEW w \in Worker, (\E s : Pended(w, s)) \/ Stored(w) \/ Readied(w) PROVE Goal
  <2>1. UNCHANGED <<sent, dedup, dropped>>
    BY <1>5 DEF Pended, Stored, Readied
  <2>2. Accepted' = Accepted /\ Settled' = Settled /\ RefusedEvents' = RefusedEvents
    BY <1>b, <2>1, StillSettled
  <2>3. ReadableEvents' \subseteq Accepted'
    BY DEF Sound
  <2>4. Settled' \subseteq ReadableEvents'
    BY DEF Sound
  <2>5. WriteStep
    BY <2>2, <2>3, <2>4 DEF WriteStep
  <2>6. QED
    BY <2>5
<1>6. ASSUME NEW w \in Worker, Remembered(w) PROVE Goal
  <2>1. UNCHANGED <<sent, chunks, objects, dropped>> /\ dedup \subseteq dedup'
    BY <1>6 DEF Remembered
  <2>2. /\ Accepted' = Accepted /\ ReadableEvents' = ReadableEvents
        /\ RefusedEvents' = RefusedEvents
    BY <1>b, <2>1, StillReadable DEF RefusedEvents
  <2>3. Settled \subseteq Settled'
    BY <2>1 DEF Settled
  <2>4. Settled' \subseteq ReadableEvents'
    BY DEF Sound
  <2>5. SettleStep
    BY <2>2, <2>3, <2>4 DEF SettleStep
  <2>6. QED
    BY <2>5
<1>7. QED
  BY <1>a, <1>1, <1>2, <1>3, <1>4, <1>5, <1>6, Steps DEF Moved

\* Ingestion keeps the promise of EventLog: an accepted event is refused, or
\* may come and go in the answers until it is settled, and is then never
\* written again and always found.  Publishing is Accept, the refusal at the
\* stream limit is Refuse, every write of a row or an object is Write,
\* rememberMany is Settle, and every other step stutters.
THEOREM IngestionKeepsEventLog ==
  ASSUME OwnIds, OneDay, SingleCopies, NoReconciliation
  PROVE  Spec => KeepsEventLog
<1>1. Init => Abstract!Init
  BY DEF Init, Abstract!Init, Readable, ReadableIn
<1>2. IInv /\ LogInv /\ Sound' /\ [Next]_vars => [Abstract!Next]_(Abstract!vars)
  <2> SUFFICES ASSUME IInv, LogInv, Sound', [Next]_vars PROVE [Abstract!Next]_(Abstract!vars)
    OBVIOUS
  <2>1. ASSUME NEW e \in Event, AcceptStep(e) PROVE Abstract!Accept(e)
    BY <2>1 DEF AcceptStep, Abstract!Accept, Accepted, ReadableEvents, Settled, RefusedEvents
  <2>2. ASSUME NEW e \in Event, RefuseStep(e) PROVE Abstract!Refuse(e)
    BY <2>2 DEF RefuseStep, Abstract!Refuse, Accepted, ReadableEvents, Settled, RefusedEvents
  <2>3. WriteStep => Abstract!Write
    BY DEF WriteStep, Abstract!Write, Accepted, ReadableEvents, Settled, RefusedEvents
  <2>4. SettleStep => Abstract!Settle
    BY DEF SettleStep, Abstract!Settle, Accepted, ReadableEvents, Settled, RefusedEvents
  <2>5. UNCHANGED <<Accepted, ReadableEvents, Settled, RefusedEvents>> => UNCHANGED Abstract!vars
    BY DEF Abstract!vars, Accepted, ReadableEvents, Settled, RefusedEvents
  <2>6. QED
    BY <2>1, <2>2, <2>3, <2>4, <2>5, StepMaps DEF Abstract!Next
<1>3. IInv /\ LogInv /\ [Next]_vars => LogInv'
  BY LogStep
<1>4. QED
  BY <1>1, <1>2, <1>3, LogIsSound, InitLog, InitIInv, StepIInv, PTL DEF Spec, KeepsEventLog, Abstract!Spec
=============================================================================
