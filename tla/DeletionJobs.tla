---------------------------- MODULE DeletionJobs ----------------------------
(***************************************************************************)
(* Mass deletion of one tenant's data: deletion jobs kept in D1, a queue   *)
(* that delivers their ids at least once, the consumer that erases one     *)
(* page per delivery (application/deletion/process.ts), the routes that    *)
(* create jobs, and the cron that schedules retention jobs and sends       *)
(* unfinished jobs to the queue again (index.ts).                          *)
(*                                                                         *)
(* Every call to D1, R2 or a queue is one step, so consumers, the cron and *)
(* requests interleave between any two awaits.  A call may throw, with or  *)
(* without having taken effect, and a consumer may be killed anywhere.     *)
(*                                                                         *)
(* Row ids are ordered, as the ids in "ORDER BY id" are; cursor 0 stands   *)
(* for null.  An object is named by the id of the row that holds its key.  *)
(***************************************************************************)
EXTENDS Naturals, FiniteSets

CONSTANTS
  Job,            \* ids deletion jobs may get
  Worker,         \* concurrent consumers of the deletion queue
  Cron,           \* cron invocations that may overlap
  RowId,          \* ids of metadata rows, positive naturals
  FirstRows,      \* [DataTarget -> SUBSET RowId]: rows present at the start
  LateRows,       \* [DataTarget -> SUBSET RowId]: rows ingestion may still insert
  OldRows,        \* ids of rows older than the tenant's retention period
  RequestTargets, \* what users ask to delete
  Page,           \* PAGE, rows per page
  MaxRetries,     \* max_retries of the deletion queue
  QueueCap,       \* bound: the cron adds no message for a job beyond this many
  MaxFaults,      \* bound: calls that throw
  MaxCrashes      \* bound: consumers killed

DataTarget == {"logs", "metrics", "traces"}
Target == DataTarget \union {"all"}
Status == {"pending", "scheduled", "processing", "completed", "failed"}
Kind == {"retention", "user_requested"}

ASSUME RowIdAssumption == RowId \subseteq Nat \ {0} /\ IsFiniteSet(RowId)
ASSUME RowsAssumption ==
  /\ FirstRows \in [DataTarget -> SUBSET RowId]
  /\ LateRows \in [DataTarget -> SUBSET RowId]
ASSUME TargetsAssumption == RequestTargets \subseteq Target
ASSUME BoundsAssumption ==
  /\ Page \in Nat \ {0}
  /\ {MaxRetries, QueueCap, MaxFaults, MaxCrashes} \subseteq Nat

VARIABLES
  job,         \* deletion_jobs: [Job -> JobRow]
  covers,      \* history: the rows each job found when it was created
  rows,        \* metadata rows in D1, per data target
  marked,      \* log rows whose status is "deleting"
  objects,     \* R2 objects, per data target
  arrived,     \* history: every row id ever inserted, per data target
  unpublished, \* jobs saved by a request or a cron that has yet to send them
  cron,        \* per cron: the target it found due, or "none"
  queue,       \* deletion queue: messages per job and number of failed tries
  pc, msg, current, stage, todo, last,  \* the consumers, see TypeOK
  audits,      \* DELETION_COMPLETED audit records per job
  faults, crashes

jobVars == <<job, covers, unpublished, cron>>
dataVars == <<rows, marked, objects, arrived>>
pageVars == <<stage, todo, last>>
workerVars == <<pc, msg, current, pageVars>>
vars == <<jobVars, dataVars, queue, workerVars, audits, faults, crashes>>

JobRow == [status : Status, kind : Kind, target : Target, cursor : Nat]
NoJob == [status |-> "none", kind |-> "none", target |-> "none", cursor |-> 0]
Message == [job : Job, tries : 0 .. MaxRetries]
NoMessage == [job |-> "none", tries |-> 0]

Stage == DataTarget \union {"end"}
Label == {"idle", "begin", "list", "mark", "object", "row", "advance",
          "complete", "audit", "catch"}

\* deletePage runs the blocks of the job's target in this order.
FirstStage(target) == IF target = "all" THEN "logs" ELSE target
NextStage(target, s) ==
  IF target # "all" \/ s = "traces" THEN "end"
  ELSE IF s = "logs" THEN "metrics" ELSE "traces"

\* Mutant: the listing forgets ORDER BY.
IsPage_Unordered(page, t, cursor) ==
  LET due == {r \in rows[t] : r > cursor} IN
  /\ page \subseteq due
  /\ \/ Cardinality(page) = Page
     \/ Cardinality(page) < Page /\ page = due

\* listExpired(tenant, now, cursor, PAGE): the first Page ids past the cursor.
IsPage(page, t, cursor) ==
  LET due == {r \in rows[t] : r > cursor} IN
  /\ page \subseteq due
  /\ \A r \in page, s \in due \ page : r < s
  /\ \/ Cardinality(page) = Page
     \/ Cardinality(page) < Page /\ page = due

\* The loop over a page takes its rows in id order.
IsNext(w, r) == r \in todo[w] /\ \A s \in todo[w] : r <= s

\* Mutant: a job that is being processed does not count as in flight.
IsActive_NotProcessing(j, t) ==
  /\ job[j].kind = "retention"
  /\ job[j].target = t
  /\ job[j].status \in {"pending", "scheduled"}

\* A fresh retention job is not scheduled while one of these is in flight.
IsActive(j, t) ==
  /\ job[j].kind = "retention"
  /\ job[j].target = t
  /\ job[j].status \in {"pending", "scheduled", "processing"}

\* Mutant: the cron does not resend a job that was never started.
IsProcessable_NotPending(j) == job[j].status \in {"scheduled", "failed"}

\* The jobs the cron sends to the queue again.
IsProcessable(j) == job[j].status \in {"pending", "scheduled", "failed"}

Init ==
  /\ job = [j \in Job |-> NoJob]
  /\ covers = [j \in Job |-> [t \in DataTarget |-> {}]]
  /\ rows = FirstRows
  /\ marked = {}
  /\ objects = FirstRows
  /\ arrived = FirstRows
  /\ unpublished = {}
  /\ cron = [c \in Cron |-> "none"]
  /\ queue = [j \in Job |-> [n \in 0 .. MaxRetries |-> 0]]
  /\ pc = [w \in Worker |-> "idle"]
  /\ msg = [w \in Worker |-> NoMessage]
  /\ current = [w \in Worker |-> NoJob]
  /\ stage = [w \in Worker |-> "end"]
  /\ todo = [w \in Worker |-> {}]
  /\ last = [w \in Worker |-> 0]
  /\ audits = [j \in Job |-> 0]
  /\ faults = 0
  /\ crashes = 0

-----------------------------------------------------------------------------
(* Creation of jobs, and the cron.                                         *)

CreateJob(j, kind, target, status) ==
  /\ job[j] = NoJob
  /\ job' = [job EXCEPT ![j] =
       [status |-> status, kind |-> kind, target |-> target, cursor |-> 0]]
  /\ covers' = [covers EXCEPT ![j] = rows]
  /\ unpublished' = unpublished \union {j}

\* requestDeletion saves the job first ...
RequestDeletion(j, target) ==
  /\ CreateJob(j, "user_requested", target, "pending")
  /\ UNCHANGED <<cron, dataVars, queue, workerVars, audits, faults, crashes>>

\* scheduleRetentionJobs reads the active jobs and one expired row ...
FindDue(c, t) ==
  /\ cron[c] = "none"
  /\ ~\E j \in Job : IsActive(j, t)
  /\ rows[t] \intersect OldRows # {}
  /\ cron' = [cron EXCEPT ![c] = t]
  /\ UNCHANGED <<job, covers, unpublished, dataVars, queue, workerVars, audits, faults, crashes>>

\* ... and then saves a job of its own, whatever happened in between.
ScheduleRetention(c, j) ==
  /\ cron[c] # "none"
  /\ CreateJob(j, "retention", cron[c], "scheduled")
  /\ cron' = [cron EXCEPT ![c] = "none"]
  /\ UNCHANGED <<dataVars, queue, workerVars, audits, faults, crashes>>

\* ... and both then send it to the queue.
Publish(j) ==
  /\ j \in unpublished
  /\ unpublished' = unpublished \ {j}
  /\ queue' = [queue EXCEPT ![j][0] = @ + 1]
  /\ UNCHANGED <<job, covers, cron, dataVars, workerVars, audits, faults, crashes>>

PublishThrows(j) ==
  /\ j \in unpublished
  /\ faults < MaxFaults
  /\ faults' = faults + 1
  /\ unpublished' = unpublished \ {j}
  /\ UNCHANGED <<job, covers, cron, dataVars, queue, workerVars, audits, crashes>>

\* The cron sends every processable job again, each minute.
Requeue(j) ==
  /\ IsProcessable(j)
  /\ queue[j][0] < QueueCap
  /\ queue' = [queue EXCEPT ![j][0] = @ + 1]
  /\ UNCHANGED <<jobVars, dataVars, workerVars, audits, faults, crashes>>

\* Ingestion inserts a row and its object while jobs run.
Ingest(t, r) ==
  /\ r \in LateRows[t] \ arrived[t]
  /\ rows' = [rows EXCEPT ![t] = @ \union {r}]
  /\ objects' = [objects EXCEPT ![t] = @ \union {r}]
  /\ arrived' = [arrived EXCEPT ![t] = @ \union {r}]
  /\ UNCHANGED <<marked, jobVars, queue, workerVars, audits, faults, crashes>>

-----------------------------------------------------------------------------
(* The consumer.                                                           *)

Goto(w, label) == pc' = [pc EXCEPT ![w] = label]

\* An awaited call that took effect: its reply arrives, or the call throws.
Reply(w, label) ==
  \/ Goto(w, label) /\ UNCHANGED faults
  \/ faults < MaxFaults /\ faults' = faults + 1 /\ Goto(w, "catch")

Finish(w) ==
  /\ Goto(w, "idle")
  /\ msg' = [msg EXCEPT ![w] = NoMessage]
  /\ current' = [current EXCEPT ![w] = NoJob]
  /\ stage' = [stage EXCEPT ![w] = "end"]
  /\ todo' = [todo EXCEPT ![w] = {}]
  /\ last' = [last EXCEPT ![w] = 0]

\* message.retry(): back to the queue, or to the dead-letter queue.
Retry(w) ==
  LET m == msg[w] IN
  /\ Finish(w)
  /\ queue' = IF m.tries < MaxRetries
              THEN [queue EXCEPT ![m.job][m.tries + 1] = @ + 1]
              ELSE queue

\* Mutant: an acknowledgement that is not tied to a message.
AckCompleted_Twice(j, n) ==
  /\ job[j].status = "completed"
  /\ queue' = [queue EXCEPT ![j][n] = @ - 1]
  /\ UNCHANGED <<jobVars, dataVars, workerVars, audits, faults, crashes>>

\* A message for a job that is missing or already completed is acknowledged.
AckCompleted(j, n) ==
  /\ queue[j][n] > 0
  /\ job[j].status \in {"none", "completed"}
  /\ queue' = [queue EXCEPT ![j][n] = @ - 1]
  /\ UNCHANGED <<jobVars, dataVars, workerVars, audits, faults, crashes>>

\* Mutant: the early return for completed jobs is missing.
Receive_Completed(w, j, n) ==
  /\ pc[w] = "idle"
  /\ queue[j][n] > 0
  /\ job[j].status # "none"
  /\ queue' = [queue EXCEPT ![j][n] = @ - 1]
  /\ Goto(w, "begin")
  /\ msg' = [msg EXCEPT ![w] = [job |-> j, tries |-> n]]
  /\ current' = [current EXCEPT ![w] = [job[j] EXCEPT !.status = "processing"]]
  /\ UNCHANGED <<jobVars, dataVars, pageVars, audits, faults, crashes>>

\* processDeletionJob loads the job; what it read is never read again.
Receive(w, j, n) ==
  /\ pc[w] = "idle"
  /\ queue[j][n] > 0
  /\ job[j].status \notin {"none", "completed"}
  /\ queue' = [queue EXCEPT ![j][n] = @ - 1]
  /\ Goto(w, "begin")
  /\ msg' = [msg EXCEPT ![w] = [job |-> j, tries |-> n]]
  /\ current' = [current EXCEPT ![w] = [job[j] EXCEPT !.status = "processing"]]
  /\ UNCHANGED <<jobVars, dataVars, pageVars, audits, faults, crashes>>

SaveJob(w, row) == job' = [job EXCEPT ![msg[w].job] = row]

SaveProcessing(w) ==
  /\ pc[w] = "begin"
  /\ SaveJob(w, current[w])
  /\ \/ /\ Goto(w, "list")
        /\ stage' = [stage EXCEPT ![w] = FirstStage(current[w].target)]
        /\ UNCHANGED <<queue, msg, current, todo, last, faults>>
     \/ faults < MaxFaults /\ faults' = faults + 1 /\ Retry(w)
  /\ UNCHANGED <<covers, unpublished, cron, dataVars, audits, crashes>>

\* The save of "processing" is outside the try: a throw only retries.
BeginThrows(w) ==
  /\ pc[w] = "begin"
  /\ faults < MaxFaults
  /\ faults' = faults + 1
  /\ Retry(w)
  /\ UNCHANGED <<jobVars, dataVars, audits, crashes>>

\* Mutant: log rows are not marked "deleting" first.
EraseFrom_Unmarked(s) == "object"

\* Where the erasure of one row starts: only log rows are marked first.
EraseFrom(s) == IF s = "logs" THEN "mark" ELSE "object"

ListPage(w) ==
  /\ pc[w] = "list"
  /\ \E page \in SUBSET rows[stage[w]] : \E l \in page :
       /\ IsPage(page, stage[w], current[w].cursor)
       /\ \A r \in page : r <= l
       /\ todo' = [todo EXCEPT ![w] = page]
       /\ last' = [last EXCEPT ![w] = l]
  /\ Goto(w, EraseFrom(stage[w]))
  /\ UNCHANGED <<msg, current, stage, jobVars, dataVars, queue, audits, faults, crashes>>

ListEmpty(w) ==
  LET next == NextStage(current[w].target, stage[w]) IN
  /\ pc[w] = "list"
  /\ IsPage({}, stage[w], current[w].cursor)
  /\ stage' = [stage EXCEPT ![w] = next]
  /\ Goto(w, IF next = "end" THEN "complete" ELSE "list")
  /\ UNCHANGED <<msg, current, todo, last, jobVars, dataVars, queue, audits, faults, crashes>>

\* logChunks.save is an upsert: it inserts the row again if it is gone.
Mark(w, r) ==
  /\ pc[w] = "mark"
  /\ IsNext(w, r)
  /\ rows' = [rows EXCEPT !["logs"] = @ \union {r}]
  /\ marked' = marked \union {r}
  /\ Reply(w, "object")
  /\ UNCHANGED <<objects, arrived, msg, current, pageVars, jobVars, queue, audits, crashes>>

\* Mutant: the row goes, its object stays.
DeleteObject_Skipped(w, r) ==
  /\ pc[w] = "object"
  /\ IsNext(w, r)
  /\ Goto(w, "row")
  /\ UNCHANGED <<dataVars, msg, current, pageVars, jobVars, queue, audits, faults, crashes>>

DeleteObject(w, r) ==
  /\ pc[w] = "object"
  /\ IsNext(w, r)
  /\ objects' = [objects EXCEPT ![stage[w]] = @ \ {r}]
  /\ Reply(w, "row")
  /\ UNCHANGED <<rows, marked, arrived, msg, current, pageVars, jobVars, queue, audits, crashes>>

DeleteRow(w, r) ==
  LET rest == todo[w] \ {r} IN
  /\ pc[w] = "row"
  /\ IsNext(w, r)
  /\ rows' = [rows EXCEPT ![stage[w]] = @ \ {r}]
  /\ marked' = IF stage[w] = "logs" THEN marked \ {r} ELSE marked
  /\ todo' = [todo EXCEPT ![w] = rest]
  /\ Reply(w, IF rest = {} THEN "advance" ELSE EraseFrom(stage[w]))
  /\ UNCHANGED <<objects, arrived, msg, current, stage, last, jobVars, queue, audits, crashes>>

\* Mutant: the cursor is saved past the next row.
SaveCursor_OffByOne(w) ==
  /\ pc[w] = "advance"
  /\ SaveJob(w, [current[w] EXCEPT !.cursor = last[w] + 2])
  /\ Finish(w)
  /\ UNCHANGED <<covers, unpublished, cron, dataVars, queue, audits, faults, crashes>>

\* The page is done: the cursor is saved, the status stays "processing", and
\* the message is acknowledged although the job is not finished.
SaveCursor(w) ==
  /\ pc[w] = "advance"
  /\ SaveJob(w, [current[w] EXCEPT !.cursor = last[w]])
  /\ \/ Finish(w) /\ UNCHANGED faults
     \/ /\ faults < MaxFaults /\ faults' = faults + 1
        /\ Goto(w, "catch")
        /\ UNCHANGED <<msg, current, pageVars>>
  /\ UNCHANGED <<covers, unpublished, cron, dataVars, queue, audits, crashes>>

SaveCompleted(w) ==
  /\ pc[w] = "complete"
  /\ SaveJob(w, [current[w] EXCEPT !.status = "completed"])
  /\ Reply(w, "audit")
  /\ UNCHANGED <<msg, current, pageVars, covers, unpublished, cron, dataVars, queue, audits, crashes>>

AppendAudit(w) ==
  /\ pc[w] = "audit"
  /\ audits' = [audits EXCEPT ![msg[w].job] = @ + 1]
  /\ \/ Finish(w) /\ UNCHANGED faults
     \/ /\ faults < MaxFaults /\ faults' = faults + 1
        /\ Goto(w, "catch")
        /\ UNCHANGED <<msg, current, pageVars>>
  /\ UNCHANGED <<jobVars, dataVars, queue, crashes>>

\* A call inside the try throws without having taken effect.
Throws(w) ==
  /\ pc[w] \in {"list", "mark", "object", "row", "advance", "complete", "audit"}
  /\ faults < MaxFaults
  /\ faults' = faults + 1
  /\ Goto(w, "catch")
  /\ UNCHANGED <<msg, current, pageVars, jobVars, dataVars, queue, audits, crashes>>

\* Mutant: the error is not recorded.
SaveFailed_Silent(w) ==
  /\ pc[w] = "catch"
  /\ Retry(w)
  /\ UNCHANGED <<jobVars, dataVars, audits, faults, crashes>>

\* The catch block saves what the consumer read at its start, cursor included.
SaveFailed(w) ==
  /\ pc[w] = "catch"
  /\ SaveJob(w, [current[w] EXCEPT !.status = "failed"])
  /\ Retry(w)
  /\ UNCHANGED <<covers, unpublished, cron, dataVars, audits, faults, crashes>>

CatchThrows(w) ==
  /\ pc[w] = "catch"
  /\ faults < MaxFaults
  /\ faults' = faults + 1
  /\ Retry(w)
  /\ UNCHANGED <<jobVars, dataVars, audits, crashes>>

\* The isolate is killed; the queue delivers the message again.
Crash(w) ==
  /\ pc[w] # "idle"
  /\ crashes < MaxCrashes
  /\ crashes' = crashes + 1
  /\ Retry(w)
  /\ UNCHANGED <<jobVars, dataVars, audits, faults>>

Work(w) ==
  \/ SaveProcessing(w) \/ ListPage(w) \/ ListEmpty(w)
  \/ \E r \in todo[w] : Mark(w, r) \/ DeleteObject(w, r) \/ DeleteRow(w, r)
  \/ SaveCursor(w) \/ SaveCompleted(w) \/ AppendAudit(w) \/ SaveFailed(w)

Next ==
  \/ \E j \in Job, t \in RequestTargets : RequestDeletion(j, t)
  \/ \E c \in Cron, t \in DataTarget : FindDue(c, t)
  \/ \E c \in Cron, j \in Job : ScheduleRetention(c, j)
  \/ \E j \in Job : Publish(j) \/ PublishThrows(j) \/ Requeue(j)
  \/ \E t \in DataTarget : \E r \in LateRows[t] : Ingest(t, r)
  \/ \E j \in Job, n \in 0 .. MaxRetries : AckCompleted(j, n)
  \/ \E w \in Worker, j \in Job, n \in 0 .. MaxRetries : Receive(w, j, n)
  \/ \E w \in Worker :
       Work(w) \/ BeginThrows(w) \/ Throws(w) \/ CatchThrows(w) \/ Crash(w)

Spec == Init /\ [][Next]_vars

\* The queue delivers every message, every call returns or throws, and the
\* cron runs every minute.
Fairness ==
  /\ \A w \in Worker : WF_vars(Work(w))
  /\ \A j \in Job, n \in 0 .. MaxRetries :
       /\ SF_vars(\E w \in Worker : Receive(w, j, n))
       /\ SF_vars(AckCompleted(j, n))
  /\ \A j \in Job : WF_vars(Requeue(j))

FairSpec == Spec /\ Fairness

-----------------------------------------------------------------------------
(* Properties.                                                             *)

\* Type correctness of the jobs, the stores, the queue and the consumers.
JobsOK ==
  /\ job \in [Job -> JobRow \union {NoJob}]
  /\ covers \in [Job -> [DataTarget -> SUBSET RowId]]
  /\ unpublished \in SUBSET Job
  /\ cron \in [Cron -> DataTarget \union {"none"}]

DataOK ==
  /\ rows \in [DataTarget -> SUBSET RowId]
  /\ marked \in SUBSET RowId
  /\ objects \in [DataTarget -> SUBSET RowId]
  /\ arrived \in [DataTarget -> SUBSET RowId]

QueueOK == queue \in [Job -> [0 .. MaxRetries -> Nat]]

ConsumersOK ==
  /\ pc \in [Worker -> Label]
  /\ msg \in [Worker -> Message \union {NoMessage}]
  /\ current \in [Worker -> JobRow \union {NoJob}]
  /\ stage \in [Worker -> Stage]
  /\ todo \in [Worker -> SUBSET RowId]
  /\ last \in [Worker -> Nat]

CountersOK == audits \in [Job -> Nat] /\ faults \in Nat /\ crashes \in Nat

TypeOK == JobsOK /\ DataOK /\ QueueOK /\ ConsumersOK /\ CountersOK

\* An R2 object is never left without the metadata row that names it, with
\* any number of consumers on the same rows, throws and crashes
\* (process.ts deletes the object before the row; DELETION.md forbids the
\* other order).
NoOrphanObject == \A t \in DataTarget : objects[t] \subseteq rows[t]

\* A log row that queries may still read, because no consumer has marked it
\* "deleting", has its object (the mark comes before the object's deletion).
ReadableLogHasObject == rows["logs"] \ marked \subseteq objects["logs"]

\* A job's cursor never passes a row that the job was created to erase and
\* that is still there: a resumed job skips nothing.
CursorSkipsNothing(t) ==
  \A j \in Job : job[j].target = t =>
    \A r \in covers[j][t] \intersect rows[t] : r > job[j].cursor

\* The consumers of metric and trace jobs may overlap without the cursor
\* passing a row, because only the log block can insert a row again.
UnmarkedCursorSound == \A t \in {"metrics", "traces"} : CursorSkipsNothing(t)

\* Log jobs keep a sound cursor as long as consumers do not overlap.
LogCursorSound == CursorSkipsNothing("logs")

\* When a job is completed, every row of its target that existed at its
\* creation is gone.
Erased(j, t) == covers[j][t] \intersect rows[t] = {}
UnmarkedCompletedErased ==
  \A j \in Job, t \in {"metrics", "traces"} :
    job[j].status = "completed" /\ job[j].target = t => Erased(j, t)

\* A metric or trace job skips nothing and completes only when all is erased,
\* however many consumers work on it (deletePage: page, cursor, completion).
UnmarkedErasure == UnmarkedCursorSound /\ UnmarkedCompletedErased

\* The same for the logs, which a job with target "all" erases first, as long
\* as consumers do not overlap.
LogCompletedErased ==
  \A j \in Job :
    job[j].status = "completed" /\ job[j].target \in {"logs", "all"} => Erased(j, "logs")

\* A log job, or the logs of a job for all targets, after a crash at any step:
\* it skips nothing and completes only when all is erased.
LogErasure == LogCursorSound /\ LogCompletedErased

\* A completed job has its DELETION_COMPLETED record once no consumer is at
\* work on it (DELETION.md, step 5 of the worker protocol).  A consumer killed
\* between the two, or one whose catch block throws too, never writes it: a
\* later delivery sees a completed job.
CompletedIsAudited ==
  crashes = 0 /\ faults <= 1 =>
    \A j \in Job : job[j].status = "completed" /\ (\A w \in Worker : msg[w].job # j)
      => audits[j] > 0

\* "completed" is final, as long as consumers do not overlap: no stale save by
\* the cron or a consumer takes it back (DELETION.md, job states).  Only a throw
\* of the audit record does, which makes the job failed.
CompletedIsFinal ==
  [][\A j \in Job : job[j].status = "completed" /\ faults = 0 /\ faults' = 0
       => job'[j].status = "completed"]_vars

\* At most one retention job per target is in flight (RETENTION.md).  A failed
\* one is not in flight, so a job that failed may be taken up again beside its
\* successor.
OneRetentionInFlight ==
  faults = 0 =>
    \A i, j \in {k \in Job : /\ job[k].kind = "retention"
                            /\ job[k].status \notin {"completed", "failed"}} :
      job[i].target = job[j].target => i = j

\* A retention job erases only rows older than the retention period.
RetentionErasesOnlyExpired ==
  \A w \in Worker : current[w].kind = "retention" => todo[w] \subseteq OldRows

\* Every job that was created gets at least one page erased, or completes,
\* even if its request died before sending it to the queue.  A message that
\* is dead-lettered may leave its job "processing", which nothing sends again.
MakesProgress ==
  \A j \in Job : job[j] # NoJob ~>
    job[j].cursor > 0 \/ job[j].status = "completed" \/ faults > MaxRetries

\* A failed job is taken up again although its message may be in the
\* dead-letter queue (DLQ.md: listProcessable re-enqueues failed jobs).
FailedIsRetried ==
  \A j \in Job : job[j].status = "failed" ~> job[j].status # "failed"

\* No job is forgotten before its first page, and none stays failed.
JobsGoOn == MakesProgress /\ FailedIsRetried

\* Jobs are resumable: one that was created is eventually completed.
JobCompletes ==
  \A j \in Job : job[j] # NoJob ~> job[j].status = "completed"
=============================================================================
