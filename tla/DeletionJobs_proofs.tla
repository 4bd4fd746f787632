------------------------ MODULE DeletionJobs_proofs ------------------------
(* Theorems about DeletionJobs for every number of jobs, consumers, crons, *)
(* rows, retries and faults.                                               *)
EXTENDS DeletionJobs, FiniteSetTheorems, TLAPS

Busy(w) == pc[w] # "idle"

\* What a consumer holds while it is at work; TypeOK needs it to be inductive.
WorkerOK ==
  \A w \in Worker :
    /\ Busy(w) => msg[w] \in Message /\ current[w] \in JobRow
    /\ pc[w] \in {"list", "mark", "object", "row", "advance"} => stage[w] \in DataTarget

TypeInv == TypeOK /\ WorkerOK

LEMMA InitType == Init => TypeInv
<1> SUFFICES ASSUME Init PROVE TypeInv
  OBVIOUS
<1>1. JobsOK /\ CountersOK
  BY DEF Init, JobsOK, CountersOK, NoJob
<1>2. DataOK /\ QueueOK
  BY RowsAssumption DEF Init, DataOK, QueueOK
<1>3. ConsumersOK /\ WorkerOK
  BY DEF Init, ConsumersOK, WorkerOK, Busy, Stage, Label
<1>4. QED
  BY <1>1, <1>2, <1>3 DEF TypeInv, TypeOK

LEMMA QueueCount ==
  ASSUME QueueOK, NEW j \in Job, NEW n \in 0 .. MaxRetries
  PROVE  queue[j][n] \in Nat
<1>1. queue[j] \in [0 .. MaxRetries -> Nat]
  BY DEF QueueOK
<1>2. QED
  BY <1>1

LEMMA QueueUpdate ==
  ASSUME QueueOK, NEW j \in Job, NEW n \in 0 .. MaxRetries, NEW k \in Nat,
         queue' = [queue EXCEPT ![j][n] = k]
  PROVE  QueueOK'
<1>1. [queue[j] EXCEPT ![n] = k] \in [0 .. MaxRetries -> Nat]
  BY DEF QueueOK
<1>2. QED
  BY <1>1 DEF QueueOK

\* Moving one consumer's control point keeps its type.
LEMMA GotoType ==
  ASSUME ConsumersOK, NEW w \in Worker, NEW l \in Label, Goto(w, l)
  PROVE  /\ pc' \in [Worker -> Label] /\ pc'[w] = l
         /\ \A v \in Worker \ {w} : pc'[v] = pc[v]
  BY DEF ConsumersOK, Goto

LEMMA ReplyType ==
  ASSUME ConsumersOK, faults \in Nat, NEW w \in Worker, NEW l \in Label, Reply(w, l)
  PROVE  /\ pc' \in [Worker -> Label] /\ pc'[w] \in {l, "catch"}
         /\ \A v \in Worker \ {w} : pc'[v] = pc[v]
         /\ faults' \in Nat
<1>1. "catch" \in Label
  BY DEF Label
<1>2. QED
  BY <1>1, GotoType DEF Reply

LEMMA FinishType ==
  ASSUME ConsumersOK, WorkerOK, NEW w \in Worker, Finish(w)
  PROVE  ConsumersOK' /\ WorkerOK' /\ pc'[w] = "idle"
<1>1. ConsumersOK' /\ pc'[w] = "idle"
  BY DEF ConsumersOK, Finish, Goto, Stage, Label
<1>2. \A v \in Worker \ {w} : /\ pc'[v] = pc[v] /\ msg'[v] = msg[v]
                              /\ current'[v] = current[v] /\ stage'[v] = stage[v]
  BY DEF ConsumersOK, Finish, Goto
<1>3. QED
  BY <1>1, <1>2 DEF WorkerOK, Busy

LEMMA RetryType ==
  ASSUME TypeInv, NEW w \in Worker, Busy(w), Retry(w)
  PROVE  ConsumersOK' /\ WorkerOK' /\ QueueOK'
<1>1. msg[w].job \in Job /\ msg[w].tries \in 0 .. MaxRetries
  BY DEF TypeInv, WorkerOK, Message
<1>2. QueueOK'
  <2>1. CASE msg[w].tries < MaxRetries
    <3>1. msg[w].tries + 1 \in 0 .. MaxRetries
      BY <1>1, <2>1, BoundsAssumption
    <3>2. queue[msg[w].job][msg[w].tries + 1] + 1 \in Nat
      BY <1>1, <3>1, QueueCount DEF TypeInv, TypeOK
    <3>3. queue' = [queue EXCEPT ![msg[w].job][msg[w].tries + 1] =
                      queue[msg[w].job][msg[w].tries + 1] + 1]
      BY <2>1 DEF Retry
    <3>4. QED
      BY <1>1, <2>1, <3>1, <3>2, <3>3, QueueUpdate DEF TypeInv, TypeOK
  <2>2. CASE ~(msg[w].tries < MaxRetries)
    BY <2>2 DEF TypeInv, TypeOK, Retry, QueueOK
  <2>3. QED
    BY <2>1, <2>2
<1>3. QED
  BY <1>2, FinishType DEF TypeInv, TypeOK, Retry

LEMMA CreateJobType ==
  ASSUME JobsOK, DataOK, NEW j \in Job, NEW k \in Kind, NEW t \in Target, NEW s \in Status,
         CreateJob(j, k, t, s), cron' \in [Cron -> DataTarget \union {"none"}]
  PROVE  JobsOK'
  BY DEF JobsOK, DataOK, CreateJob, JobRow

LEMMA SaveJobType ==
  ASSUME JobsOK, NEW w \in Worker, NEW row \in JobRow, SaveJob(w, row),
         UNCHANGED <<covers, unpublished, cron>>
  PROVE  JobsOK'
  BY DEF JobsOK, SaveJob

\* The saves of the consumer write rows of the right type.
LEMMA SavedRowType ==
  ASSUME TypeInv, NEW w \in Worker, Busy(w)
  PROVE  /\ current[w] \in JobRow
         /\ [current[w] EXCEPT !.cursor = last[w]] \in JobRow
         /\ \A s \in Status : [current[w] EXCEPT !.status = s] \in JobRow
<1>1. current[w] \in JobRow /\ last[w] \in Nat
  BY DEF TypeInv, TypeOK, ConsumersOK, WorkerOK
<1>2. QED
  BY <1>1 DEF JobRow

LEMMA StepType == TypeInv /\ [Next]_vars => TypeInv'
<1> SUFFICES ASSUME TypeInv, [Next]_vars PROVE TypeInv'
  OBVIOUS
<1>a. JobsOK /\ DataOK /\ QueueOK /\ ConsumersOK /\ CountersOK /\ WorkerOK
  BY DEF TypeInv, TypeOK
<1>b. (JobsOK /\ DataOK /\ QueueOK /\ ConsumersOK /\ CountersOK /\ WorkerOK)' => TypeInv'
  BY DEF TypeInv, TypeOK
\* What leaves the variables of a group alone preserves the group's type.
<1>c. UNCHANGED jobVars => JobsOK'
  BY <1>a DEF JobsOK, jobVars
<1>d. UNCHANGED dataVars => DataOK'
  BY <1>a DEF DataOK, dataVars
<1>e. UNCHANGED queue => QueueOK'
  BY <1>a DEF QueueOK
<1>f. UNCHANGED workerVars => ConsumersOK' /\ WorkerOK'
  BY <1>a DEF ConsumersOK, WorkerOK, Busy, workerVars, pageVars
<1>g. UNCHANGED <<audits, faults, crashes>> => CountersOK'
  BY <1>a DEF CountersOK
<1>h. UNCHANGED <<audits, crashes>> /\ faults' = faults + 1 => CountersOK'
  BY <1>a DEF CountersOK
<1>1. ASSUME NEW j \in Job, NEW t \in RequestTargets, RequestDeletion(j, t)
      PROVE  TypeInv'
  <2>1. JobsOK'
    <3>1. "user_requested" \in Kind /\ "pending" \in Status /\ t \in Target
      BY TargetsAssumption DEF Kind, Status
    <3>2. QED
      BY <1>1, <1>a, <3>1, CreateJobType DEF RequestDeletion, JobsOK
  <2>2. QED
    BY <1>1, <1>b, <1>d, <1>e, <1>f, <1>g, <2>1 DEF RequestDeletion
<1>2. ASSUME NEW c \in Cron, NEW t \in DataTarget, FindDue(c, t)
      PROVE  TypeInv'
  <2>1. JobsOK'
    BY <1>2, <1>a DEF FindDue, JobsOK
  <2>2. QED
    BY <1>2, <1>b, <1>d, <1>e, <1>f, <1>g, <2>1 DEF FindDue
<1>3. ASSUME NEW c \in Cron, NEW j \in Job, ScheduleRetention(c, j)
      PROVE  TypeInv'
  <2>1. JobsOK'
    <3>1. "retention" \in Kind /\ "scheduled" \in Status /\ cron[c] \in Target
      BY <1>3, <1>a DEF ScheduleRetention, JobsOK, Kind, Status, Target
    <3>2. cron' \in [Cron -> DataTarget \union {"none"}]
      BY <1>3, <1>a DEF ScheduleRetention, JobsOK
    <3>3. QED
      BY <1>3, <1>a, <3>1, <3>2, CreateJobType DEF ScheduleRetention
  <2>2. QED
    BY <1>3, <1>b, <1>d, <1>e, <1>f, <1>g, <2>1 DEF ScheduleRetention
<1>4. ASSUME NEW j \in Job, Publish(j) \/ PublishThrows(j) \/ Requeue(j)
      PROVE  TypeInv'
  <2>1. 0 \in 0 .. MaxRetries /\ queue[j][0] + 1 \in Nat
    BY <1>a, BoundsAssumption DEF QueueOK
  <2>2. QueueOK'
    <3>1. ASSUME queue' = [queue EXCEPT ![j][0] = queue[j][0] + 1] PROVE QueueOK'
      BY <1>a, <2>1, <3>1, QueueUpdate
    <3>2. QED
      BY <1>4, <1>e, <3>1 DEF Publish, PublishThrows, Requeue
  <2>3. JobsOK'
    BY <1>4, <1>a DEF Publish, PublishThrows, Requeue, JobsOK, jobVars
  <2>4. CountersOK'
    BY <1>4, <1>g, <1>h DEF Publish, PublishThrows, Requeue
  <2>5. QED
    BY <1>4, <1>b, <1>d, <1>f, <2>2, <2>3, <2>4 DEF Publish, PublishThrows, Requeue
<1>5. ASSUME NEW t \in DataTarget, NEW r \in LateRows[t], Ingest(t, r)
      PROVE  TypeInv'
  <2>1. r \in RowId
    BY RowsAssumption
  <2>2. DataOK'
    BY <1>5, <1>a, <2>1 DEF Ingest, DataOK
  <2>3. QED
    BY <1>5, <1>b, <1>c, <1>e, <1>f, <1>g, <2>2 DEF Ingest
<1>6. ASSUME NEW j \in Job, NEW n \in 0 .. MaxRetries, AckCompleted(j, n)
      PROVE  TypeInv'
  <2>1. queue[j][n] - 1 \in Nat
    BY <1>6, <1>a, QueueCount DEF AckCompleted
  <2>2. queue' = [queue EXCEPT ![j][n] = queue[j][n] - 1]
    BY <1>6 DEF AckCompleted
  <2>3. QueueOK'
    BY <1>a, <2>1, <2>2, QueueUpdate
  <2>4. QED
    BY <1>6, <1>b, <1>c, <1>d, <1>f, <1>g, <2>3 DEF AckCompleted
<1>7. ASSUME NEW w \in Worker, NEW j \in Job, NEW n \in 0 .. MaxRetries, Receive(w, j, n)
      PROVE  TypeInv'
  <2>1. queue[j][n] - 1 \in Nat
    BY <1>7, <1>a, QueueCount DEF Receive
  <2>2. queue' = [queue EXCEPT ![j][n] = queue[j][n] - 1]
    BY <1>7 DEF Receive
  <2>3. QueueOK'
    BY <1>a, <2>1, <2>2, QueueUpdate
  <2>4. [job[j] EXCEPT !.status = "processing"] \in JobRow
    <3>1. job[j] \in JobRow
      BY <1>7, <1>a DEF Receive, JobsOK, NoJob
    <3>2. QED
      BY <3>1 DEF JobRow, Status
  <2>5. [job |-> j, tries |-> n] \in Message
    BY DEF Message
  <2>6. ConsumersOK' /\ WorkerOK'
    BY <1>7, <1>a, <2>4, <2>5 DEF Receive, Goto, ConsumersOK, WorkerOK, Busy, Label, pageVars
  <2>7. QED
    BY <1>7, <1>b, <1>c, <1>d, <1>g, <2>3, <2>6 DEF Receive
<1>8. ASSUME NEW w \in Worker, SaveProcessing(w) PROVE TypeInv'
  <2>1. Busy(w)
    BY <1>8 DEF SaveProcessing, Busy
  <2>2. JobsOK'
    BY <1>8, <1>a, <2>1, SavedRowType, SaveJobType DEF SaveProcessing
  <2>3. CASE Goto(w, "list") /\ UNCHANGED faults
    <3>1. FirstStage(current[w].target) \in DataTarget
      BY <2>1, SavedRowType DEF JobRow, Target, FirstStage, DataTarget
    <3>2. ConsumersOK' /\ WorkerOK' /\ UNCHANGED queue
      BY <1>8, <1>a, <2>3, <3>1
      DEF SaveProcessing, Retry, Finish, Goto, ConsumersOK, WorkerOK, Busy, Stage, Label
    <3>3. QED
      BY <1>8, <1>b, <1>d, <1>e, <1>g, <2>2, <2>3, <3>2 DEF SaveProcessing
  <2>4. CASE Retry(w) /\ faults' = faults + 1
    BY <1>8, <1>b, <1>d, <1>h, <2>1, <2>2, <2>4, RetryType DEF SaveProcessing
  <2>5. QED
    BY <1>8, <2>3, <2>4 DEF SaveProcessing
<1>9. ASSUME NEW w \in Worker, ListPage(w) \/ ListEmpty(w) PROVE TypeInv'
  <2>1. NextStage(current[w].target, stage[w]) \in Stage
    BY DEF NextStage, Stage, DataTarget
  <2>2. CASE ListPage(w)
    <3>1. todo' \in [Worker -> SUBSET RowId] /\ last' \in [Worker -> Nat]
      BY <1>a, <2>2, RowIdAssumption DEF ListPage, ConsumersOK, WorkerOK, DataOK
    <3>2. ConsumersOK' /\ WorkerOK'
      BY <1>a, <2>2, <3>1 DEF ListPage, EraseFrom, Goto, ConsumersOK, WorkerOK, Busy, Label
    <3>3. QED
      BY <1>b, <1>c, <1>d, <1>e, <1>g, <2>2, <3>2 DEF ListPage
  <2>3. CASE ListEmpty(w)
    <3>1. ConsumersOK' /\ WorkerOK'
      BY <1>a, <2>1, <2>3
      DEF ListEmpty, Goto, ConsumersOK, WorkerOK, Busy, Label, Stage
    <3>2. QED
      BY <1>b, <1>c, <1>d, <1>e, <1>g, <2>3, <3>1 DEF ListEmpty
  <2>4. QED
    BY <1>9, <2>2, <2>3
<1>10. ASSUME NEW w \in Worker, NEW r \in todo[w],
              Mark(w, r) \/ DeleteObject(w, r) \/ DeleteRow(w, r)
       PROVE  TypeInv'
  <2>1. r \in RowId
    BY <1>a DEF ConsumersOK
  <2>2. DataOK'
    BY <1>10, <1>a, <2>1 DEF Mark, DeleteObject, DeleteRow, DataOK, DataTarget
  <2>3. /\ pc' \in [Worker -> Label] /\ pc[w] \in {"mark", "object", "row"}
        /\ pc'[w] \in {"mark", "object", "row", "advance", "catch"}
        /\ \A v \in Worker \ {w} : pc'[v] = pc[v]
        /\ CountersOK'
    <3>1. {"mark", "object", "row", "advance"} \subseteq Label /\ faults \in Nat
      BY <1>a DEF Label, CountersOK
    <3>2. \E l \in {"mark", "object", "row", "advance"} : Reply(w, l)
      BY <1>10 DEF Mark, DeleteObject, DeleteRow, EraseFrom
    <3>3. PICK l \in {"mark", "object", "row", "advance"} : Reply(w, l)
      BY <3>2
    <3>4. /\ pc' \in [Worker -> Label] /\ pc'[w] \in {l, "catch"} /\ faults' \in Nat
          /\ \A v \in Worker \ {w} : pc'[v] = pc[v]
      BY <1>a, <3>1, <3>3, ReplyType
    <3>5. UNCHANGED <<audits, crashes>> /\ pc[w] \in {"mark", "object", "row"}
      BY <1>10 DEF Mark, DeleteObject, DeleteRow
    <3>6. QED
      BY <1>a, <3>4, <3>5 DEF CountersOK
  <2>4. todo' \in [Worker -> SUBSET RowId] /\ UNCHANGED <<msg, current, stage, last>>
    BY <1>10, <1>a DEF Mark, DeleteObject, DeleteRow, ConsumersOK, pageVars
  <2>5. ConsumersOK' /\ WorkerOK'
    BY <1>a, <2>3, <2>4 DEF ConsumersOK, WorkerOK, Busy
  <2>6. QED
    BY <1>10, <1>b, <1>c, <1>e, <2>2, <2>3, <2>5 DEF Mark, DeleteObject, DeleteRow
<1>11. ASSUME NEW w \in Worker, SaveCursor(w) PROVE TypeInv'
  <2>1. Busy(w)
    BY <1>11 DEF SaveCursor, Busy
  <2>2. JobsOK'
    BY <1>11, <1>a, <2>1, SavedRowType, SaveJobType DEF SaveCursor
  <2>3. CASE Finish(w) /\ UNCHANGED faults
    BY <1>11, <1>a, <1>b, <1>d, <1>e, <1>g, <2>2, <2>3, FinishType DEF SaveCursor
  <2>4. CASE Goto(w, "catch") /\ faults' = faults + 1 /\ UNCHANGED <<msg, current, pageVars>>
    <3>1. ConsumersOK' /\ WorkerOK'
      BY <1>a, <2>1, <2>4 DEF Goto, ConsumersOK, WorkerOK, Busy, Label, pageVars
    <3>2. QED
      BY <1>11, <1>b, <1>d, <1>e, <1>h, <2>2, <2>4, <3>1 DEF SaveCursor
  <2>5. QED
    BY <1>11, <2>3, <2>4 DEF SaveCursor
<1>12. ASSUME NEW w \in Worker, SaveCompleted(w) PROVE TypeInv'
  <2>1. Busy(w) /\ "completed" \in Status /\ "audit" \in Label /\ faults \in Nat
    BY <1>12, <1>a DEF SaveCompleted, Busy, Status, Label, CountersOK
  <2>2. JobsOK'
    BY <1>12, <1>a, <2>1, SavedRowType, SaveJobType DEF SaveCompleted
  <2>3. /\ pc' \in [Worker -> Label] /\ pc'[w] \in {"audit", "catch"} /\ faults' \in Nat
        /\ \A v \in Worker \ {w} : pc'[v] = pc[v]
    BY <1>12, <1>a, <2>1, ReplyType DEF SaveCompleted
  <2>4. ConsumersOK' /\ WorkerOK' /\ CountersOK'
    BY <1>12, <1>a, <2>1, <2>3
    DEF SaveCompleted, ConsumersOK, WorkerOK, CountersOK, Busy, pageVars
  <2>5. QED
    BY <1>12, <1>b, <1>d, <1>e, <2>2, <2>4 DEF SaveCompleted
<1>13. ASSUME NEW w \in Worker, AppendAudit(w) PROVE TypeInv'
  <2>1. CountersOK'
    <3>1. msg[w].job \in Job
      BY <1>13, <1>a DEF AppendAudit, WorkerOK, Busy, Message
    <3>2. audits' \in [Job -> Nat]
      BY <1>13, <1>a, <3>1 DEF AppendAudit, CountersOK
    <3>3. faults' \in Nat /\ UNCHANGED crashes
      BY <1>13, <1>a DEF AppendAudit, CountersOK
    <3>4. QED
      BY <1>a, <3>2, <3>3 DEF CountersOK
  <2>2. ConsumersOK' /\ WorkerOK'
    <3>1. CASE Finish(w)
      BY <1>a, <3>1, FinishType
    <3>2. CASE Goto(w, "catch") /\ UNCHANGED <<msg, current, pageVars>>
      BY <1>13, <1>a, <3>2
      DEF AppendAudit, Goto, ConsumersOK, WorkerOK, Busy, Label, pageVars
    <3>3. QED
      BY <1>13, <3>1, <3>2 DEF AppendAudit
  <2>3. QED
    BY <1>13, <1>b, <1>c, <1>d, <1>e, <2>1, <2>2 DEF AppendAudit
<1>14. ASSUME NEW w \in Worker, SaveFailed(w) PROVE TypeInv'
  <2>1. Busy(w) /\ "failed" \in Status
    BY <1>14 DEF SaveFailed, Busy, Status
  <2>2. JobsOK'
    BY <1>14, <1>a, <2>1, SavedRowType, SaveJobType DEF SaveFailed
  <2>3. QED
    BY <1>14, <1>b, <1>d, <1>g, <2>1, <2>2, RetryType DEF SaveFailed
<1>15. ASSUME NEW w \in Worker, BeginThrows(w) \/ CatchThrows(w) \/ Crash(w) PROVE TypeInv'
  <2>1. Busy(w) /\ Retry(w)
    BY <1>15 DEF BeginThrows, CatchThrows, Crash, Busy
  <2>2. CountersOK'
    BY <1>15, <1>a DEF BeginThrows, CatchThrows, Crash, CountersOK
  <2>3. QED
    BY <1>15, <1>b, <1>c, <1>d, <2>1, <2>2, RetryType DEF BeginThrows, CatchThrows, Crash
<1>16. ASSUME NEW w \in Worker, Throws(w) PROVE TypeInv'
  <2>1. ConsumersOK' /\ WorkerOK'
    BY <1>16, <1>a DEF Throws, Goto, ConsumersOK, WorkerOK, Busy, Label, pageVars
  <2>2. QED
    BY <1>16, <1>b, <1>c, <1>d, <1>e, <1>h, <2>1 DEF Throws
<1>17. CASE UNCHANGED vars
  BY <1>17, <1>b, <1>c, <1>d, <1>e, <1>f, <1>g DEF vars
<1>18. QED
  BY <1>1, <1>2, <1>3, <1>4, <1>5, <1>6, <1>7, <1>8, <1>9, <1>10, <1>11, <1>12,
     <1>13, <1>14, <1>15, <1>16, <1>17 DEF Next, Work

LEMMA TypeInvariant == Spec => []TypeInv
  BY InitType, StepType, PTL DEF Spec

\* The jobs, the stores, the queue and the consumers keep their types.
THEOREM TypeCorrect == Spec => []TypeOK
<1>1. TypeInv => TypeOK
  BY DEF TypeInv
<1>2. QED
  BY <1>1, TypeInvariant, PTL

-----------------------------------------------------------------------------
(* No orphan objects.  The invariant adds what a consumer knows between    *)
(* deleting an object and deleting its row: the row it is about to delete  *)
(* has no object, and no one can give it one, because ids are not reused.  *)

ObjectInv ==
  /\ \A t \in DataTarget : objects[t] \subseteq rows[t] /\ rows[t] \subseteq arrived[t]
  /\ \A w \in Worker :
       /\ pc[w] \in {"mark", "object", "row"} => todo[w] \subseteq arrived[stage[w]]
       /\ pc[w] = "mark" => stage[w] = "logs"
       /\ pc[w] = "row" => \A r \in todo[w] : IsNext(w, r) => r \notin objects[stage[w]]

LEMMA InitObject == Init => ObjectInv
  BY DEF Init, ObjectInv

\* A step that leaves the stores alone and changes only consumers that are
\* not erasing afterwards preserves ObjectInv.
LEMMA ObjectFrame ==
  ASSUME ObjectInv, UNCHANGED dataVars,
         \A v \in Worker : \/ pc'[v] \notin {"mark", "object", "row"}
                           \/ pc'[v] = pc[v] /\ todo'[v] = todo[v] /\ stage'[v] = stage[v]
  PROVE  ObjectInv'
  BY DEF ObjectInv, dataVars, IsNext

LEMMA StepObject == ObjectInv /\ TypeInv /\ [Next]_vars => ObjectInv'
<1> SUFFICES ASSUME ObjectInv, TypeInv, [Next]_vars PROVE ObjectInv'
  OBVIOUS
<1>a. DataOK /\ ConsumersOK /\ WorkerOK
  BY DEF TypeInv, TypeOK
<1>b. UNCHANGED dataVars /\ UNCHANGED workerVars => ObjectInv'
  BY ObjectFrame DEF workerVars, pageVars
<1>c. ASSUME NEW w \in Worker, UNCHANGED dataVars, Finish(w) PROVE ObjectInv'
  <2>1. pc'[w] = "idle" /\ \A v \in Worker \ {w} :
          pc'[v] = pc[v] /\ todo'[v] = todo[v] /\ stage'[v] = stage[v]
    BY <1>a, <1>c DEF Finish, Goto, ConsumersOK
  <2>2. QED
    BY <1>c, <2>1, ObjectFrame
<1>d. ASSUME NEW w \in Worker, NEW l \in {"list", "advance", "complete", "audit", "catch", "begin"},
             UNCHANGED dataVars, Goto(w, l),
             \A v \in Worker \ {w} : todo'[v] = todo[v] /\ stage'[v] = stage[v]
      PROVE  ObjectInv'
  <2>1. pc'[w] = l /\ \A v \in Worker \ {w} : pc'[v] = pc[v]
    BY <1>a, <1>d DEF Goto, ConsumersOK
  <2>2. QED
    BY <1>d, <2>1, ObjectFrame
<1>1. ASSUME NEW t \in DataTarget, NEW r \in LateRows[t], Ingest(t, r)
      PROVE  ObjectInv'
  <2>1. \A s \in DataTarget : objects'[s] \subseteq rows'[s] /\ rows'[s] \subseteq arrived'[s]
    BY <1>1, <1>a DEF Ingest, ObjectInv, DataOK
  <2>2. ASSUME NEW w \in Worker
        PROVE  /\ pc[w] \in {"mark", "object", "row"} => todo[w] \subseteq arrived'[stage[w]]
               /\ pc[w] = "row" => \A q \in todo[w] : IsNext(w, q) => q \notin objects'[stage[w]]
    <3>1. pc[w] \in {"mark", "object", "row"} => stage[w] \in DataTarget
      BY <1>a DEF WorkerOK
    <3>2. QED
      BY <1>1, <1>a, <3>1 DEF Ingest, ObjectInv, DataOK
  <2>3. QED
    BY <1>1, <2>1, <2>2 DEF Ingest, ObjectInv, IsNext, workerVars, pageVars
<1>2. ASSUME NEW w \in Worker, NEW j \in Job, NEW n \in 0 .. MaxRetries, Receive(w, j, n)
      PROVE  ObjectInv'
  BY <1>2, <1>d DEF Receive, pageVars
<1>3. ASSUME NEW w \in Worker, SaveProcessing(w) PROVE ObjectInv'
  <2>1. CASE Retry(w)
    BY <1>3, <1>c, <2>1 DEF SaveProcessing, Retry
  <2>2. CASE ~Retry(w)
    BY <1>3, <1>a, <1>d, <2>2 DEF SaveProcessing, ConsumersOK
  <2>3. QED
    BY <2>1, <2>2
<1>4. ASSUME NEW w \in Worker, ListPage(w) PROVE ObjectInv'
  <2>1. /\ todo'[w] \subseteq rows[stage[w]] /\ stage[w] \in DataTarget
        /\ pc'[w] \in {"mark", "object"}
        /\ pc'[w] = "mark" => stage[w] = "logs"
    BY <1>4, <1>a DEF ListPage, ConsumersOK, WorkerOK, EraseFrom, Goto
  <2>2. \A v \in Worker \ {w} : pc'[v] = pc[v] /\ todo'[v] = todo[v]
    BY <1>4, <1>a DEF ListPage, ConsumersOK, Goto
  <2>3. UNCHANGED <<stage, dataVars>>
    BY <1>4 DEF ListPage
  <2>4. QED
    BY <2>1, <2>2, <2>3 DEF ObjectInv, IsNext, dataVars
<1>5. ASSUME NEW w \in Worker, ListEmpty(w) PROVE ObjectInv'
  BY <1>5, <1>a, <1>d DEF ListEmpty, ConsumersOK
<1>6. ASSUME NEW w \in Worker, NEW r \in todo[w], Mark(w, r) PROVE ObjectInv'
  <2>1. /\ stage[w] = "logs" /\ r \in arrived["logs"] /\ "logs" \in DataTarget
    BY <1>6 DEF Mark, ObjectInv, DataTarget
  <2>2. /\ pc'[w] \in {"object", "catch"} /\ \A v \in Worker \ {w} : pc'[v] = pc[v]
    BY <1>6, <1>a DEF Mark, Reply, Goto, ConsumersOK
  <2>3. \A t \in DataTarget : objects[t] \subseteq rows'[t] /\ rows'[t] \subseteq arrived[t]
    BY <1>6, <1>a, <2>1 DEF Mark, ObjectInv, DataOK
  <2>4. UNCHANGED <<objects, arrived, todo, stage>>
    BY <1>6 DEF Mark, pageVars
  <2>5. QED
    BY <1>6, <2>1, <2>2, <2>3, <2>4 DEF Mark, ObjectInv, IsNext
<1>7. ASSUME NEW w \in Worker, NEW r \in todo[w], DeleteObject(w, r) PROVE ObjectInv'
  <2>1. stage[w] \in DataTarget /\ pc[w] = "object" /\ IsNext(w, r)
    BY <1>7, <1>a DEF DeleteObject, WorkerOK
  <2>2. /\ pc'[w] \in {"row", "catch"} /\ \A v \in Worker \ {w} : pc'[v] = pc[v]
    BY <1>7, <1>a DEF DeleteObject, Reply, Goto, ConsumersOK
  <2>3. /\ r \notin objects'[stage[w]]
        /\ \A t \in DataTarget : objects'[t] \subseteq objects[t]
    BY <1>7, <1>a, <2>1 DEF DeleteObject, DataOK
  <2>4. UNCHANGED <<rows, arrived, todo, stage>>
    BY <1>7 DEF DeleteObject, pageVars
  <2>5. \A q \in todo[w] : IsNext(w, q) => q = r
    <3>1. todo[w] \subseteq Nat
      BY <1>a, RowIdAssumption DEF ConsumersOK
    <3>2. QED
      BY <2>1, <3>1 DEF IsNext
  <2>6. \A v \in Worker : pc'[v] = "row" =>
          \A q \in todo[v] : IsNext(v, q) => q \notin objects'[stage[v]]
    <3>1. \A v \in Worker \ {w} : pc[v] = "row" => stage[v] \in DataTarget
      BY <1>a DEF WorkerOK
    <3>2. QED
      BY <2>2, <2>3, <2>5, <3>1 DEF ObjectInv
  <2>7. QED
    BY <2>1, <2>2, <2>3, <2>4, <2>6 DEF ObjectInv, IsNext
<1>8. ASSUME NEW w \in Worker, NEW r \in todo[w], DeleteRow(w, r) PROVE ObjectInv'
  <2>1. /\ stage[w] \in DataTarget /\ pc[w] = "row" /\ r \notin objects[stage[w]]
    BY <1>8, <1>a DEF DeleteRow, WorkerOK, ObjectInv
  <2>2. /\ pc'[w] \in {"mark", "object", "advance", "catch"}
        /\ pc'[w] = "mark" => stage[w] = "logs"
        /\ \A v \in Worker \ {w} : pc'[v] = pc[v]
    BY <1>8, <1>a DEF DeleteRow, Reply, Goto, EraseFrom, ConsumersOK
  <2>3. \A t \in DataTarget : objects[t] \subseteq rows'[t] /\ rows'[t] \subseteq arrived[t]
    BY <1>8, <1>a, <2>1 DEF DeleteRow, ObjectInv, DataOK
  <2>4. /\ UNCHANGED <<objects, arrived, stage>>
        /\ todo'[w] \subseteq todo[w] /\ \A v \in Worker \ {w} : todo'[v] = todo[v]
    BY <1>8, <1>a DEF DeleteRow, ConsumersOK
  <2>5. QED
    BY <2>1, <2>2, <2>3, <2>4 DEF ObjectInv, IsNext
<1>9. ASSUME NEW w \in Worker, SaveCursor(w) \/ AppendAudit(w) PROVE ObjectInv'
  <2>1. UNCHANGED dataVars
    BY <1>9 DEF SaveCursor, AppendAudit
  <2>2. \/ Finish(w)
        \/ Goto(w, "catch") /\ UNCHANGED pageVars
    BY <1>9 DEF SaveCursor, AppendAudit
  <2>3. QED
    BY <1>c, <1>d, <2>1, <2>2 DEF pageVars
<1>10. ASSUME NEW w \in Worker, SaveCompleted(w) \/ Throws(w) PROVE ObjectInv'
  <2>1. UNCHANGED <<dataVars, pageVars>> /\ (Goto(w, "audit") \/ Goto(w, "catch"))
    BY <1>10 DEF SaveCompleted, Throws, Reply
  <2>2. QED
    BY <1>d, <2>1 DEF pageVars
<1>11. ASSUME NEW w \in Worker,
              SaveFailed(w) \/ BeginThrows(w) \/ CatchThrows(w) \/ Crash(w)
       PROVE  ObjectInv'
  BY <1>11, <1>c DEF SaveFailed, BeginThrows, CatchThrows, Crash, Retry
<1>12. ASSUME NEW j \in Job,
              \/ \E t \in RequestTargets : RequestDeletion(j, t)
              \/ \E c \in Cron : ScheduleRetention(c, j)
              \/ Publish(j) \/ PublishThrows(j) \/ Requeue(j)
              \/ \E n \in 0 .. MaxRetries : AckCompleted(j, n)
       PROVE  ObjectInv'
  BY <1>12, <1>b
  DEF RequestDeletion, ScheduleRetention, Publish, PublishThrows, Requeue, AckCompleted
<1>13. ASSUME NEW c \in Cron, NEW t \in DataTarget, FindDue(c, t) PROVE ObjectInv'
  BY <1>13, <1>b DEF FindDue
<1>14. CASE UNCHANGED vars
  BY <1>14, <1>b DEF vars
<1>15. QED
  BY <1>1, <1>2, <1>3, <1>4, <1>5, <1>6, <1>7, <1>8, <1>9, <1>10, <1>11, <1>12,
     <1>13, <1>14 DEF Next, Work

\* No interleaving of consumers, retries, crashes and ingestion leaves an R2
\* object without the metadata row that holds its key.
THEOREM ObjectsKeepTheirRows == Spec => []NoOrphanObject
<1>1. Spec => []ObjectInv
  BY InitObject, StepObject, TypeInvariant, PTL DEF Spec
<1>2. ObjectInv => NoOrphanObject
  BY DEF ObjectInv, NoOrphanObject
<1>3. QED
  BY <1>1, <1>2, PTL

-----------------------------------------------------------------------------
(* The cursor of a metric or trace job.  The rows a job has still to erase *)
(* only shrink; what a consumer read at its start and listed later is      *)
(* therefore still a bound when it saves, however stale it is.             *)

Unmarked == {"metrics", "traces"}
Left(j, t) == covers[j][t] \intersect rows[t]

JobCursor ==
  \A j \in Job :
    /\ \A t \in DataTarget : covers[j][t] \subseteq arrived[t]
    /\ job[j].target \in Unmarked =>
         /\ \A r \in Left(j, job[j].target) : r > job[j].cursor
         /\ job[j].status = "completed" => Left(j, job[j].target) = {}

ConsumerCursor(w) ==
  LET j == msg[w].job
      t == current[w].target
  IN  /\ job[j].status # "none"
      /\ job[j].target = t
      /\ current[w].status = "processing"
      /\ t \in Unmarked =>
           /\ \A r \in Left(j, t) : r > current[w].cursor
           /\ pc[w] # "mark"
           /\ pc[w] \in {"list", "object", "row", "advance"} => stage[w] = t
           /\ pc[w] \in {"object", "row", "advance"} =>
                \A r \in Left(j, t) : r <= last[w] => r \in todo[w]
           /\ pc[w] = "advance" => todo[w] = {}
           /\ pc[w] \in {"complete", "audit"} => Left(j, t) = {}

CursorInv == JobCursor /\ \A w \in Worker : Busy(w) => ConsumerCursor(w)

LEMMA InitCursor == Init => CursorInv
  BY DEF Init, CursorInv, JobCursor, Busy, NoJob, Unmarked, Left

Same(v) == UNCHANGED <<pc[v], msg[v], current[v], stage[v], todo[v], last[v]>>

\* Erasing rows and moving on keeps what consumers and jobs know.
LEMMA CursorFrame ==
  ASSUME TypeInv, CursorInv, UNCHANGED <<job, covers, arrived>>,
         \A t \in Unmarked : rows'[t] \subseteq rows[t],
         \A v \in Worker : Busy(v)' => ConsumerCursor(v)' \/ Same(v)
  PROVE  CursorInv'
<1>1. JobCursor'
  BY DEF CursorInv, JobCursor, Left, Unmarked
<1>2. ASSUME NEW v \in Worker, Busy(v)', Same(v) PROVE ConsumerCursor(v)'
  <2>1. ConsumerCursor(v) /\ msg'[v] = msg[v] /\ current'[v] = current[v]
    BY <1>2 DEF CursorInv, Busy, Same
  <2>2. \A t \in Unmarked : Left(msg[v].job, t)' \subseteq Left(msg[v].job, t)
    BY <2>1 DEF Left
  <2>3. QED
    BY <1>2, <2>1, <2>2 DEF ConsumerCursor, Same
<1>3. QED
  BY <1>1, <1>2 DEF CursorInv

\* A consumer saves a row whose cursor is below everything that is left: the
\* jobs stay sound, and so does what every other consumer knows.
LEMMA CursorSave ==
  ASSUME TypeInv, CursorInv, NEW w \in Worker, Busy(w), NEW row \in JobRow,
         SaveJob(w, row), UNCHANGED <<covers, arrived, rows>>,
         row.target = current[w].target,
         row.target \in Unmarked =>
           /\ \A r \in Left(msg[w].job, row.target) : r > row.cursor
           /\ row.status = "completed" => Left(msg[w].job, row.target) = {},
         \A v \in Worker : Busy(v)' => v = w \/ Same(v),
         Busy(w)' => UNCHANGED <<msg[w], current[w]>> /\
           (job'[msg[w].job] = row => ConsumerCursor(w)')
  PROVE  CursorInv'
<1>1. msg[w].job \in Job /\ row.status # "none" /\ ConsumerCursor(w)
  BY DEF TypeInv, WorkerOK, Message, JobRow, Status, CursorInv
<1>2. \A j \in Job : job'[j] = IF j = msg[w].job THEN row ELSE job[j]
  BY <1>1 DEF SaveJob, TypeInv, TypeOK, JobsOK
<1>3. JobCursor'
  BY <1>1, <1>2 DEF CursorInv, JobCursor, Left
<1>4. ASSUME NEW v \in Worker, Busy(v)', Same(v) PROVE ConsumerCursor(v)'
  <2>1. msg[v].job \in Job /\ ConsumerCursor(v)
    BY <1>4 DEF TypeInv, WorkerOK, Message, CursorInv, Busy, Same
  <2>2. job'[msg[v].job].target = job[msg[v].job].target /\ job'[msg[v].job].status # "none"
    BY <1>1, <1>2, <2>1 DEF ConsumerCursor
  <2>3. QED
    BY <1>4, <2>1, <2>2 DEF ConsumerCursor, Left, Same
<1>5. QED
  BY <1>1, <1>2, <1>3, <1>4 DEF CursorInv

LEMMA StepCursor == CursorInv /\ ObjectInv /\ TypeInv /\ [Next]_vars => CursorInv'
<1> SUFFICES ASSUME CursorInv, ObjectInv, TypeInv, [Next]_vars PROVE CursorInv'
  OBVIOUS
<1>a. JobsOK /\ DataOK /\ ConsumersOK /\ WorkerOK
  BY DEF TypeInv, TypeOK
<1>b. UNCHANGED <<job, covers, dataVars, workerVars>> => CursorInv'
  BY CursorFrame DEF workerVars, pageVars, dataVars, Same
<1>c. ASSUME NEW w \in Worker, Finish(w)
      PROVE  \A v \in Worker : Busy(v)' => v # w /\ Same(v)
  BY <1>a, <1>c DEF Finish, Goto, ConsumersOK, Busy, Same
<1>d. ASSUME NEW w \in Worker, Busy(w)
      PROVE  /\ ConsumerCursor(w) /\ current[w] \in JobRow /\ msg[w].job \in Job
  BY <1>a, <1>d DEF CursorInv, WorkerOK, Message
\* A consumer that only moves to a place where it claims no more.
<1>e. ASSUME NEW w \in Worker, Busy(w), UNCHANGED <<job, covers, dataVars>>,
             UNCHANGED <<msg, current, pageVars>>, Goto(w, "catch")
      PROVE  CursorInv'
  <2>1. pc'[w] = "catch" /\ \A v \in Worker \ {w} : Same(v)
    BY <1>e, <1>a DEF Goto, ConsumersOK, Same, pageVars
  <2>2. ConsumerCursor(w)'
    BY <1>d, <1>e, <2>1 DEF ConsumerCursor, Left, dataVars
  <2>3. QED
    BY <1>e, <2>1, <2>2, CursorFrame DEF dataVars
<1>f. ASSUME NEW w \in Worker, Busy(w), UNCHANGED <<job, covers, dataVars>>, Finish(w)
      PROVE  CursorInv'
  BY <1>c, <1>f, CursorFrame DEF dataVars
<1>1. ASSUME NEW j \in Job, NEW k \in Kind, NEW t \in Target, NEW s \in Status \ {"completed"},
             CreateJob(j, k, t, s), UNCHANGED <<dataVars, workerVars>>
      PROVE  CursorInv'
  <2>1. \A i \in Job \ {j} : job'[i] = job[i] /\ covers'[i] = covers[i]
    BY <1>1, <1>a DEF CreateJob, JobsOK
  <2>2. /\ job'[j] = [status |-> s, kind |-> k, target |-> t, cursor |-> 0]
        /\ covers'[j] = rows
    BY <1>1, <1>a DEF CreateJob, JobsOK
  <2>3. \A u \in DataTarget : rows[u] \subseteq arrived[u] /\ \A r \in rows[u] : r > 0
    BY <1>a, RowIdAssumption DEF DataOK, ObjectInv
  <2>4. JobCursor'
    BY <1>1, <2>1, <2>2, <2>3 DEF CursorInv, JobCursor, Left, Unmarked, DataTarget, dataVars
  <2>5. ASSUME NEW v \in Worker, Busy(v)' PROVE ConsumerCursor(v)'
    <3>1. ConsumerCursor(v) /\ msg[v].job \in Job
      BY <1>1, <1>d, <2>5 DEF Busy, workerVars
    <3>2. msg[v].job # j
      BY <1>1, <3>1 DEF ConsumerCursor, CreateJob, NoJob
    <3>3. QED
      BY <1>1, <2>1, <3>1, <3>2 DEF ConsumerCursor, Left, dataVars, workerVars, pageVars
  <2>6. QED
    BY <2>4, <2>5 DEF CursorInv
<1>2. ASSUME NEW j \in Job, NEW t \in RequestTargets, RequestDeletion(j, t) PROVE CursorInv'
  BY <1>1, <1>2, TargetsAssumption DEF RequestDeletion, Kind, Status
<1>3. ASSUME NEW c \in Cron, NEW j \in Job, ScheduleRetention(c, j) PROVE CursorInv'
  BY <1>1, <1>3, <1>a DEF ScheduleRetention, Kind, Status, Target, JobsOK
<1>4. ASSUME NEW t \in DataTarget, NEW r \in LateRows[t], Ingest(t, r) PROVE CursorInv'
  <2>1. \A u \in DataTarget : arrived[u] \subseteq arrived'[u] /\ rows'[u] \subseteq rows[u] \union {r}
    BY <1>4, <1>a DEF Ingest, DataOK
  <2>2. \A j \in Job, u \in DataTarget : Left(j, u)' = Left(j, u)
    BY <1>4, <1>a DEF Ingest, jobVars, DataOK, CursorInv, JobCursor, Left
  <2>3. JobCursor'
    BY <1>4, <2>1, <2>2 DEF Ingest, jobVars, CursorInv, JobCursor, Unmarked, DataTarget
  <2>4. ASSUME NEW v \in Worker, Busy(v)' PROVE ConsumerCursor(v)'
    <3>1. ConsumerCursor(v) /\ msg[v].job \in Job
      BY <1>4, <1>d, <2>4 DEF Busy, Ingest, workerVars
    <3>2. QED
      BY <1>4, <2>2, <3>1
      DEF Ingest, ConsumerCursor, Unmarked, DataTarget, jobVars, workerVars, pageVars
  <2>5. QED
    BY <2>3, <2>4 DEF CursorInv
<1>5. ASSUME NEW w \in Worker, NEW j \in Job, NEW n \in 0 .. MaxRetries, Receive(w, j, n)
      PROVE  CursorInv'
  <2>1. /\ pc'[w] = "begin" /\ msg'[w].job = j
        /\ current'[w] = [job[j] EXCEPT !.status = "processing"]
        /\ \A v \in Worker \ {w} : Same(v)
    BY <1>5, <1>a DEF Receive, Goto, ConsumersOK, Same, pageVars
  <2>2. job[j] \in JobRow
    BY <1>5, <1>a DEF Receive, JobsOK, NoJob
  <2>3. /\ current'[w].target = job[j].target /\ current'[w].cursor = job[j].cursor
        /\ current'[w].status = "processing"
    BY <2>1, <2>2 DEF JobRow
  <2>4. UNCHANGED <<job, covers, dataVars>>
    BY <1>5 DEF Receive, jobVars
  <2>5. ConsumerCursor(w)'
    BY <1>5, <2>1, <2>3, <2>4 DEF Receive, CursorInv, JobCursor, ConsumerCursor, Left, dataVars
  <2>6. QED
    BY <2>1, <2>4, <2>5, CursorFrame DEF dataVars
<1>6. ASSUME NEW w \in Worker, SaveProcessing(w) PROVE CursorInv'
  <2>1. Busy(w) /\ UNCHANGED <<covers, dataVars>> /\ SaveJob(w, current[w])
    BY <1>6 DEF SaveProcessing, Busy
  <2>2. ConsumerCursor(w) /\ current[w] \in JobRow /\ msg[w].job \in Job
    BY <1>d, <2>1
  <2>3. \/ Finish(w)
        \/ /\ Goto(w, "list") /\ UNCHANGED <<msg, current, todo, last>>
           /\ stage' = [stage EXCEPT ![w] = FirstStage(current[w].target)]
    BY <1>6 DEF SaveProcessing, Retry
  <2>4. CASE Finish(w)
    BY <1>c, <2>1, <2>2, <2>4, CursorSave DEF ConsumerCursor, dataVars
  <2>5. CASE /\ Goto(w, "list") /\ UNCHANGED <<msg, current, todo, last>>
             /\ stage' = [stage EXCEPT ![w] = FirstStage(current[w].target)]
    <3>1. /\ pc'[w] = "list" /\ stage'[w] = FirstStage(current[w].target)
          /\ \A v \in Worker \ {w} : Same(v)
      BY <1>a, <2>5 DEF Goto, ConsumersOK, Same
    <3>2. ASSUME job'[msg[w].job] = current[w] PROVE ConsumerCursor(w)'
      BY <2>1, <2>2, <2>5, <3>1, <3>2
      DEF ConsumerCursor, FirstStage, Unmarked, Left, dataVars
    <3>3. QED
      BY <2>1, <2>2, <2>5, <3>1, <3>2, CursorSave DEF ConsumerCursor, dataVars
  <2>6. QED
    BY <2>3, <2>4, <2>5
<1>7. ASSUME NEW w \in Worker, ListPage(w) PROVE CursorInv'
  <2>1. /\ Busy(w) /\ pc[w] = "list" /\ UNCHANGED <<msg, current, stage, job, covers, dataVars>>
    BY <1>7 DEF ListPage, Busy, jobVars
  <2>2. ConsumerCursor(w) /\ current[w] \in JobRow /\ msg[w].job \in Job /\ stage[w] \in DataTarget
    BY <1>a, <1>d, <2>1 DEF WorkerOK
  <2> DEFINE Lists(page, l) ==
        /\ IsPage(page, stage[w], current[w].cursor)
        /\ todo' = [todo EXCEPT ![w] = page]
        /\ last' = [last EXCEPT ![w] = l]
  <2>0. PICK page \in SUBSET rows[stage[w]] : \E l \in page : Lists(page, l)
    BY <1>7 DEF ListPage
  <2>3. PICK l \in page : Lists(page, l)
    BY <2>0
  <2>4. /\ pc'[w] = EraseFrom(stage[w]) /\ todo'[w] = page /\ last'[w] = l
        /\ \A v \in Worker \ {w} : Same(v)
    BY <1>7, <1>a, <2>1, <2>3 DEF ListPage, Goto, ConsumersOK, Same
  <2>5. \A r \in rows[stage[w]] : r > current[w].cursor /\ r <= l => r \in page
    <3>1. \A r \in rows[stage[w]] : r > current[w].cursor /\ r \notin page => l < r
      BY <2>3 DEF IsPage
    <3>2. rows[stage[w]] \subseteq Nat
      BY <1>a, <2>2, RowIdAssumption DEF DataOK
    <3>3. QED
      BY <2>3, <3>1, <3>2
  <2>6. ConsumerCursor(w)'
    BY <2>1, <2>2, <2>4, <2>5 DEF ConsumerCursor, EraseFrom, Unmarked, Left, dataVars
  <2>7. QED
    BY <2>1, <2>4, <2>6, CursorFrame DEF dataVars
<1>8. ASSUME NEW w \in Worker, ListEmpty(w) PROVE CursorInv'
  <2>1. /\ Busy(w) /\ pc[w] = "list" /\ IsPage({}, stage[w], current[w].cursor)
        /\ UNCHANGED <<msg, current, todo, last, job, covers, dataVars>>
    BY <1>8 DEF ListEmpty, Busy, jobVars
  <2>2. ConsumerCursor(w)
    BY <1>d, <2>1
  <2>3. /\ stage'[w] = NextStage(current[w].target, stage[w])
        /\ pc'[w] = IF stage'[w] = "end" THEN "complete" ELSE "list"
        /\ \A v \in Worker \ {w} : Same(v)
    BY <1>8, <1>a, <2>1 DEF ListEmpty, Goto, ConsumersOK, Same
  <2>4. ~\E r \in rows[stage[w]] : r > current[w].cursor
    BY <2>1, FS_EmptySet, BoundsAssumption DEF IsPage
  <2>5. ConsumerCursor(w)'
    BY <2>1, <2>2, <2>3, <2>4 DEF ConsumerCursor, NextStage, Unmarked, Left, dataVars
  <2>6. QED
    BY <2>1, <2>3, <2>5, CursorFrame DEF dataVars
<1>9. ASSUME NEW w \in Worker, NEW r \in todo[w],
             Mark(w, r) \/ DeleteObject(w, r) \/ DeleteRow(w, r)
      PROVE  CursorInv'
  <2>1. /\ Busy(w) /\ pc[w] \in {"mark", "object", "row"}
        /\ UNCHANGED <<msg, current, stage, last, job, covers, arrived>>
    BY <1>9 DEF Mark, DeleteObject, DeleteRow, Busy, jobVars, pageVars
  <2>2. ConsumerCursor(w)
    BY <1>d, <2>1
  <2>3. \A v \in Worker \ {w} : Same(v)
    BY <1>9, <1>a, <2>1 DEF Mark, DeleteObject, DeleteRow, Reply, Goto, ConsumersOK, Same, pageVars
  <2>4. \A t \in Unmarked : rows'[t] \subseteq rows[t]
    <3>1. Unmarked \subseteq DataTarget \ {"logs"}
      BY DEF Unmarked, DataTarget
    <3>2. QED
      BY <1>9, <1>a, <3>1 DEF Mark, DeleteObject, DeleteRow, DataOK
  <2>5. ConsumerCursor(w)'
    <3>1. CASE Mark(w, r)
      <4>1. stage[w] = "logs" /\ pc'[w] \in {"object", "catch"} /\ UNCHANGED todo
        BY <1>a, <3>1 DEF Mark, Reply, Goto, ConsumersOK, ObjectInv, pageVars
      <4>2. current[w].target \notin Unmarked
        BY <2>2, <3>1 DEF Mark, ConsumerCursor
      <4>3. QED
        BY <2>1, <2>2, <4>1, <4>2 DEF ConsumerCursor
    <3>2. CASE DeleteObject(w, r)
      <4>1. pc[w] = "object" /\ pc'[w] \in {"row", "catch"} /\ UNCHANGED <<todo, rows>>
        BY <1>a, <3>2 DEF DeleteObject, Reply, Goto, ConsumersOK, pageVars
      <4>2. QED
        BY <2>1, <2>2, <4>1 DEF ConsumerCursor, Left, Unmarked
    <3>3. CASE DeleteRow(w, r)
      <4>1. /\ pc[w] = "row" /\ todo'[w] = todo[w] \ {r}
            /\ pc'[w] \in {IF todo'[w] = {} THEN "advance" ELSE EraseFrom(stage[w]), "catch"}
            /\ rows'[stage[w]] = rows[stage[w]] \ {r}
        BY <1>a, <3>3 DEF DeleteRow, Reply, Goto, ConsumersOK, DataOK, WorkerOK
      <4>2. QED
        BY <2>1, <2>2, <2>4, <4>1 DEF ConsumerCursor, EraseFrom, Left, Unmarked
    <3>4. QED
      BY <1>9, <3>1, <3>2, <3>3
  <2>6. QED
    BY <2>1, <2>3, <2>4, <2>5, CursorFrame
<1>10. ASSUME NEW w \in Worker, SaveCursor(w) PROVE CursorInv'
  <2> DEFINE row == [current[w] EXCEPT !.cursor = last[w]]
  <2>1. /\ Busy(w) /\ pc[w] = "advance" /\ UNCHANGED <<covers, dataVars>> /\ SaveJob(w, row)
    BY <1>10 DEF SaveCursor, Busy
  <2>2. ConsumerCursor(w) /\ current[w] \in JobRow /\ msg[w].job \in Job
    BY <1>d, <2>1
  <2>3. /\ row \in JobRow /\ row.cursor = last[w]
        /\ row.target = current[w].target /\ row.status = current[w].status
    BY <2>1, <2>2, SavedRowType DEF JobRow
  <2>4. row.target \in Unmarked =>
          \A r \in Left(msg[w].job, row.target) : r > row.cursor
    <3>1. \A t \in DataTarget : rows[t] \subseteq Nat /\ last[w] \in Nat
      BY <1>a, RowIdAssumption DEF DataOK, ConsumersOK
    <3>2. QED
      BY <2>1, <2>2, <2>3, <3>1 DEF ConsumerCursor, Left, Unmarked, DataTarget
  <2>5. row.status # "completed"
    BY <2>2, <2>3 DEF ConsumerCursor
  <2>6. CASE Finish(w)
    BY <1>c, <2>1, <2>3, <2>4, <2>5, <2>6, CursorSave DEF dataVars
  <2>7. CASE Goto(w, "catch") /\ UNCHANGED <<msg, current, pageVars>>
    <3>1. pc'[w] = "catch" /\ \A v \in Worker \ {w} : Same(v)
      BY <1>a, <2>7 DEF Goto, ConsumersOK, Same, pageVars
    <3>2. ASSUME job'[msg[w].job] = row PROVE ConsumerCursor(w)'
      BY <2>1, <2>2, <2>3, <2>5, <2>7, <3>1, <3>2 DEF ConsumerCursor, Left, dataVars
    <3>3. QED
      BY <2>1, <2>3, <2>4, <2>5, <2>7, <3>1, <3>2, CursorSave DEF dataVars
  <2>8. QED
    BY <1>10, <2>6, <2>7 DEF SaveCursor
<1>11. ASSUME NEW w \in Worker, SaveCompleted(w) PROVE CursorInv'
  <2> DEFINE row == [current[w] EXCEPT !.status = "completed"]
  <2>1. /\ Busy(w) /\ pc[w] = "complete" /\ UNCHANGED <<covers, dataVars>> /\ SaveJob(w, row)
        /\ UNCHANGED <<msg, current, pageVars>> /\ (Goto(w, "audit") \/ Goto(w, "catch"))
    BY <1>11 DEF SaveCompleted, Busy, Reply
  <2>2. ConsumerCursor(w) /\ current[w] \in JobRow /\ msg[w].job \in Job
    BY <1>d, <2>1
  <2>3. /\ row \in JobRow /\ row.cursor = current[w].cursor
        /\ row.target = current[w].target /\ row.status = "completed"
    BY <2>1, <2>2, SavedRowType DEF JobRow, Status
  <2>4. pc'[w] \in {"audit", "catch"} /\ \A v \in Worker \ {w} : Same(v)
    BY <1>a, <2>1 DEF Goto, ConsumersOK, Same, pageVars
  <2>5. ASSUME job'[msg[w].job] = row PROVE ConsumerCursor(w)'
    BY <2>1, <2>2, <2>3, <2>4, <2>5 DEF ConsumerCursor, Left, dataVars
  <2>6. QED
    BY <2>1, <2>2, <2>3, <2>4, <2>5, CursorSave DEF ConsumerCursor, dataVars
<1>12. ASSUME NEW w \in Worker, SaveFailed(w) PROVE CursorInv'
  <2> DEFINE row == [current[w] EXCEPT !.status = "failed"]
  <2>1. Busy(w) /\ UNCHANGED <<covers, dataVars>> /\ SaveJob(w, row) /\ Finish(w)
    BY <1>12 DEF SaveFailed, Retry, Busy
  <2>2. ConsumerCursor(w) /\ current[w] \in JobRow
    BY <1>d, <2>1
  <2>3. /\ row \in JobRow /\ row.cursor = current[w].cursor
        /\ row.target = current[w].target /\ row.status = "failed"
    BY <2>1, <2>2, SavedRowType DEF JobRow, Status
  <2>4. QED
    BY <1>c, <2>1, <2>2, <2>3, CursorSave DEF ConsumerCursor, dataVars
<1>13. ASSUME NEW w \in Worker, AppendAudit(w) \/ Throws(w) PROVE CursorInv'
  <2>1. Busy(w) /\ UNCHANGED <<job, covers, dataVars>>
    BY <1>13 DEF AppendAudit, Throws, Busy, jobVars
  <2>2. \/ Finish(w)
        \/ Goto(w, "catch") /\ UNCHANGED <<msg, current, pageVars>>
    BY <1>13 DEF AppendAudit, Throws, pageVars
  <2>3. QED
    BY <1>e, <1>f, <2>1, <2>2
<1>14. ASSUME NEW w \in Worker, BeginThrows(w) \/ CatchThrows(w) \/ Crash(w) PROVE CursorInv'
  BY <1>14, <1>f DEF BeginThrows, CatchThrows, Crash, Retry, Busy, jobVars
<1>15. ASSUME NEW j \in Job,
              \/ Publish(j) \/ PublishThrows(j) \/ Requeue(j)
              \/ \E n \in 0 .. MaxRetries : AckCompleted(j, n)
       PROVE  CursorInv'
  BY <1>15, <1>b DEF Publish, PublishThrows, Requeue, AckCompleted, jobVars
<1>16. ASSUME NEW c \in Cron, NEW t \in DataTarget, FindDue(c, t) PROVE CursorInv'
  BY <1>16, <1>b DEF FindDue
<1>17. CASE UNCHANGED vars
  BY <1>17, <1>b DEF vars, jobVars
<1>18. QED
  BY <1>2, <1>3, <1>4, <1>5, <1>6, <1>7, <1>8, <1>9, <1>10, <1>11, <1>12, <1>13,
     <1>14, <1>15, <1>16, <1>17 DEF Next, Work

LEMMA CursorInvariant == Spec => []CursorInv
<1>1. Spec => [](ObjectInv /\ TypeInv)
  BY InitObject, StepObject, TypeInvariant, PTL DEF Spec
<1>2. QED
  BY <1>1, InitCursor, StepCursor, PTL DEF Spec

\* However many consumers work on stale copies of a metric or trace job, its
\* cursor never passes a row that is still to be erased.
THEOREM CursorIsSound == Spec => []UnmarkedCursorSound
<1>1. CursorInv => UnmarkedCursorSound
  BY DEF CursorInv, JobCursor, UnmarkedCursorSound, CursorSkipsNothing, Left, Unmarked
<1>2. QED
  BY <1>1, CursorInvariant, PTL

\* A metric or trace job that says "completed" has erased all it covered.
THEOREM CompletedMeansErased == Spec => []UnmarkedCompletedErased
<1>1. CursorInv => UnmarkedCompletedErased
  BY DEF CursorInv, JobCursor, UnmarkedCompletedErased, Erased, Left, Unmarked
<1>2. QED
  BY <1>1, CursorInvariant, PTL

\* Both together: a metric or trace job, interrupted, resumed and worked on
\* twice, erases everything it covers before it says "completed".
THEOREM ErasureIsSound == Spec => []UnmarkedErasure
<1>1. UnmarkedCursorSound /\ UnmarkedCompletedErased => UnmarkedErasure
  BY DEF UnmarkedErasure
<1>2. QED
  BY <1>1, CursorIsSound, CompletedMeansErased, PTL

-----------------------------------------------------------------------------
(* Readable log rows.  A consumer that is about to delete the object of a  *)
(* log row knows that the row is marked, or gone: it marked the row itself,*)
(* and only the deletion of the row takes the mark away.                   *)

MarkedFirst(w) ==
  pc[w] = "object" /\ stage[w] = "logs" =>
    \A r \in todo[w] : IsNext(w, r) => r \in marked \/ r \notin rows["logs"]

LogInv == ReadableLogHasObject /\ \A w \in Worker : MarkedFirst(w)

LEMMA InitLog == Init => LogInv
  BY DEF Init, LogInv, ReadableLogHasObject, MarkedFirst, DataTarget

LEMMA LogFrame ==
  ASSUME LogInv, UNCHANGED dataVars,
         \A v \in Worker : \/ pc'[v] # "object"
                           \/ pc'[v] = pc[v] /\ todo'[v] = todo[v] /\ stage'[v] = stage[v]
  PROVE  LogInv'
<1>1. UNCHANGED <<rows, marked, objects>>
  BY DEF dataVars
<1>2. ReadableLogHasObject'
  BY <1>1 DEF LogInv, ReadableLogHasObject
<1>3. ASSUME NEW v \in Worker PROVE MarkedFirst(v)'
  BY <1>1 DEF LogInv, MarkedFirst, IsNext
<1>4. QED
  BY <1>2, <1>3 DEF LogInv

\* The rows of a page are taken in order, so only one is next.
LEMMA OneNext ==
  ASSUME ConsumersOK, NEW w \in Worker, NEW r \in todo[w], NEW q \in todo[w],
         IsNext(w, r), IsNext(w, q)
  PROVE  q = r
<1>1. r \in Nat /\ q \in Nat /\ r <= q /\ q <= r
  BY RowIdAssumption DEF ConsumersOK, IsNext
<1>2. QED
  BY <1>1

LEMMA StepLog == LogInv /\ ObjectInv /\ TypeInv /\ [Next]_vars => LogInv'
<1> SUFFICES ASSUME LogInv, ObjectInv, TypeInv, [Next]_vars PROVE LogInv'
  OBVIOUS
<1>a. DataOK /\ ConsumersOK /\ WorkerOK /\ "logs" \in DataTarget
  BY DEF TypeInv, TypeOK, DataTarget
<1>b. UNCHANGED dataVars /\ UNCHANGED workerVars => LogInv'
  BY LogFrame DEF workerVars, pageVars
<1>c. ASSUME NEW w \in Worker, UNCHANGED dataVars, Finish(w) PROVE LogInv'
  <2>1. pc'[w] = "idle" /\ \A v \in Worker \ {w} :
          pc'[v] = pc[v] /\ todo'[v] = todo[v] /\ stage'[v] = stage[v]
    BY <1>a, <1>c DEF Finish, Goto, ConsumersOK
  <2>2. QED
    BY <1>c, <2>1, LogFrame
<1>d. ASSUME NEW w \in Worker,
             NEW l \in {"list", "mark", "row", "advance", "complete", "audit", "catch", "begin"},
             UNCHANGED dataVars, Goto(w, l),
             \A v \in Worker \ {w} : todo'[v] = todo[v] /\ stage'[v] = stage[v]
      PROVE  LogInv'
  <2>1. pc'[w] = l /\ \A v \in Worker \ {w} : pc'[v] = pc[v]
    BY <1>a, <1>d DEF Goto, ConsumersOK
  <2>2. QED
    BY <1>d, <2>1, LogFrame
<1>1. ASSUME NEW t \in DataTarget, NEW r \in LateRows[t], Ingest(t, r)
      PROVE  LogInv'
  <2>1. /\ r \notin arrived[t] /\ UNCHANGED <<marked, pc, todo, stage>>
        /\ rows' = [rows EXCEPT ![t] = @ \union {r}]
        /\ objects' = [objects EXCEPT ![t] = @ \union {r}]
    BY <1>1 DEF Ingest, workerVars, pageVars
  <2>2. ReadableLogHasObject'
    BY <1>a, <2>1 DEF LogInv, ReadableLogHasObject, DataOK
  <2>3. ASSUME NEW w \in Worker PROVE MarkedFirst(w)'
    BY <1>a, <2>1 DEF LogInv, MarkedFirst, ObjectInv, IsNext, DataOK
  <2>4. QED
    BY <2>2, <2>3 DEF LogInv
<1>2. ASSUME NEW w \in Worker, NEW j \in Job, NEW n \in 0 .. MaxRetries, Receive(w, j, n)
      PROVE  LogInv'
  BY <1>2, <1>d DEF Receive, pageVars
<1>3. ASSUME NEW w \in Worker, SaveProcessing(w) PROVE LogInv'
  <2>1. CASE Retry(w)
    BY <1>3, <1>c, <2>1 DEF SaveProcessing, Retry
  <2>2. CASE ~Retry(w)
    BY <1>3, <1>a, <1>d, <2>2 DEF SaveProcessing, ConsumersOK
  <2>3. QED
    BY <2>1, <2>2
<1>4. ASSUME NEW w \in Worker, ListPage(w) PROVE LogInv'
  <2>1. /\ pc'[w] = "object" => stage'[w] # "logs"
        /\ \A v \in Worker \ {w} : pc'[v] = pc[v] /\ todo'[v] = todo[v] /\ stage'[v] = stage[v]
    BY <1>4, <1>a DEF ListPage, ConsumersOK, WorkerOK, EraseFrom, Goto
  <2>2. UNCHANGED <<rows, marked, objects>>
    BY <1>4 DEF ListPage, dataVars
  <2>3. ReadableLogHasObject'
    BY <2>2 DEF LogInv, ReadableLogHasObject
  <2>4. ASSUME NEW v \in Worker PROVE MarkedFirst(v)'
    BY <2>1, <2>2 DEF LogInv, MarkedFirst, IsNext
  <2>5. QED
    BY <2>3, <2>4 DEF LogInv
<1>5. ASSUME NEW w \in Worker, ListEmpty(w) PROVE LogInv'
  BY <1>5, <1>a, <1>d DEF ListEmpty, ConsumersOK
<1>6. ASSUME NEW w \in Worker, NEW r \in todo[w], Mark(w, r) PROVE LogInv'
  <2>1. /\ IsNext(w, r) /\ marked' = marked \union {r}
        /\ rows'["logs"] = rows["logs"] \union {r} /\ UNCHANGED <<objects, todo, stage>>
    BY <1>6, <1>a DEF Mark, DataOK, pageVars
  <2>2. \A v \in Worker \ {w} : pc'[v] = pc[v]
    BY <1>6, <1>a DEF Mark, Reply, Goto, ConsumersOK
  <2>3. ReadableLogHasObject'
    BY <2>1 DEF LogInv, ReadableLogHasObject
  <2>4. ASSUME NEW v \in Worker PROVE MarkedFirst(v)'
    <3>1. CASE v = w
      <4>1. \A q \in todo[w] : IsNext(w, q) => q = r
        BY <1>a, <2>1, OneNext
      <4>2. QED
        BY <2>1, <3>1, <4>1 DEF MarkedFirst, IsNext
    <3>2. CASE v # w
      BY <2>1, <2>2, <3>2 DEF LogInv, MarkedFirst, IsNext
    <3>3. QED
      BY <3>1, <3>2
  <2>5. QED
    BY <2>3, <2>4 DEF LogInv
<1>7. ASSUME NEW w \in Worker, NEW r \in todo[w], DeleteObject(w, r) PROVE LogInv'
  <2>1. /\ pc[w] = "object" /\ IsNext(w, r) /\ UNCHANGED <<rows, marked, todo, stage>>
        /\ stage[w] \in DataTarget /\ objects' = [objects EXCEPT ![stage[w]] = @ \ {r}]
    BY <1>7, <1>a DEF DeleteObject, pageVars, WorkerOK
  <2>2. pc'[w] # "object" /\ \A v \in Worker \ {w} : pc'[v] = pc[v]
    BY <1>7, <1>a DEF DeleteObject, Reply, Goto, ConsumersOK
  <2>3. ReadableLogHasObject'
    BY <1>a, <2>1 DEF LogInv, MarkedFirst, ReadableLogHasObject, DataOK
  <2>4. ASSUME NEW v \in Worker PROVE MarkedFirst(v)'
    BY <2>1, <2>2 DEF LogInv, MarkedFirst, IsNext
  <2>5. QED
    BY <2>3, <2>4 DEF LogInv
<1>8. ASSUME NEW w \in Worker, NEW r \in todo[w], DeleteRow(w, r) PROVE LogInv'
  <2>1. /\ rows' = [rows EXCEPT ![stage[w]] = @ \ {r}] /\ stage[w] \in DataTarget
        /\ marked' = IF stage[w] = "logs" THEN marked \ {r} ELSE marked
        /\ UNCHANGED <<objects, stage>> /\ \A v \in Worker \ {w} : todo'[v] = todo[v]
    BY <1>8, <1>a DEF DeleteRow, WorkerOK, ConsumersOK
  <2>2. /\ pc'[w] = "object" => stage[w] # "logs"
        /\ \A v \in Worker \ {w} : pc'[v] = pc[v]
    BY <1>8, <1>a DEF DeleteRow, Reply, Goto, EraseFrom, ConsumersOK
  <2>3. \/ rows'["logs"] = rows["logs"] \ {r} /\ marked' = marked \ {r}
        \/ rows'["logs"] = rows["logs"] /\ marked' = marked
    BY <1>a, <2>1 DEF DataOK
  <2>4. ReadableLogHasObject'
    BY <2>1, <2>3 DEF LogInv, ReadableLogHasObject
  <2>5. ASSUME NEW v \in Worker PROVE MarkedFirst(v)'
    BY <2>1, <2>2, <2>3 DEF LogInv, MarkedFirst, IsNext
  <2>6. QED
    BY <2>4, <2>5 DEF LogInv
<1>9. ASSUME NEW w \in Worker, SaveCursor(w) \/ AppendAudit(w) PROVE LogInv'
  <2>1. UNCHANGED dataVars
    BY <1>9 DEF SaveCursor, AppendAudit
  <2>2. \/ Finish(w)
        \/ Goto(w, "catch") /\ UNCHANGED pageVars
    BY <1>9 DEF SaveCursor, AppendAudit
  <2>3. QED
    BY <1>c, <1>d, <2>1, <2>2 DEF pageVars
<1>10. ASSUME NEW w \in Worker, SaveCompleted(w) \/ Throws(w) PROVE LogInv'
  <2>1. UNCHANGED <<dataVars, pageVars>> /\ (Goto(w, "audit") \/ Goto(w, "catch"))
    BY <1>10 DEF SaveCompleted, Throws, Reply
  <2>2. QED
    BY <1>d, <2>1 DEF pageVars
<1>11. ASSUME NEW w \in Worker,
              SaveFailed(w) \/ BeginThrows(w) \/ CatchThrows(w) \/ Crash(w)
       PROVE  LogInv'
  BY <1>11, <1>c DEF SaveFailed, BeginThrows, CatchThrows, Crash, Retry
<1>12. ASSUME NEW j \in Job,
              \/ \E t \in RequestTargets : RequestDeletion(j, t)
              \/ \E c \in Cron : ScheduleRetention(c, j)
              \/ Publish(j) \/ PublishThrows(j) \/ Requeue(j)
              \/ \E n \in 0 .. MaxRetries : AckCompleted(j, n)
       PROVE  LogInv'
  BY <1>12, <1>b
  DEF RequestDeletion, ScheduleRetention, Publish, PublishThrows, Requeue, AckCompleted
<1>13. ASSUME NEW c \in Cron, NEW t \in DataTarget, FindDue(c, t) PROVE LogInv'
  BY <1>13, <1>b DEF FindDue
<1>14. CASE UNCHANGED vars
  BY <1>14, <1>b DEF vars
<1>15. QED
  BY <1>1, <1>2, <1>3, <1>4, <1>5, <1>6, <1>7, <1>8, <1>9, <1>10, <1>11, <1>12,
     <1>13, <1>14 DEF Next, Work

\* A log row that a query may read has its object, whatever consumers delete
\* beside each other: the row is marked "deleting" before its object goes.
THEOREM ReadableLogsHaveObjects == Spec => []ReadableLogHasObject
<1>1. Spec => [](ObjectInv /\ TypeInv)
  BY InitObject, StepObject, TypeInvariant, PTL DEF Spec
<1>2. LogInv => ReadableLogHasObject
  BY DEF LogInv
<1>3. QED
  BY <1>1, <1>2, InitLog, StepLog, PTL DEF Spec

-----------------------------------------------------------------------------
(* The audit record.  Between the save of "completed" and the record there *)
(* is always a consumer that is to write it, or that is to save "failed".  *)

AtAudit(j) == \E w \in Worker : msg[w].job = j /\ pc[w] \in {"audit", "catch"}

AuditInv ==
  /\ \A w \in Worker : pc[w] = "catch" => faults > 0
  /\ crashes = 0 /\ faults <= 1 =>
       \A j \in Job : job[j].status = "completed" => audits[j] > 0 \/ AtAudit(j)

LEMMA InitAudit == Init => AuditInv
  BY DEF Init, AuditInv, NoJob

\* A step that completes no job, and none of whose consumers leaves the audit
\* of a completed job.
LEMMA AuditFrame ==
  ASSUME AuditInv, TypeInv, faults' \in Nat, crashes' \in Nat,
         faults <= faults', crashes <= crashes',
         \A w \in Worker : pc'[w] = "catch" => pc[w] = "catch" \/ faults' > 0,
         \A j \in Job : crashes' = 0 /\ faults' <= 1 /\ job'[j].status = "completed" =>
           \/ audits'[j] > 0 \/ AtAudit(j)'
           \/ job[j].status = "completed" /\ (audits[j] > 0 => audits'[j] > 0) /\ (AtAudit(j) => AtAudit(j)')
  PROVE  AuditInv'
<1>a. faults \in Nat /\ crashes \in Nat
  BY DEF TypeInv, TypeOK, CountersOK
<1>1. ASSUME NEW w \in Worker, pc'[w] = "catch" PROVE faults' > 0
  BY <1>a, <1>1 DEF AuditInv
<1>2. ASSUME crashes' = 0, faults' <= 1, NEW j \in Job, job'[j].status = "completed"
      PROVE  audits'[j] > 0 \/ AtAudit(j)'
  <2>1. crashes = 0 /\ faults <= 1
    BY <1>a, <1>2
  <2>2. QED
    BY <1>2, <2>1 DEF AuditInv
<1>3. QED
  BY <1>1, <1>2 DEF AuditInv

LEMMA AuditKept ==
  ASSUME NEW w \in Worker, \A v \in Worker \ {w} : pc'[v] = pc[v] /\ msg'[v] = msg[v],
         NEW j, \/ pc[w] \notin {"audit", "catch"} \/ msg[w].job # j
                \/ pc'[w] \in {"audit", "catch"} /\ msg'[w] = msg[w]
  PROVE  AtAudit(j) => AtAudit(j)'
BY DEF AtAudit

LEMMA StepAudit == AuditInv /\ CursorInv /\ TypeInv /\ [Next]_vars => AuditInv'
<1> SUFFICES ASSUME AuditInv, CursorInv, TypeInv, [Next]_vars PROVE AuditInv'
  OBVIOUS
<1>a. JobsOK /\ ConsumersOK /\ WorkerOK /\ faults \in Nat /\ crashes \in Nat /\ audits \in [Job -> Nat]
  BY DEF TypeInv, TypeOK, CountersOK
<1>b. ASSUME UNCHANGED <<pc, msg, audits, crashes>>, faults' \in {faults, faults + 1},
             \A j \in Job : job'[j].status = "completed" => job[j].status = "completed"
      PROVE  AuditInv'
  <2>1. \A j \in Job : AtAudit(j) => AtAudit(j)'
    BY <1>b DEF AtAudit
  <2>2. faults' \in Nat /\ crashes' \in Nat /\ faults <= faults' /\ crashes <= crashes'
    BY <1>a, <1>b
  <2>3. QED
    BY <1>b, <2>1, <2>2, AuditFrame
\* A consumer ends its delivery, or moves on, away from the audit.
<1>c. ASSUME NEW w \in Worker, pc[w] \notin {"audit", "catch"}, UNCHANGED <<audits, crashes>>,
             faults' \in {faults, faults + 1}, pc'[w] = "catch" => faults' = faults + 1,
             \A v \in Worker \ {w} : pc'[v] = pc[v] /\ msg'[v] = msg[v],
             \A j \in Job : job'[j].status = "completed" => job[j].status = "completed"
      PROVE  AuditInv'
  <2>1. \A j \in Job : AtAudit(j) => AtAudit(j)'
    BY <1>c, AuditKept
  <2>2. faults' \in Nat /\ crashes' \in Nat /\ faults <= faults' /\ crashes <= crashes'
    BY <1>a, <1>c
  <2>3. \A v \in Worker : pc'[v] = "catch" => pc[v] = "catch" \/ faults' > 0
    BY <1>a, <1>c
  <2>4. QED
    BY <1>c, <2>1, <2>2, <2>3, AuditFrame
<1>d. ASSUME NEW w \in Worker, Finish(w)
      PROVE  pc'[w] = "idle" /\ \A v \in Worker \ {w} : pc'[v] = pc[v] /\ msg'[v] = msg[v]
  BY <1>a, <1>d DEF Finish, Goto, ConsumersOK
<1>e. ASSUME NEW w \in Worker, NEW l \in Label, Goto(w, l)
      PROVE  pc'[w] = l /\ \A v \in Worker \ {w} : pc'[v] = pc[v]
  BY <1>a, <1>e, GotoType
<1>f. ASSUME NEW w \in Worker, NEW row \in JobRow, Busy(w), SaveJob(w, row)
      PROVE  /\ msg[w].job \in Job /\ job'[msg[w].job] = row
             /\ \A j \in Job : job'[j] = IF j = msg[w].job THEN row ELSE job[j]
  BY <1>a, <1>f DEF SaveJob, JobsOK, WorkerOK, Message
<1>g. Label = {"idle", "begin", "list", "mark", "object", "row", "advance", "complete", "audit", "catch"}
  BY DEF Label
<1>1. ASSUME NEW j \in Job, NEW k \in Kind, NEW t \in Target, NEW s \in Status \ {"completed"},
             CreateJob(j, k, t, s), UNCHANGED <<pc, msg, audits, faults, crashes>>
      PROVE  AuditInv'
  <2>1. \A i \in Job : job'[i] = IF i = j THEN [status |-> s, kind |-> k, target |-> t, cursor |-> 0] ELSE job[i]
    BY <1>1, <1>a DEF CreateJob, JobsOK
  <2>2. \A i \in Job : job'[i].status = "completed" => job[i].status = "completed"
    BY <2>1
  <2>3. QED
    BY <1>1, <1>b, <2>2
<1>2. ASSUME NEW j \in Job, NEW t \in RequestTargets, RequestDeletion(j, t) PROVE AuditInv'
  BY <1>1, <1>2, TargetsAssumption DEF RequestDeletion, Kind, Status, workerVars
<1>3. ASSUME NEW c \in Cron, NEW j \in Job, ScheduleRetention(c, j) PROVE AuditInv'
  BY <1>1, <1>3, <1>a DEF ScheduleRetention, Kind, Status, Target, JobsOK, workerVars
<1>4. ASSUME NEW j \in Job,
             \/ Publish(j) \/ PublishThrows(j) \/ Requeue(j)
             \/ \E n \in 0 .. MaxRetries : AckCompleted(j, n)
      PROVE  AuditInv'
  <2>1. UNCHANGED <<pc, msg, audits, crashes, job>> /\ faults' \in {faults, faults + 1}
    BY <1>4 DEF Publish, PublishThrows, Requeue, AckCompleted, jobVars, workerVars
  <2>2. QED
    BY <1>b, <2>1
<1>5. ASSUME NEW t \in DataTarget,
             \/ \E r \in LateRows[t] : Ingest(t, r)
             \/ \E c \in Cron : FindDue(c, t)
      PROVE  AuditInv'
  <2>1. UNCHANGED <<pc, msg, audits, crashes, job, faults>>
    BY <1>5 DEF Ingest, FindDue, jobVars, workerVars
  <2>2. QED
    BY <1>b, <2>1
<1>6. ASSUME NEW w \in Worker, NEW j \in Job, NEW n \in 0 .. MaxRetries, Receive(w, j, n)
      PROVE  AuditInv'
  <2>1. /\ pc[w] = "idle" /\ Goto(w, "begin") /\ UNCHANGED <<audits, crashes, job, faults>>
        /\ \A v \in Worker \ {w} : msg'[v] = msg[v]
    BY <1>6, <1>a DEF Receive, jobVars, ConsumersOK
  <2>2. QED
    BY <1>c, <1>e, <1>g, <2>1
<1>7. ASSUME NEW w \in Worker, SaveProcessing(w) PROVE AuditInv'
  <2>1. /\ pc[w] = "begin" /\ Busy(w) /\ SaveJob(w, current[w]) /\ UNCHANGED <<audits, crashes>>
        /\ \/ Goto(w, "list") /\ UNCHANGED <<msg, faults>>
           \/ faults' = faults + 1 /\ Finish(w)
    BY <1>7 DEF SaveProcessing, Retry, Busy
  <2>2. current[w] \in JobRow /\ current[w].status = "processing"
    BY <1>a, <2>1 DEF CursorInv, ConsumerCursor, WorkerOK
  <2>3. \A j \in Job : job'[j].status = "completed" => job[j].status = "completed"
    BY <1>f, <2>1, <2>2
  <2>4. QED
    BY <1>c, <1>d, <1>e, <1>g, <2>1, <2>3
<1>8. ASSUME NEW w \in Worker, NEW r, Mark(w, r) \/ DeleteObject(w, r) \/ DeleteRow(w, r)
      PROVE  AuditInv'
  <2>1. /\ pc[w] \in {"mark", "object", "row"} /\ UNCHANGED <<msg, audits, crashes, job>>
        /\ \E l \in {"mark", "object", "row", "advance"} : Reply(w, l)
    BY <1>8 DEF Mark, DeleteObject, DeleteRow, EraseFrom, jobVars
  <2>2. PICK l \in {"mark", "object", "row", "advance"} :
          \/ Goto(w, l) /\ UNCHANGED faults
          \/ faults' = faults + 1 /\ Goto(w, "catch")
    BY <2>1 DEF Reply
  <2>3. QED
    BY <1>c, <1>e, <1>g, <2>1, <2>2
<1>9. ASSUME NEW w \in Worker, ListPage(w) \/ ListEmpty(w) PROVE AuditInv'
  <2>1. /\ pc[w] = "list" /\ UNCHANGED <<msg, audits, crashes, job, faults>>
        /\ \E l \in {"mark", "object", "list", "complete"} : Goto(w, l)
    BY <1>9 DEF ListPage, ListEmpty, EraseFrom, jobVars
  <2>2. QED
    BY <1>c, <1>e, <1>g, <2>1
<1>10. ASSUME NEW w \in Worker, SaveCursor(w) PROVE AuditInv'
  <2> DEFINE row == [current[w] EXCEPT !.cursor = last[w]]
  <2>1. /\ pc[w] = "advance" /\ Busy(w) /\ SaveJob(w, row) /\ UNCHANGED <<audits, crashes>>
        /\ \/ Finish(w) /\ UNCHANGED faults
           \/ faults' = faults + 1 /\ Goto(w, "catch") /\ UNCHANGED msg
    BY <1>10 DEF SaveCursor, Busy
  <2>2. row \in JobRow /\ row.status = "processing"
    BY <1>a, <2>1, SavedRowType DEF CursorInv, ConsumerCursor, WorkerOK, JobRow
  <2>3. \A j \in Job : job'[j].status = "completed" => job[j].status = "completed"
    BY <1>f, <2>1, <2>2
  <2>4. QED
    BY <1>c, <1>d, <1>e, <1>g, <2>1, <2>3
<1>11. ASSUME NEW w \in Worker, SaveCompleted(w) PROVE AuditInv'
  <2> DEFINE row == [current[w] EXCEPT !.status = "completed"]
  <2>1. /\ pc[w] = "complete" /\ Busy(w) /\ SaveJob(w, row) /\ UNCHANGED <<audits, crashes, msg>>
        /\ \/ Goto(w, "audit") /\ UNCHANGED faults
           \/ faults' = faults + 1 /\ Goto(w, "catch")
    BY <1>11 DEF SaveCompleted, Busy, Reply
  <2>2. row \in JobRow
    BY <2>1, SavedRowType DEF Status
  <2>3. pc'[w] \in {"audit", "catch"} /\ \A v \in Worker \ {w} : pc'[v] = pc[v]
    BY <1>e, <1>g, <2>1
  <2>4. AtAudit(msg[w].job)'
    BY <2>1, <2>3 DEF AtAudit
  <2>5. \A j \in Job : AtAudit(j) => AtAudit(j)'
    BY <2>1, <2>3, AuditKept
  <2>6. \A j \in Job : j # msg[w].job => job'[j] = job[j]
    BY <1>f, <2>1, <2>2
  <2>7. /\ faults' \in Nat /\ crashes' \in Nat /\ faults <= faults' /\ crashes <= crashes'
        /\ \A v \in Worker : pc'[v] = "catch" => pc[v] = "catch" \/ faults' > 0
    <3>1. faults' \in Nat /\ crashes' \in Nat /\ faults <= faults' /\ crashes <= crashes'
      BY <1>a, <2>1
    <3>2. pc'[w] = "catch" => faults' > 0
      BY <1>a, <1>e, <1>g, <2>1
    <3>3. QED
      BY <2>3, <3>1, <3>2
  <2>8. QED
    BY <2>1, <2>4, <2>5, <2>6, <2>7, AuditFrame
<1>12. ASSUME NEW w \in Worker, AppendAudit(w) PROVE AuditInv'
  <2>1. /\ pc[w] = "audit" /\ Busy(w) /\ UNCHANGED <<job, crashes>>
        /\ audits' = [audits EXCEPT ![msg[w].job] = @ + 1]
        /\ \/ Finish(w) /\ UNCHANGED faults
           \/ faults' = faults + 1 /\ Goto(w, "catch") /\ UNCHANGED msg
    BY <1>12 DEF AppendAudit, Busy, jobVars
  <2>2. \A v \in Worker \ {w} : pc'[v] = pc[v] /\ msg'[v] = msg[v]
    BY <1>d, <1>e, <1>g, <2>1
  <2>3. \A j \in Job : j # msg[w].job => (AtAudit(j) => AtAudit(j)')
    BY <2>2, AuditKept
  <2>4. msg[w].job \in Job
    BY <1>a, <2>1 DEF WorkerOK, Message
  <2>5. \A j \in Job : IF j = msg[w].job THEN audits'[j] > 0 ELSE audits'[j] = audits[j]
    BY <1>a, <2>1, <2>4
  <2>6. /\ faults' \in Nat /\ crashes' \in Nat /\ faults <= faults' /\ crashes <= crashes'
    BY <1>a, <2>1
  <2>7. pc'[w] = "catch" => faults' > 0
    BY <1>a, <1>d, <1>e, <1>g, <2>1
  <2>8. QED
    BY <2>1, <2>2, <2>3, <2>5, <2>6, <2>7, AuditFrame
<1>13. ASSUME NEW w \in Worker, Throws(w) PROVE AuditInv'
  <2>1. Goto(w, "catch") /\ faults' = faults + 1 /\ UNCHANGED <<msg, job, audits, crashes>>
    BY <1>13 DEF Throws, jobVars
  <2>2. pc'[w] = "catch" /\ \A v \in Worker \ {w} : pc'[v] = pc[v]
    BY <1>e, <1>g, <2>1
  <2>3. \A j \in Job : AtAudit(j) => AtAudit(j)'
    BY <2>1, <2>2, AuditKept
  <2>4. faults' \in Nat /\ crashes' \in Nat /\ faults <= faults' /\ crashes <= crashes' /\ faults' > 0
    BY <1>a, <2>1
  <2>5. QED
    BY <2>1, <2>3, <2>4, AuditFrame
<1>14. ASSUME NEW w \in Worker, SaveFailed(w) PROVE AuditInv'
  <2> DEFINE row == [current[w] EXCEPT !.status = "failed"]
  <2>1. Busy(w) /\ SaveJob(w, row) /\ Finish(w) /\ UNCHANGED <<audits, faults, crashes>>
    BY <1>14 DEF SaveFailed, Retry, Busy
  <2>2. row \in JobRow /\ row.status = "failed"
    BY <1>a, <2>1, SavedRowType DEF WorkerOK, JobRow, Status
  <2>3. \A j \in Job : IF j = msg[w].job THEN job'[j].status = "failed" ELSE job'[j] = job[j]
    <3>1. job'[msg[w].job] = row /\ \A j \in Job \ {msg[w].job} : job'[j] = job[j]
      <4> HIDE DEF row
      <4>1. QED
        BY <1>f, <2>1, <2>2
    <3>2. QED
      BY <2>2, <3>1
  <2>4. pc'[w] = "idle" /\ \A v \in Worker \ {w} : pc'[v] = pc[v] /\ msg'[v] = msg[v]
    BY <1>d, <2>1
  <2>5. \A j \in Job : j # msg[w].job => (AtAudit(j) => AtAudit(j)')
    BY <2>4, AuditKept
  <2>6. faults' \in Nat /\ crashes' \in Nat /\ faults <= faults' /\ crashes <= crashes'
    BY <1>a, <2>1
  <2>7. QED
    BY <2>1, <2>3, <2>4, <2>5, <2>6, AuditFrame
<1>15. ASSUME NEW w \in Worker, BeginThrows(w) PROVE AuditInv'
  <2>1. pc[w] = "begin" /\ Finish(w) /\ faults' = faults + 1 /\ UNCHANGED <<job, audits, crashes>>
    BY <1>15 DEF BeginThrows, Retry, jobVars
  <2>2. QED
    BY <1>c, <1>d, <2>1
\* Here the record is lost: by a second fault, or by a crash.
<1>16. ASSUME NEW w \in Worker, CatchThrows(w) \/ Crash(w) PROVE AuditInv'
  <2>1. /\ Finish(w) /\ \/ pc[w] = "catch" /\ faults' = faults + 1 /\ crashes' = crashes
                        \/ crashes' = crashes + 1 /\ faults' = faults
    BY <1>16 DEF CatchThrows, Crash, Retry
  <2>2. ~(crashes' = 0 /\ faults' <= 1)
    BY <1>a, <2>1 DEF AuditInv
  <2>3. pc'[w] = "idle" /\ \A v \in Worker \ {w} : pc'[v] = pc[v]
    BY <1>d, <2>1
  <2>4. faults' \in Nat /\ crashes' \in Nat /\ faults <= faults' /\ crashes <= crashes'
    BY <1>a, <2>1
  <2>5. QED
    BY <2>2, <2>3, <2>4, AuditFrame
<1>17. CASE UNCHANGED vars
  <2>1. UNCHANGED <<pc, msg, audits, crashes, faults, job>>
    BY <1>17 DEF vars, jobVars, workerVars
  <2>2. QED
    BY <1>b, <2>1
<1>18. QED
  BY <1>2, <1>3, <1>4, <1>5, <1>6, <1>7, <1>8, <1>9, <1>10, <1>11, <1>12, <1>13,
     <1>14, <1>15, <1>16, <1>17 DEF Next, Work

\* A completed job has its audit record once no consumer is at work on it, as
\* long as no consumer was killed and at most one call threw: the catch block
\* makes the job "failed", so that the record is tried again.
THEOREM CompletedJobsAreAudited == Spec => []CompletedIsAudited
<1>1. AuditInv => CompletedIsAudited
  BY DEF AuditInv, CompletedIsAudited, AtAudit
<1>2. QED
  BY <1>1, InitAudit, StepAudit, CursorInvariant, TypeInvariant, PTL DEF Spec

-----------------------------------------------------------------------------
(* When deliveries do not overlap: one consumer and one cron, any number   *)
(* of jobs and rows, throws and crashes anywhere.  With overlap the rest   *)
(* fails: stale copies of a job are saved over newer ones, and the log     *)
(* block inserts rows again.                                               *)

OneConsumer == \A v, w \in Worker : v = w
OneCron == \A c, d \in Cron : c = d

\* What the proofs of DeletionJobs_proofs establish.
BaseInv == TypeInv /\ ObjectInv /\ CursorInv /\ AuditInv

LEMMA BaseInvariant == Spec => []BaseInv
<1>1. Spec => []ObjectInv
  BY InitObject, StepObject, TypeInvariant, PTL DEF Spec
<1>2. Spec => []AuditInv
  BY InitAudit, StepAudit, CursorInvariant, TypeInvariant, PTL DEF Spec
<1>3. TypeInv /\ ObjectInv /\ CursorInv /\ AuditInv => BaseInv
  BY DEF BaseInv
<1>4. QED
  BY <1>1, <1>2, <1>3, TypeInvariant, CursorInvariant, PTL

LEMMA BaseTypes ==
  ASSUME BaseInv
  PROVE  JobsOK /\ DataOK /\ ConsumersOK /\ WorkerOK /\ faults \in Nat /\ crashes \in Nat
BY DEF BaseInv, TypeInv, TypeOK, CountersOK

\* What a consumer at work knows of its job.
LEMMA BusyFacts ==
  ASSUME BaseInv, NEW w \in Worker, Busy(w)
  PROVE  /\ msg[w].job \in Job /\ current[w] \in JobRow /\ current[w].status = "processing"
         /\ job[msg[w].job] \in JobRow /\ job[msg[w].job].target = current[w].target
<1>1. msg[w].job \in Job /\ current[w] \in JobRow
  BY DEF BaseInv, TypeInv, WorkerOK, Message
<1>2. /\ job[msg[w].job].status # "none" /\ job[msg[w].job].target = current[w].target
      /\ current[w].status = "processing"
  BY DEF BaseInv, CursorInv, ConsumerCursor
<1>3. job[msg[w].job] \in JobRow
  BY <1>1, <1>2, BaseTypes DEF JobsOK, NoJob
<1>4. QED
  BY <1>1, <1>2, <1>3

-----------------------------------------------------------------------------
(* The steps that write the table of jobs.                                 *)

\* The rows a consumer may save, and where it is when it saves them.
Row(w) ==
  CASE pc[w] = "begin" -> current[w]
    [] pc[w] = "advance" -> [current[w] EXCEPT !.cursor = last[w]]
    [] pc[w] = "complete" -> [current[w] EXCEPT !.status = "completed"]
    [] pc[w] = "catch" -> [current[w] EXCEPT !.status = "failed"]

Saves(w) ==
  /\ pc[w] \in {"begin", "advance", "complete", "catch"}
  /\ SaveJob(w, Row(w)) /\ UNCHANGED <<covers, cron, rows, arrived>>

LEMMA SavingSteps ==
  ASSUME NEW w \in Worker, SaveProcessing(w) \/ SaveCursor(w) \/ SaveCompleted(w) \/ SaveFailed(w)
  PROVE  Saves(w)
<1>1. ASSUME SaveProcessing(w) PROVE Saves(w)
  BY <1>1 DEF SaveProcessing, Saves, Row, dataVars
<1>2. ASSUME SaveCursor(w) PROVE Saves(w)
  BY <1>2 DEF SaveCursor, Saves, Row, dataVars
<1>3. ASSUME SaveCompleted(w) PROVE Saves(w)
  BY <1>3 DEF SaveCompleted, Saves, Row, dataVars
<1>4. ASSUME SaveFailed(w) PROVE Saves(w)
  BY <1>4 DEF SaveFailed, Saves, Row, dataVars
<1>5. QED
  BY <1>1, <1>2, <1>3, <1>4

LEMMA RowFacts ==
  ASSUME BaseInv, NEW w \in Worker, Saves(w)
  PROVE  /\ Busy(w) /\ msg[w].job \in Job /\ Row(w) \in JobRow
         /\ Row(w).kind = current[w].kind /\ Row(w).target = current[w].target
         /\ Row(w).status = IF pc[w] = "complete" THEN "completed"
                            ELSE IF pc[w] = "catch" THEN "failed" ELSE "processing"
         /\ Row(w).cursor = IF pc[w] = "advance" THEN last[w] ELSE current[w].cursor
         /\ \A j \in Job : job'[j] = IF j = msg[w].job THEN Row(w) ELSE job[j]
<1>1. Busy(w)
  BY DEF Saves, Busy
<1>2. msg[w].job \in Job /\ current[w] \in JobRow /\ current[w].status = "processing" /\ last[w] \in Nat
  BY <1>1, BusyFacts, BaseTypes DEF ConsumersOK
<1>3. /\ Row(w) \in JobRow /\ Row(w).kind = current[w].kind /\ Row(w).target = current[w].target
      /\ Row(w).status = IF pc[w] = "complete" THEN "completed"
                         ELSE IF pc[w] = "catch" THEN "failed" ELSE "processing"
      /\ Row(w).cursor = IF pc[w] = "advance" THEN last[w] ELSE current[w].cursor
  <2>1. CASE pc[w] = "begin"
    BY <1>2, <2>1 DEF Row
  <2>2. CASE pc[w] = "advance"
    BY <1>2, <2>2 DEF Row, JobRow
  <2>3. CASE pc[w] = "complete"
    BY <1>2, <2>3 DEF Row, JobRow, Status
  <2>4. CASE pc[w] = "catch"
    BY <1>2, <2>4 DEF Row, JobRow, Status
  <2>5. QED
    BY <2>1, <2>2, <2>3, <2>4 DEF Saves
<1>4. \A j \in Job : job'[j] = IF j = msg[w].job THEN Row(w) ELSE job[j]
  BY <1>2, BaseTypes DEF Saves, SaveJob, JobsOK
<1>5. QED
  BY <1>1, <1>2, <1>3, <1>4

LEMMA CreatedJob ==
  ASSUME BaseInv, NEW j \in Job, NEW k, NEW t, NEW s, CreateJob(j, k, t, s)
  PROVE  /\ job[j].status = "none" /\ job[j].kind = "none" /\ \A w \in Worker : Busy(w) => msg[w].job # j
         /\ \A i \in Job : job'[i] = IF i = j THEN [status |-> s, kind |-> k, target |-> t, cursor |-> 0]
                                     ELSE job[i]
<1>1. job[j].status = "none" /\ job[j].kind = "none"
  BY DEF CreateJob, NoJob
<1>2. \A w \in Worker : Busy(w) => msg[w].job # j
  BY <1>1 DEF BaseInv, CursorInv, ConsumerCursor
<1>3. \A i \in Job : job'[i] = IF i = j THEN [status |-> s, kind |-> k, target |-> t, cursor |-> 0]
                               ELSE job[i]
  BY BaseTypes DEF CreateJob, JobsOK
<1>4. QED
  BY <1>1, <1>2, <1>3

\* Every other step leaves the table of jobs alone, and what it does to a
\* consumer is to give it a job that is not completed, to end its delivery,
\* or to move it on inside the try.
Moves(w) ==
  \/ pc'[w] = "idle"
  \/ pc[w] \notin {"idle", "audit"} /\ msg'[w] = msg[w] /\ current'[w] = current[w]
  \/ /\ pc'[w] = "begin" /\ msg'[w].job \in Job
     /\ job[msg'[w].job].status \notin {"none", "completed"}
     /\ current'[w] = [job[msg'[w].job] EXCEPT !.status = "processing"]
  \/ pc[w] = "audit" /\ pc'[w] = "catch" /\ msg'[w] = msg[w] /\ current'[w] = current[w] /\ faults' = faults + 1

LEMMA OtherSteps ==
  ASSUME BaseInv, NEW w \in Worker,
         \/ \E j \in Job, n \in 0 .. MaxRetries : Receive(w, j, n)
         \/ ListPage(w) \/ ListEmpty(w)
         \/ \E r : Mark(w, r) \/ DeleteObject(w, r) \/ DeleteRow(w, r)
         \/ AppendAudit(w) \/ BeginThrows(w) \/ Throws(w) \/ CatchThrows(w) \/ Crash(w)
  PROVE  /\ UNCHANGED <<job, covers, cron>> /\ faults' \in {faults, faults + 1}
         /\ \A v \in Worker : v # w => Same(v)
         /\ Moves(w)
<1>a. ConsumersOK /\ JobsOK
  BY BaseTypes
<1>b. ASSUME Finish(w) PROVE pc'[w] = "idle" /\ \A v \in Worker : v # w => Same(v)
  BY <1>a, <1>b DEF Finish, Goto, ConsumersOK, Same
<1>c. ASSUME NEW l, Goto(w, l) PROVE pc'[w] = l /\ \A v \in Worker \ {w} : pc'[v] = pc[v]
  BY <1>a, <1>c DEF Goto, ConsumersOK
<1>d. ASSUME NEW l, Goto(w, l), UNCHANGED <<msg, current>>, pc[w] \notin {"idle", "audit"} PROVE Moves(w)
  BY <1>c, <1>d DEF Moves
<1>1. ASSUME NEW j \in Job, NEW n \in 0 .. MaxRetries, Receive(w, j, n)
      PROVE  /\ UNCHANGED <<job, covers, cron>> /\ faults' \in {faults, faults + 1}
             /\ \A v \in Worker : v # w => Same(v)
             /\ Moves(w)
  <2>1. /\ pc'[w] = "begin" /\ msg'[w].job = j /\ current'[w] = [job[j] EXCEPT !.status = "processing"]
        /\ \A v \in Worker : v # w => Same(v)
    BY <1>1, <1>a DEF Receive, Goto, ConsumersOK, Same, pageVars
  <2>2. QED
    BY <1>1, <2>1 DEF Receive, jobVars, Moves
<1>2. ASSUME ListPage(w) \/ ListEmpty(w)
      PROVE  /\ UNCHANGED <<job, covers, cron>> /\ faults' \in {faults, faults + 1}
             /\ \A v \in Worker : v # w => Same(v)
             /\ Moves(w)
  <2>1. pc[w] = "list" /\ UNCHANGED <<job, covers, cron, faults, msg, current>> /\ \E l : Goto(w, l)
    BY <1>2 DEF ListPage, ListEmpty, jobVars
  <2>2. \A v \in Worker : v # w => stage'[v] = stage[v] /\ todo'[v] = todo[v] /\ last'[v] = last[v]
    BY <1>2, <1>a DEF ListPage, ListEmpty, ConsumersOK
  <2>3. QED
    BY <1>c, <1>d, <2>1, <2>2 DEF Same
<1>3. ASSUME NEW r, Mark(w, r) \/ DeleteObject(w, r) \/ DeleteRow(w, r)
      PROVE  /\ UNCHANGED <<job, covers, cron>> /\ faults' \in {faults, faults + 1}
             /\ \A v \in Worker : v # w => Same(v)
             /\ Moves(w)
  <2>1. /\ pc[w] \in {"mark", "object", "row"} /\ UNCHANGED <<job, covers, cron, msg, current, stage, last>>
        /\ \E l : Reply(w, l)
    BY <1>3 DEF Mark, DeleteObject, DeleteRow, jobVars, pageVars
  <2>2. \A v \in Worker : v # w => todo'[v] = todo[v]
    BY <1>3, <1>a DEF Mark, DeleteObject, DeleteRow, ConsumersOK, pageVars
  <2>3. faults' \in {faults, faults + 1} /\ \E l : Goto(w, l)
    BY <2>1 DEF Reply
  <2>4. QED
    BY <1>c, <1>d, <2>1, <2>2, <2>3 DEF Same
<1>4. ASSUME AppendAudit(w) \/ Throws(w)
      PROVE  /\ UNCHANGED <<job, covers, cron>> /\ faults' \in {faults, faults + 1}
             /\ \A v \in Worker : v # w => Same(v)
             /\ Moves(w)
  <2>1. /\ pc[w] \notin {"idle"} /\ UNCHANGED <<job, covers, cron>>
        /\ \/ Finish(w) /\ UNCHANGED faults
           \/ Goto(w, "catch") /\ faults' = faults + 1 /\ UNCHANGED <<msg, current, stage, todo, last>>
    BY <1>4 DEF AppendAudit, Throws, jobVars, pageVars
  <2>2. CASE Finish(w) /\ UNCHANGED faults
    BY <1>b, <2>1, <2>2 DEF Moves
  <2>3. CASE Goto(w, "catch") /\ faults' = faults + 1 /\ UNCHANGED <<msg, current, stage, todo, last>>
    <3>1. pc'[w] = "catch" /\ \A v \in Worker \ {w} : pc'[v] = pc[v]
      BY <1>c, <2>3
    <3>2. QED
      BY <2>1, <2>3, <3>1 DEF Moves, Same
  <2>4. QED
    BY <2>1, <2>2, <2>3
<1>5. ASSUME BeginThrows(w) \/ CatchThrows(w) \/ Crash(w)
      PROVE  /\ UNCHANGED <<job, covers, cron>> /\ faults' \in {faults, faults + 1}
             /\ \A v \in Worker : v # w => Same(v)
             /\ Moves(w)
  BY <1>5, <1>b DEF BeginThrows, CatchThrows, Crash, Retry, jobVars, Moves
<1>6. QED
  BY <1>1, <1>2, <1>3, <1>4, <1>5

-----------------------------------------------------------------------------
(* "completed" is final, and one retention job per target.                 *)

\* Before any throw no job has failed, and a job that is being worked on is
\* not completed: nobody else could complete it.
FinalInv ==
  /\ \A w \in Worker : Busy(w) => current[w].kind = job[msg[w].job].kind
  /\ faults = 0 =>
       /\ \A j \in Job : job[j].status # "failed"
       /\ \A w \in Worker : pc[w] \notin {"idle", "audit"} => job[msg[w].job].status # "completed"

\* A cron that found a target due finds none of its jobs in flight later, and
\* no two jobs of one target are.
OneInv ==
  faults = 0 =>
    /\ \A i, j \in Job, t \in Target : IsActive(i, t) /\ IsActive(j, t) => i = j
    /\ \A c \in Cron, j \in Job : cron[c] \in DataTarget => ~IsActive(j, cron[c])

LEMMA InitFinal == Init => FinalInv /\ OneInv
BY DEF Init, FinalInv, OneInv, NoJob, Busy, IsActive, DataTarget

\* The steps, grouped by what they do to the jobs, the cron and the consumers.
Requested(j, t) ==
  CreateJob(j, "user_requested", t, "pending") /\ UNCHANGED <<cron, rows, arrived, workerVars, faults>>

Scheduled(c, j) ==
  /\ cron[c] \in DataTarget /\ CreateJob(j, "retention", cron[c], "scheduled")
  /\ cron' = [cron EXCEPT ![c] = "none"] /\ UNCHANGED <<rows, arrived, workerVars, faults>>

Found(c, t) ==
  /\ ~\E j \in Job : IsActive(j, t)
  /\ cron' = [cron EXCEPT ![c] = t] /\ UNCHANGED <<job, covers, rows, arrived, workerVars, faults>>

Idles == UNCHANGED <<job, covers, cron, rows, arrived, workerVars>> /\ faults' \in {faults, faults + 1}

Saving(w) == SaveProcessing(w) \/ SaveCursor(w) \/ SaveCompleted(w) \/ SaveFailed(w)

Other(w) ==
  \/ \E j \in Job, n \in 0 .. MaxRetries : Receive(w, j, n)
  \/ ListPage(w) \/ ListEmpty(w)
  \/ \E r \in todo[w] : Mark(w, r) \/ DeleteObject(w, r) \/ DeleteRow(w, r)
  \/ AppendAudit(w) \/ BeginThrows(w) \/ Throws(w) \/ CatchThrows(w) \/ Crash(w)

LEMMA Groups ==
  ASSUME BaseInv, [Next]_vars
  PROVE  \/ \E j \in Job, t \in Target : Requested(j, t)
         \/ \E c \in Cron, j \in Job : Scheduled(c, j)
         \/ \E c \in Cron, t \in DataTarget : Found(c, t)
         \/ \E t \in DataTarget : \E r \in LateRows[t] : Ingest(t, r)
         \/ Idles
         \/ \E w \in Worker : Saving(w)
         \/ \E w \in Worker : Other(w)
<1> DEFINE Goal == \/ \E j \in Job, t \in Target : Requested(j, t)
                   \/ \E c \in Cron, j \in Job : Scheduled(c, j)
                   \/ \E c \in Cron, t \in DataTarget : Found(c, t)
                   \/ \E t \in DataTarget : \E r \in LateRows[t] : Ingest(t, r)
                   \/ Idles
                   \/ \E w \in Worker : Saving(w)
                   \/ \E w \in Worker : Other(w)
<1>1. ASSUME NEW j \in Job, NEW t \in RequestTargets, RequestDeletion(j, t) PROVE Goal
  <2>1. t \in Target /\ Requested(j, t)
    BY <1>1, TargetsAssumption DEF RequestDeletion, Requested, dataVars
  <2>2. QED
    BY <2>1
<1>2. ASSUME NEW c \in Cron, NEW j \in Job, ScheduleRetention(c, j) PROVE Goal
  <2>1. cron[c] \in DataTarget
    BY <1>2, BaseTypes DEF ScheduleRetention, JobsOK
  <2>2. Scheduled(c, j)
    BY <1>2, <2>1 DEF ScheduleRetention, Scheduled, dataVars
  <2>3. QED
    BY <2>2
<1>3. ASSUME NEW c \in Cron, NEW t \in DataTarget, FindDue(c, t) PROVE Goal
  <2>1. Found(c, t)
    BY <1>3 DEF FindDue, Found, dataVars
  <2>2. QED
    BY <2>1
<1>4. ASSUME NEW j \in Job,
             \/ Publish(j) \/ PublishThrows(j) \/ Requeue(j)
             \/ \E n \in 0 .. MaxRetries : AckCompleted(j, n)
      PROVE  Goal
  <2>1. Idles
    BY <1>4 DEF Publish, PublishThrows, Requeue, AckCompleted, Idles, jobVars, dataVars
  <2>2. QED
    BY <2>1
<1>5. ASSUME UNCHANGED vars PROVE Goal
  <2>1. Idles
    BY <1>5 DEF vars, Idles, jobVars, dataVars
  <2>2. QED
    BY <2>1
<1>6. ASSUME NEW w \in Worker, NEW j \in Job, NEW n \in 0 .. MaxRetries, Receive(w, j, n) PROVE Goal
  <2>1. Other(w)
    BY <1>6 DEF Other
  <2>2. QED
    BY <2>1
<1>7. ASSUME NEW w \in Worker,
             Work(w) \/ BeginThrows(w) \/ Throws(w) \/ CatchThrows(w) \/ Crash(w)
      PROVE  Goal
  <2>1. Saving(w) \/ Other(w)
    BY <1>7 DEF Work, Saving, Other
  <2>2. QED
    BY <2>1
<1>8. ASSUME NEW t \in DataTarget, NEW r \in LateRows[t], Ingest(t, r) PROVE Goal
  BY <1>8
<1> HIDE DEF Goal
<1>9. Goal
  <2>1. ASSUME NEW w \in Worker, NEW j \in Job, NEW n \in 0 .. MaxRetries,
               Receive(w, j, n) \/ AckCompleted(j, n)
        PROVE  Goal
    BY <1>4, <1>6, <2>1
  <2>2. ASSUME NEW j \in Job, NEW n \in 0 .. MaxRetries, AckCompleted(j, n) PROVE Goal
    BY <1>4, <2>2
  <2>3. ASSUME NEW j \in Job, Publish(j) \/ PublishThrows(j) \/ Requeue(j) PROVE Goal
    BY <1>4, <2>3
  <2>4. Next => Goal
    BY <1>1, <1>2, <1>3, <1>7, <1>8, <2>1, <2>2, <2>3 DEF Next
  <2>5. QED
    BY <1>5, <2>4
<1>10. QED
  BY <1>9 DEF Goal

LEMMA StepFinal ==
  ASSUME OneConsumer, BaseInv, FinalInv, [Next]_vars
  PROVE  FinalInv'
<1>a. JobsOK /\ ConsumersOK /\ faults \in Nat
  BY BaseTypes
<1>1. ASSUME NEW j \in Job, NEW k, NEW t, NEW s \in {"pending", "scheduled"}, CreateJob(j, k, t, s),
             UNCHANGED <<workerVars, faults>>
      PROVE  FinalInv'
  <2>1. /\ \A w \in Worker : Busy(w) => msg[w].job # j /\ msg[w].job \in Job
        /\ \A i \in Job : i # j => job'[i] = job[i]
        /\ job'[j].status = s
    <3>1. /\ \A w \in Worker : Busy(w) => msg[w].job # j
          /\ \A i \in Job : job'[i] = IF i = j THEN [status |-> s, kind |-> k, target |-> t, cursor |-> 0]
                                      ELSE job[i]
      BY <1>1, CreatedJob
    <3>2. \A w \in Worker : Busy(w) => msg[w].job \in Job
      BY BusyFacts
    <3>3. QED
      BY <3>1, <3>2
  <2>2. \A w \in Worker : Busy(w) => job'[msg[w].job] = job[msg[w].job]
    BY <2>1
  <2>3. UNCHANGED <<pc, msg, current, faults>>
    BY <1>1 DEF workerVars
  <2>4. QED
    BY <2>1, <2>2, <2>3 DEF FinalInv, Busy
<1>2. ASSUME UNCHANGED <<job, pc, msg, current>>, faults' \in {faults, faults + 1} PROVE FinalInv'
  <2>1. faults' = 0 => faults = 0
    BY <1>2, <1>a
  <2>2. QED
    BY <1>2, <2>1 DEF FinalInv, Busy
<1>3. ASSUME NEW w \in Worker, Saving(w) PROVE FinalInv'
  <2>1. Saves(w)
    BY <1>3, SavingSteps DEF Saving
  <2>2. /\ Busy(w) /\ msg[w].job \in Job /\ Row(w).kind = current[w].kind
        /\ Row(w).status = IF pc[w] = "complete" THEN "completed"
                           ELSE IF pc[w] = "catch" THEN "failed" ELSE "processing"
        /\ \A j \in Job : job'[j] = IF j = msg[w].job THEN Row(w) ELSE job[j]
    BY <2>1, RowFacts
  <2>3. /\ faults' \in {faults, faults + 1}
        /\ pc'[w] # "idle" => msg'[w] = msg[w] /\ current'[w] = current[w]
        /\ pc[w] = "complete" => pc'[w] = "audit" \/ faults' = faults + 1
        /\ pc[w] # "complete" => pc[w] = "catch" \/ Row(w).status = "processing"
    <3>1. ASSUME SaveProcessing(w) \/ SaveCursor(w) \/ SaveFailed(w)
          PROVE  /\ faults' \in {faults, faults + 1} /\ pc[w] # "complete"
                 /\ pc'[w] # "idle" => msg'[w] = msg[w] /\ current'[w] = current[w]
      BY <1>a, <3>1 DEF SaveProcessing, SaveCursor, SaveFailed, Retry, Finish, Goto, ConsumersOK
    <3>2. ASSUME SaveCompleted(w)
          PROVE  /\ faults' \in {faults, faults + 1} /\ msg'[w] = msg[w] /\ current'[w] = current[w]
                 /\ pc'[w] = "audit" \/ faults' = faults + 1
      BY <1>a, <3>2 DEF SaveCompleted, Reply, Goto, ConsumersOK
    <3>3. QED
      BY <1>3, <2>2, <3>1, <3>2 DEF Saving
  <2>4. pc[w] = "catch" => faults > 0
    BY DEF BaseInv, AuditInv
  <2>5. ASSUME NEW v \in Worker, Busy(v)' PROVE current'[v].kind = job'[msg'[v].job].kind
    BY <2>2, <2>3, <2>5 DEF OneConsumer, Busy
  <2>6. ASSUME faults' = 0, NEW j \in Job PROVE job'[j].status # "failed"
    BY <1>a, <2>2, <2>3, <2>4, <2>6 DEF FinalInv
  <2>7. ASSUME faults' = 0, NEW v \in Worker, pc'[v] \notin {"idle", "audit"}
        PROVE  job'[msg'[v].job].status # "completed"
    <3>1. v = w /\ faults = 0 /\ pc[w] # "complete" /\ pc[w] # "catch"
      BY <1>a, <2>3, <2>4, <2>7 DEF OneConsumer
    <3>2. QED
      BY <2>2, <2>3, <2>7, <3>1
  <2>8. QED
    BY <2>5, <2>6, <2>7 DEF FinalInv
<1>4. ASSUME NEW w \in Worker, Other(w) PROVE FinalInv'
  <2>1. UNCHANGED job /\ faults' \in {faults, faults + 1} /\ Moves(w)
    BY <1>4, OtherSteps DEF Other
  <2>2. pc'[w] # "idle" => current'[w].kind = job[msg'[w].job].kind
    <3>2. CASE pc[w] \notin {"idle"} /\ msg'[w] = msg[w] /\ current'[w] = current[w]
      BY <3>2 DEF FinalInv, Busy
    <3>3. ASSUME msg'[w].job \in Job, job[msg'[w].job].status \notin {"none", "completed"},
                 current'[w] = [job[msg'[w].job] EXCEPT !.status = "processing"]
          PROVE  current'[w].kind = job[msg'[w].job].kind
      BY <1>a, <3>3 DEF JobsOK, JobRow, NoJob
    <3>4. QED
      BY <2>1, <3>2, <3>3 DEF Moves
  <2>3. ASSUME faults' = 0, pc'[w] \notin {"idle", "audit"}
        PROVE  job[msg'[w].job].status # "completed"
    BY <1>a, <2>1, <2>3 DEF FinalInv, Moves
  <2>4. QED
    BY <1>a, <2>1, <2>2, <2>3 DEF FinalInv, Busy, OneConsumer
<1>5. QED
  <2>1. ASSUME NEW t \in DataTarget, NEW r \in LateRows[t], Ingest(t, r) PROVE FinalInv'
    BY <1>2, <2>1 DEF Ingest, workerVars, jobVars
  <2>2. ASSUME NEW c \in Cron, NEW t \in DataTarget, Found(c, t) PROVE FinalInv'
    BY <1>2, <2>2 DEF Found, workerVars
  <2>3. CASE Idles
    BY <1>2, <2>3 DEF Idles, workerVars
  <2>4. QED
    BY <1>1, <1>3, <1>4, <2>1, <2>2, <2>3, Groups DEF Requested, Scheduled

LEMMA SavedActive ==
  ASSUME BaseInv, FinalInv, NEW w \in Worker, Saves(w), faults = 0, NEW j \in Job, NEW t \in Target,
         IsActive(j, t)'
  PROVE  IsActive(j, t)
<1>1. /\ Busy(w) /\ msg[w].job \in Job /\ Row(w).kind = current[w].kind
      /\ Row(w).target = current[w].target
      /\ \A i \in Job : job'[i] = IF i = msg[w].job THEN Row(w) ELSE job[i]
  BY RowFacts
<1>2. CASE j = msg[w].job
  <2>1. /\ current[w].kind = job[j].kind /\ current[w].target = job[j].target
        /\ job[j].status \in Status
    BY <1>1, <1>2, BusyFacts DEF FinalInv, JobRow
  <2>2. job[j].status # "failed" /\ job[j].status # "completed"
    BY <1>1, <1>2 DEF FinalInv, Saves
  <2>3. job[j].kind = "retention" /\ job[j].target = t
    BY <1>1, <1>2, <2>1 DEF IsActive
  <2>4. QED
    BY <2>1, <2>2, <2>3 DEF IsActive, Status
<1>3. CASE j # msg[w].job
  BY <1>1, <1>3 DEF IsActive
<1>4. QED
  BY <1>2, <1>3

LEMMA StepOne ==
  ASSUME OneCron, BaseInv, FinalInv, OneInv, [Next]_vars
  PROVE  OneInv'
<1>a. JobsOK /\ faults \in Nat
  BY BaseTypes
<1>1. ASSUME UNCHANGED cron, faults' = 0 => faults = 0,
             \A j \in Job, t \in Target : faults = 0 /\ IsActive(j, t)' => IsActive(j, t)
      PROVE  OneInv'
  <2>1. DataTarget \subseteq Target
    BY DEF Target
  <2>2. QED
    BY <1>1, <2>1 DEF OneInv
<1>2. ASSUME NEW j \in Job, NEW t \in Target, Requested(j, t) PROVE OneInv'
  <2>1. /\ UNCHANGED <<cron, faults>>
        /\ \A i \in Job : job'[i] = IF i = j THEN [status |-> "pending", kind |-> "user_requested",
                                                   target |-> t, cursor |-> 0] ELSE job[i]
    BY <1>2, CreatedJob DEF Requested
  <2>2. \A i \in Job, u \in Target : IsActive(i, u)' => IsActive(i, u)
    BY <2>1 DEF IsActive
  <2>3. QED
    BY <1>1, <2>1, <2>2
<1>3. ASSUME NEW c \in Cron, NEW j \in Job, Scheduled(c, j) PROVE OneInv'
  <2>1. /\ cron[c] \in DataTarget /\ cron' = [cron EXCEPT ![c] = "none"] /\ faults' = faults
        /\ \A i \in Job : job'[i] = IF i = j THEN [status |-> "scheduled", kind |-> "retention",
                                                   target |-> cron[c], cursor |-> 0] ELSE job[i]
    BY <1>3, CreatedJob DEF Scheduled
  <2>2. \A i \in Job, u \in Target : IsActive(i, u)' => (i = j /\ u = cron[c]) \/ IsActive(i, u)
    BY <2>1 DEF IsActive
  <2>3. ASSUME faults' = 0, NEW i \in Job, NEW k \in Job, NEW t \in Target,
               IsActive(i, t)', IsActive(k, t)'
        PROVE  i = k
    <3>1. \A h \in Job : ~IsActive(h, cron[c])
      BY <2>1, <2>3 DEF OneInv
    <3>2. QED
      BY <2>1, <2>2, <2>3, <3>1 DEF OneInv
  <2>4. \A d \in Cron : cron'[d] \notin DataTarget
    BY <1>a, <2>1 DEF OneCron, JobsOK, DataTarget
  <2>5. QED
    BY <2>3, <2>4 DEF OneInv
<1>4. ASSUME NEW c \in Cron, NEW t \in DataTarget, Found(c, t) PROVE OneInv'
  <2>1. /\ UNCHANGED <<job, faults>> /\ \A j \in Job : ~IsActive(j, t)
        /\ cron' = [cron EXCEPT ![c] = t]
    BY <1>4 DEF Found
  <2>2. \A d \in Cron : cron'[d] = t
    BY <1>a, <2>1 DEF OneCron, JobsOK
  <2>3. QED
    BY <2>1, <2>2 DEF OneInv, IsActive
<1>5. ASSUME NEW t \in DataTarget, NEW r \in LateRows[t], Ingest(t, r) PROVE OneInv'
  BY <1>1, <1>5 DEF Ingest, jobVars, IsActive
<1>6. CASE Idles
  <2>1. UNCHANGED <<job, cron>> /\ (faults' = 0 => faults = 0)
    BY <1>a, <1>6 DEF Idles
  <2>2. QED
    BY <1>1, <2>1 DEF IsActive
<1>7. ASSUME NEW w \in Worker, Saving(w) PROVE OneInv'
  <2>1. Saves(w) /\ UNCHANGED cron
    BY <1>7, SavingSteps DEF Saving, Saves
  <2>2. faults' = 0 => faults = 0
    BY <1>7, <1>a DEF Saving, SaveProcessing, SaveCursor, SaveCompleted, SaveFailed, Reply
  <2>3. QED
    BY <1>1, <2>1, <2>2, SavedActive
<1>8. ASSUME NEW w \in Worker, Other(w) PROVE OneInv'
  <2>1. UNCHANGED <<job, cron>> /\ (faults' = 0 => faults = 0)
    BY <1>8, <1>a, OtherSteps DEF Other
  <2>2. QED
    BY <1>1, <2>1 DEF IsActive
<1>9. QED
  BY <1>2, <1>3, <1>4, <1>5, <1>6, <1>7, <1>8, Groups

LEMMA OneImplies == BaseInv /\ OneInv => OneRetentionInFlight
<1> SUFFICES ASSUME BaseInv, OneInv, faults = 0, NEW i \in Job, NEW j \in Job,
                    job[i].kind = "retention", job[i].status \notin {"completed", "failed"},
                    job[j].kind = "retention", job[j].status \notin {"completed", "failed"},
                    job[i].target = job[j].target
             PROVE  i = j
  BY DEF OneRetentionInFlight
<1>1. job[i] \in JobRow /\ job[j] \in JobRow
  BY BaseTypes DEF JobsOK, NoJob
<1>2. job[i].target \in Target /\ job[i].status \in Status /\ job[j].status \in Status
  BY <1>1 DEF JobRow
<1>3. IsActive(i, job[i].target) /\ IsActive(j, job[i].target)
  BY <1>2 DEF IsActive, Status
<1>4. QED
  BY <1>2, <1>3 DEF OneInv

LEMMA StepKeepsCompleted ==
  ASSUME BaseInv, FinalInv, [Next]_vars
  PROVE  \A j \in Job : job[j].status = "completed" /\ faults = 0 /\ faults' = 0
           => job'[j].status = "completed"
<1> SUFFICES ASSUME NEW j \in Job, job[j].status = "completed", faults = 0, faults' = 0
             PROVE  job'[j].status = "completed"
  OBVIOUS
<1>1. ASSUME NEW i \in Job, NEW k, NEW t, NEW s, CreateJob(i, k, t, s) PROVE job'[j] = job[j]
  <2>1. job[i].status = "none" /\ (i # j => job'[j] = job[j])
    BY <1>1, CreatedJob
  <2>2. QED
    BY <2>1
<1>2. ASSUME NEW w \in Worker, Saving(w) PROVE job'[j].status = "completed"
  <2>1. Saves(w)
    BY <1>2, SavingSteps DEF Saving
  <2>2. /\ msg[w].job \in Job
        /\ Row(w).status = IF pc[w] = "complete" THEN "completed"
                           ELSE IF pc[w] = "catch" THEN "failed" ELSE "processing"
        /\ job'[j] = IF j = msg[w].job THEN Row(w) ELSE job[j]
    BY <2>1, RowFacts
  <2>3. j # msg[w].job
    BY <2>1 DEF FinalInv, Saves
  <2>4. QED
    BY <2>2, <2>3
<1>3. ASSUME UNCHANGED job PROVE job'[j] = job[j]
  BY <1>3
<1>4. QED
  BY <1>1, <1>2, <1>3, Groups, OtherSteps DEF Requested, Scheduled, Found, Ingest, jobVars, Idles, Other

\* "completed" is final before any throw, when deliveries do not overlap: no
\* consumer saves a copy of the job it read before the completion.
THEOREM CompletedStaysCompleted ==
  ASSUME OneConsumer
  PROVE  Spec => CompletedIsFinal
<1>1. BaseInv /\ FinalInv /\ [Next]_vars => FinalInv'
  BY StepFinal
<1>2. Spec => [](BaseInv /\ FinalInv)
  BY <1>1, InitFinal, BaseInvariant, PTL DEF Spec
<1>3. BaseInv /\ FinalInv /\ [Next]_vars =>
        [\A j \in Job : job[j].status = "completed" /\ faults = 0 /\ faults' = 0
           => job'[j].status = "completed"]_vars
  BY StepKeepsCompleted
<1>4. QED
  BY <1>2, <1>3, PTL DEF Spec, CompletedIsFinal

\* At most one retention job per target is in flight before any throw, when
\* neither cron runs nor deliveries overlap: what the cron found due is still
\* without a job when it saves one, and no job leaves "completed" again.
THEOREM OneRetentionJobInFlight ==
  ASSUME OneConsumer, OneCron
  PROVE  Spec => []OneRetentionInFlight
<1>1. BaseInv /\ FinalInv /\ [Next]_vars => FinalInv'
  BY StepFinal
<1>2. BaseInv /\ FinalInv /\ OneInv /\ [Next]_vars => OneInv'
  BY StepOne
<1>3. Spec => [](BaseInv /\ FinalInv)
  BY <1>1, InitFinal, BaseInvariant, PTL DEF Spec
<1>4. QED
  BY <1>2, <1>3, InitFinal, OneImplies, PTL DEF Spec

-----------------------------------------------------------------------------
(* Log jobs.  The log block marks a row by saving it, which would insert   *)
(* the row again if another delivery had deleted it: alone, a consumer has *)
(* on its page only rows that are there.  A job for all targets has one    *)
(* cursor, so what it knows about the logs after their block is that none  *)
(* of those it covers is left.                                             *)

LogTarget == {"logs", "all"}

LogJobs ==
  \A j \in Job : job[j].target \in LogTarget =>
    /\ \A r \in Left(j, "logs") : r > job[j].cursor
    /\ job[j].status = "completed" => Left(j, "logs") = {}

PageIsThere(w) == pc[w] \in {"mark", "object", "row"} => todo[w] \subseteq rows[stage[w]]

LogWorker(w) ==
  LET j == msg[w].job IN
  current[w].target \in LogTarget =>
    /\ \A r \in Left(j, "logs") : r > current[w].cursor
    /\ pc[w] \in {"list", "mark", "object", "row", "advance"} /\ stage[w] # "logs" =>
         Left(j, "logs") = {}
    /\ pc[w] \in {"mark", "object", "row", "advance"} /\ stage[w] = "logs" =>
         \A r \in Left(j, "logs") : r <= last[w] => r \in todo[w]
    /\ pc[w] = "advance" => todo[w] = {}
    /\ pc[w] \in {"complete", "audit"} => Left(j, "logs") = {}

ErasureInv == LogJobs /\ \A w \in Worker : Busy(w) => PageIsThere(w) /\ LogWorker(w)

LEMMA InitErasure == Init => ErasureInv
BY DEF Init, ErasureInv, LogJobs, Left, NoJob, Busy, LogTarget

LEMMA LogJobsKept ==
  ASSUME LogJobs, UNCHANGED job, \A j \in Job : Left(j, "logs")' \subseteq Left(j, "logs")
  PROVE  LogJobs'
BY DEF LogJobs

LEMMA StepErasure ==
  ASSUME OneConsumer, BaseInv, ErasureInv, [Next]_vars
  PROVE  ErasureInv'
<1>a. JobsOK /\ DataOK /\ ConsumersOK /\ WorkerOK /\ "logs" \in DataTarget
  BY BaseTypes DEF DataTarget
<1>b. ASSUME NEW w \in Worker, Busy(w)
      PROVE  msg[w].job \in Job /\ current[w] \in JobRow /\ PageIsThere(w) /\ LogWorker(w)
             /\ job[msg[w].job].target = current[w].target /\ current[w].status = "processing"
  BY <1>b, BusyFacts DEF ErasureInv
\* Nothing happens to the jobs, the log rows they cover and the consumers.
<1>c. ASSUME UNCHANGED <<job, covers, workerVars>>,
             \A t \in DataTarget : rows[t] \subseteq rows'[t],
             \A j \in Job : Left(j, "logs")' \subseteq Left(j, "logs")
      PROVE  ErasureInv'
  <2>1. UNCHANGED <<pc, msg, current, stage, todo, last>>
    BY <1>c DEF workerVars, pageVars
  <2>2. ASSUME NEW w \in Worker, Busy(w)' PROVE PageIsThere(w)' /\ LogWorker(w)'
    <3>1. Busy(w)
      BY <2>1, <2>2 DEF Busy
    <3>2. PageIsThere(w)'
      BY <1>a, <1>b, <1>c, <2>1, <3>1 DEF PageIsThere, WorkerOK
    <3>3. Left(msg[w].job, "logs")' \subseteq Left(msg[w].job, "logs")
      BY <1>b, <1>c, <2>1, <3>1
    <3>4. LogWorker(w)'
      BY <1>b, <2>1, <3>1, <3>3 DEF LogWorker
    <3>5. QED
      BY <3>2, <3>4
  <2>3. LogJobs'
    BY <1>c, LogJobsKept DEF ErasureInv
  <2>4. QED
    BY <2>2, <2>3 DEF ErasureInv
\* A consumer moves, and no row is added.
<1>d. ASSUME NEW w \in Worker, UNCHANGED <<job, covers>>,
             \A j \in Job : Left(j, "logs")' \subseteq Left(j, "logs"),
             Busy(w)' => PageIsThere(w)' /\ LogWorker(w)'
      PROVE  ErasureInv'
  <2>1. LogJobs'
    BY <1>d, LogJobsKept DEF ErasureInv
  <2>2. QED
    BY <1>d, <2>1 DEF ErasureInv, OneConsumer
<1>1. ASSUME NEW j \in Job, NEW k, NEW t \in Target, NEW s \in {"pending", "scheduled"},
             CreateJob(j, k, t, s), UNCHANGED <<rows, workerVars>>
      PROVE  ErasureInv'
  <2>1. /\ \A w \in Worker : Busy(w) => msg[w].job # j
        /\ \A i \in Job : job'[i] = IF i = j THEN [status |-> s, kind |-> k, target |-> t, cursor |-> 0]
                                    ELSE job[i]
    BY <1>1, CreatedJob
  <2>2. \A i \in Job \ {j} : Left(i, "logs")' = Left(i, "logs")
    BY <1>1, <1>a DEF CreateJob, JobsOK, Left
  <2>3. job'[j].cursor = 0 /\ job'[j].status # "completed"
    BY <2>1
  <2>4. \A r \in Left(j, "logs")' : r > 0
    BY <1>1, <1>a, RowIdAssumption DEF DataOK, Left
  <2>5. LogJobs'
    BY <2>1, <2>2, <2>3, <2>4 DEF ErasureInv, LogJobs
  <2>6. UNCHANGED <<pc, msg, current, stage, todo, last>>
    BY <1>1 DEF workerVars, pageVars
  <2>7. ASSUME NEW w \in Worker, Busy(w)' PROVE PageIsThere(w)' /\ LogWorker(w)'
    <3>1. Busy(w)
      BY <2>6, <2>7 DEF Busy
    <3>2. Left(msg[w].job, "logs")' = Left(msg[w].job, "logs")
      BY <1>b, <2>1, <2>2, <2>6, <3>1
    <3>3. PageIsThere(w)'
      BY <1>1, <1>b, <2>6, <3>1 DEF PageIsThere
    <3>4. LogWorker(w)'
      BY <1>b, <2>6, <3>1, <3>2 DEF LogWorker
    <3>5. QED
      BY <3>3, <3>4
  <2>8. QED
    BY <2>5, <2>7 DEF ErasureInv
<1>2. ASSUME NEW t \in DataTarget, NEW r \in LateRows[t], Ingest(t, r) PROVE ErasureInv'
  <2>1. /\ r \notin arrived[t] /\ UNCHANGED <<job, covers, workerVars>>
        /\ rows' = [rows EXCEPT ![t] = @ \union {r}]
    BY <1>2 DEF Ingest, jobVars
  <2>2. \A j \in Job : covers[j]["logs"] \subseteq arrived["logs"]
    BY <1>a DEF BaseInv, CursorInv, JobCursor
  <2>3. \A u \in DataTarget : rows'[u] = IF u = t THEN rows[u] \union {r} ELSE rows[u]
    BY <1>a, <2>1 DEF DataOK
  <2>4. \A j \in Job : Left(j, "logs")' \subseteq Left(j, "logs")
    BY <1>a, <2>1, <2>2, <2>3 DEF Left
  <2>5. QED
    BY <1>c, <2>1, <2>3, <2>4
\* Every save keeps the jobs sound: what a consumer saves, it knows.
<1>e. ASSUME NEW w \in Worker, Saving(w)
      PROVE  /\ LogJobs' /\ \A j \in Job : Left(j, "logs")' = Left(j, "logs")
             /\ Busy(w) /\ PageIsThere(w) /\ LogWorker(w) /\ UNCHANGED rows
  <2>1. Saves(w)
    BY <1>e, SavingSteps DEF Saving
  <2>2. \A j \in Job : Left(j, "logs")' = Left(j, "logs")
    BY <2>1 DEF Saves, Left
  <2>3. /\ Busy(w) /\ msg[w].job \in Job /\ Row(w).target = current[w].target
        /\ Row(w).status = IF pc[w] = "complete" THEN "completed"
                           ELSE IF pc[w] = "catch" THEN "failed" ELSE "processing"
        /\ Row(w).cursor = IF pc[w] = "advance" THEN last[w] ELSE current[w].cursor
        /\ \A j \in Job : job'[j] = IF j = msg[w].job THEN Row(w) ELSE job[j]
    BY <2>1, RowFacts
  <2> DEFINE left == Left(msg[w].job, "logs")
  <2>4. LogWorker(w) /\ PageIsThere(w)
    BY <1>b, <2>3
  <2>5. ASSUME current[w].target \in LogTarget PROVE \A r \in left : r > Row(w).cursor
    <3>1. CASE pc[w] = "advance"
      <4>1. \A r \in left : ~(r <= last[w])
        BY <2>4, <2>5, <3>1 DEF LogWorker
      <4>2. left \subseteq Nat /\ last[w] \in Nat
        BY <1>a, RowIdAssumption DEF Left, DataOK, ConsumersOK
      <4>3. QED
        BY <2>3, <3>1, <4>1, <4>2
    <3>2. CASE pc[w] # "advance"
      BY <2>3, <2>4, <2>5, <3>2 DEF LogWorker
    <3>3. QED
      BY <3>1, <3>2
  <2>6. current[w].target \in LogTarget /\ Row(w).status = "completed" => left = {}
    BY <2>3, <2>4 DEF LogWorker
  <2>7. LogJobs'
    BY <2>2, <2>3, <2>5, <2>6 DEF ErasureInv, LogJobs
  <2>8. QED
    BY <2>1, <2>2, <2>3, <2>4, <2>7 DEF Saves
<1>3. ASSUME NEW w \in Worker, Saving(w) PROVE ErasureInv'
  <2>1. LogJobs' /\ \A j \in Job : Left(j, "logs")' = Left(j, "logs")
    BY <1>3, <1>e
  <2>2. Busy(w) /\ PageIsThere(w) /\ LogWorker(w) /\ msg[w].job \in Job /\ current[w] \in JobRow
    BY <1>3, <1>b, <1>e
  <2> DEFINE Claims == Busy(w)' => PageIsThere(w)' /\ LogWorker(w)'
  <2>3. ASSUME SaveProcessing(w) PROVE Claims
    <3>1. \/ pc'[w] = "idle"
          \/ /\ pc'[w] = "list" /\ UNCHANGED <<msg, current>>
             /\ stage'[w] = FirstStage(current[w].target)
      BY <1>a, <2>3 DEF SaveProcessing, Retry, Finish, Goto, ConsumersOK
    <3>2. QED
      BY <2>1, <2>2, <3>1 DEF PageIsThere, LogWorker, FirstStage, LogTarget, Busy
  <2>4. ASSUME SaveCursor(w) \/ SaveFailed(w) PROVE Claims
    <3>1. \/ pc'[w] = "idle"
          \/ pc'[w] = "catch" /\ UNCHANGED <<msg, current>>
      BY <1>a, <2>4 DEF SaveCursor, SaveFailed, Retry, Finish, Goto, ConsumersOK
    <3>2. QED
      BY <2>1, <2>2, <3>1 DEF PageIsThere, LogWorker, Busy
  <2>5. ASSUME SaveCompleted(w) PROVE Claims
    <3>1. pc[w] = "complete" /\ pc'[w] \in {"audit", "catch"} /\ UNCHANGED <<msg, current>>
      BY <1>a, <2>5 DEF SaveCompleted, Reply, Goto, ConsumersOK
    <3>2. QED
      BY <2>1, <2>2, <3>1 DEF PageIsThere, LogWorker
  <2> HIDE DEF Claims
  <2>6. Claims
    BY <1>3, <2>3, <2>4, <2>5 DEF Saving
  <2>7. QED
    BY <2>1, <2>6 DEF ErasureInv, OneConsumer, Claims
<1>4. ASSUME NEW w \in Worker, NEW j \in Job, NEW n \in 0 .. MaxRetries, Receive(w, j, n)
      PROVE  ErasureInv'
  <2>1. /\ pc'[w] = "begin" /\ msg'[w].job = j /\ current'[w] = [job[j] EXCEPT !.status = "processing"]
        /\ UNCHANGED <<job, covers, rows>>
    BY <1>4, <1>a DEF Receive, Goto, ConsumersOK, jobVars, dataVars
  <2>2. job[j] \in JobRow
    BY <1>4, <1>a DEF Receive, JobsOK, NoJob
  <2>3. current'[w].target = job[j].target /\ current'[w].cursor = job[j].cursor
    BY <2>1, <2>2 DEF JobRow
  <2>4. \A i \in Job : Left(i, "logs")' = Left(i, "logs")
    BY <2>1 DEF Left
  <2>5. LogWorker(w)'
    BY <1>4, <2>1, <2>3, <2>4 DEF ErasureInv, LogJobs, LogWorker
  <2>6. QED
    BY <1>d, <2>1, <2>4, <2>5 DEF PageIsThere
<1>5. ASSUME NEW w \in Worker, ListPage(w) PROVE ErasureInv'
  <2>1. pc[w] = "list" /\ Busy(w) /\ UNCHANGED <<msg, current, stage, job, covers, rows>>
    BY <1>5 DEF ListPage, Busy, jobVars, dataVars
  <2>2. LogWorker(w) /\ msg[w].job \in Job /\ current[w] \in JobRow /\ stage[w] \in DataTarget
    BY <1>a, <1>b, <2>1 DEF WorkerOK
  <2> DEFINE Lists(page, l) ==
        /\ IsPage(page, stage[w], current[w].cursor)
        /\ todo' = [todo EXCEPT ![w] = page]
        /\ last' = [last EXCEPT ![w] = l]
  <2>3. PICK page \in SUBSET rows[stage[w]] : \E l \in page : Lists(page, l)
    BY <1>5 DEF ListPage
  <2>4. PICK l \in page : Lists(page, l)
    BY <2>3
  <2>5. pc'[w] = EraseFrom(stage[w]) /\ todo'[w] = page /\ last'[w] = l
    BY <1>5, <1>a, <2>1, <2>4 DEF ListPage, Goto, ConsumersOK
  <2>6. \A r \in rows[stage[w]] : r > current[w].cursor /\ r <= l => r \in page
    <3>1. \A r \in rows[stage[w]] : r > current[w].cursor /\ r \notin page => l < r
      BY <2>4 DEF IsPage
    <3>2. rows[stage[w]] \subseteq Nat
      BY <1>a, <2>2, RowIdAssumption DEF DataOK
    <3>3. QED
      BY <2>4, <3>1, <3>2
  <2>7. \A i \in Job : Left(i, "logs")' = Left(i, "logs")
    BY <2>1 DEF Left
  <2>8. LogWorker(w)'
    BY <2>1, <2>2, <2>5, <2>6, <2>7 DEF LogWorker, EraseFrom, Left
  <2>9. PageIsThere(w)'
    BY <2>1, <2>5 DEF PageIsThere
  <2>10. QED
    BY <1>d, <2>1, <2>7, <2>8, <2>9
<1>6. ASSUME NEW w \in Worker, ListEmpty(w) PROVE ErasureInv'
  <2>1. /\ pc[w] = "list" /\ Busy(w) /\ IsPage({}, stage[w], current[w].cursor)
        /\ UNCHANGED <<msg, current, todo, last, job, covers, rows>>
    BY <1>6 DEF ListEmpty, Busy, jobVars, dataVars
  <2>2. LogWorker(w) /\ msg[w].job \in Job /\ current[w] \in JobRow /\ stage[w] \in DataTarget
    BY <1>a, <1>b, <2>1 DEF WorkerOK
  <2>3. /\ stage'[w] = NextStage(current[w].target, stage[w])
        /\ pc'[w] = IF stage'[w] = "end" THEN "complete" ELSE "list"
    BY <1>6, <1>a, <2>1 DEF ListEmpty, Goto, ConsumersOK
  <2>4. ~\E r \in rows[stage[w]] : r > current[w].cursor
    BY <2>1, FS_EmptySet, BoundsAssumption DEF IsPage
  <2>5. \A i \in Job : Left(i, "logs")' = Left(i, "logs")
    BY <2>1 DEF Left
  <2>6. current[w].target \in LogTarget => Left(msg[w].job, "logs") = {}
    BY <2>1, <2>2, <2>4 DEF LogWorker, Left
  <2>7. LogWorker(w)' /\ PageIsThere(w)'
    BY <2>1, <2>2, <2>3, <2>5, <2>6 DEF LogWorker, PageIsThere
  <2>8. QED
    BY <1>d, <2>1, <2>5, <2>7
<1>7. ASSUME NEW w \in Worker, NEW r \in todo[w], Mark(w, r) \/ DeleteObject(w, r) \/ DeleteRow(w, r)
      PROVE  ErasureInv'
  <2>1. /\ pc[w] \in {"mark", "object", "row"} /\ Busy(w)
        /\ UNCHANGED <<msg, current, stage, last, job, covers>>
    BY <1>7 DEF Mark, DeleteObject, DeleteRow, Busy, jobVars, pageVars
  <2>2. /\ LogWorker(w) /\ msg[w].job \in Job /\ current[w] \in JobRow /\ stage[w] \in DataTarget
        /\ todo[w] \subseteq rows[stage[w]]
    BY <1>a, <1>b, <2>1 DEF WorkerOK, PageIsThere
  <2>3. ASSUME Mark(w, r) \/ DeleteObject(w, r)
        PROVE  ErasureInv'
    <3>1. UNCHANGED todo /\ pc'[w] \in {"object", "row", "catch"}
      BY <1>a, <2>3 DEF Mark, DeleteObject, Reply, Goto, ConsumersOK, pageVars
    <3>2. UNCHANGED rows
      <4>1. ASSUME Mark(w, r) PROVE UNCHANGED rows
        <5>1. stage[w] = "logs" /\ rows["logs"] \union {r} = rows["logs"]
          BY <2>2, <4>1 DEF BaseInv, ObjectInv, Mark
        <5>2. rows' = [rows EXCEPT !["logs"] = rows["logs"]]
          BY <4>1, <5>1 DEF Mark
        <5>3. QED
          BY <1>a, <5>2 DEF DataOK
      <4>2. QED
        BY <2>3, <4>1 DEF DeleteObject
    <3>3. \A i \in Job : Left(i, "logs")' = Left(i, "logs")
      BY <2>1, <3>2 DEF Left
    <3>4. LogWorker(w)'
      BY <2>1, <2>2, <3>1, <3>3 DEF LogWorker
    <3>5. PageIsThere(w)'
      BY <2>1, <2>2, <3>1, <3>2 DEF PageIsThere
    <3>6. QED
      BY <1>d, <2>1, <3>3, <3>4, <3>5
  <2>4. ASSUME DeleteRow(w, r) PROVE ErasureInv'
    <3>1. /\ todo'[w] = todo[w] \ {r}
          /\ pc'[w] \in {IF todo'[w] = {} THEN "advance" ELSE EraseFrom(stage[w]), "catch"}
          /\ \A t \in DataTarget : rows'[t] = IF t = stage[w] THEN rows[t] \ {r} ELSE rows[t]
      BY <1>a, <2>2, <2>4 DEF DeleteRow, Reply, Goto, ConsumersOK, DataOK
    <3>2. /\ \A i \in Job : Left(i, "logs")' \subseteq Left(i, "logs")
          /\ stage[w] = "logs" => r \notin rows'["logs"]
      BY <1>a, <2>1, <3>1 DEF Left
    <3>3. Left(msg[w].job, "logs")' \subseteq Left(msg[w].job, "logs")
      BY <2>1, <2>2, <3>2
    <3>4. LogWorker(w)'
      <4>1. stage[w] = "logs" => r \notin Left(msg[w].job, "logs")'
        BY <2>1, <3>2 DEF Left
      <4>2. QED
        BY <2>1, <2>2, <3>1, <3>3, <4>1 DEF LogWorker, EraseFrom
    <3>5. PageIsThere(w)'
      BY <2>1, <2>2, <3>1 DEF PageIsThere
    <3>6. QED
      BY <1>d, <2>1, <3>2, <3>4, <3>5
  <2>5. QED
    BY <1>7, <2>3, <2>4
<1>8. ASSUME NEW w \in Worker,
             AppendAudit(w) \/ Throws(w) \/ BeginThrows(w) \/ CatchThrows(w) \/ Crash(w)
      PROVE  ErasureInv'
  <2>1. /\ Busy(w) /\ UNCHANGED <<job, covers, rows>>
        /\ \/ pc'[w] = "idle"
           \/ pc'[w] = "catch" /\ UNCHANGED <<msg, current>>
    BY <1>8, <1>a DEF AppendAudit, Throws, BeginThrows, CatchThrows, Crash, Retry, Finish, Goto,
       ConsumersOK, Busy, jobVars, dataVars
  <2>2. \A i \in Job : Left(i, "logs")' = Left(i, "logs")
    BY <2>1 DEF Left
  <2>3. Busy(w)' => PageIsThere(w)' /\ LogWorker(w)'
    <3>1. msg[w].job \in Job /\ LogWorker(w)
      BY <1>b, <2>1
    <3>2. QED
      BY <2>1, <2>2, <3>1 DEF PageIsThere, LogWorker, Busy
  <2>4. QED
    BY <1>d, <2>1, <2>2, <2>3
<1>9. QED
  <2>1. ASSUME NEW c \in Cron, NEW j \in Job, Scheduled(c, j) PROVE ErasureInv'
    <3>1. cron[c] \in Target
      BY <2>1 DEF Scheduled, Target
    <3>2. QED
      BY <1>1, <2>1, <3>1 DEF Scheduled
  <2>2. ASSUME NEW j \in Job, NEW t \in Target, Requested(j, t) PROVE ErasureInv'
    BY <1>1, <2>2 DEF Requested
  <2>3. ASSUME NEW c \in Cron, NEW t \in DataTarget, Found(c, t) PROVE ErasureInv'
    BY <1>c, <2>3 DEF Found, Left
  <2>4. CASE Idles
    BY <1>c, <2>4 DEF Idles, Left
  <2>5. ASSUME NEW w \in Worker, Other(w) PROVE ErasureInv'
    BY <1>4, <1>5, <1>6, <1>7, <1>8, <2>5 DEF Other
  <2>6. QED
    BY <1>2, <1>3, <2>1, <2>2, <2>3, <2>4, <2>5, Groups

\* A job for the logs, or for all targets, erases every log row it covers and
\* skips none, when deliveries do not overlap: interrupted and resumed at any
\* step, with rows inserted while it runs.
THEOREM LogErasureIsSound ==
  ASSUME OneConsumer
  PROVE  Spec => []LogErasure
<1>1. BaseInv /\ ErasureInv /\ [Next]_vars => ErasureInv'
  BY StepErasure
<1>2. ErasureInv => LogErasure
  BY DEF ErasureInv, LogJobs, LogTarget, LogErasure, LogCursorSound, CursorSkipsNothing,
     LogCompletedErased, Erased, Left
<1>3. QED
  BY <1>1, <1>2, InitErasure, BaseInvariant, PTL DEF Spec
=============================================================================
