----------------------- MODULE AlertEvaluator_proofs -----------------------
(***************************************************************************)
(* Every property of AlertEvaluator, for any alerts, periods, silences,    *)
(* lock time, cron runs, and any number of failures.                       *)
(***************************************************************************)
EXTENDS AlertEvaluator, TLAPS

Pc == {"idle", "lock", "read", "null", "silences", "save", "event"}
StateRow == [status : Status \union {None}, firedAt : Nat]
Record == Mute \union {Unmuted, Deleted}

\* The locals of a run.
Run == [pc : Pc, at : Nat, todo : SUBSET Alert, alert : Alert \union {None},
        breached : BOOLEAN, prev : StateRow, silenced : BOOLEAN,
        status : Status \union {None}, known : [Silence -> Record]]

RunOK(e) ==
  /\ run[e].at <= now /\ run[e].prev.firedAt <= now
  /\ run[e].pc = "idle" => run[e] = Idle
  /\ run[e].pc # "idle" => run[e].at # 0
  /\ run[e].pc \in {"idle", "lock"} <=> run[e].alert = None
  /\ run[e].pc = "event" => run[e].status \in {"ok", "firing"}
  /\ run[e].prev.status = "pending" => run[e].prev.firedAt # 0

TablesOK ==
  /\ {now, last, throws, faults} \subseteq Nat /\ now # 0
  /\ row \in [Alert -> {"enabled", "disabled", "gone"}]
  /\ state \in [Alert -> StateRow]
  /\ \A a \in Alert : state[a].firedAt <= now
  /\ \A a \in Alert : state[a].status = "pending" => state[a].firedAt # 0
  /\ events \in [Alert -> Seq({"ok", "firing"})]
  /\ silence \in [Silence -> Record]
  /\ lock \in [Alert -> Nat]
  /\ \A a \in Alert : lock[a] <= now + LockTime
  /\ since \in [Alert -> Nat]
  /\ recent \subseteq 1..now /\ overlap \in BOOLEAN

RunsOK == run \in [Evaluator -> Run] /\ \A e \in Evaluator : RunOK(e)

Typed == TablesOK /\ RunsOK

\* What the names of no alert and of no silence tell apart.
LEMMA NamesDiffer ==
  /\ None \notin Alert /\ AllAlerts \notin Alert
  /\ Unmuted \notin Mute /\ Deleted \notin Mute /\ Unmuted # Deleted
  /\ \A a \in Alert : Unmuted.alert \notin {a, AllAlerts}
BY NameAssumption DEF None, AllAlerts, Unmuted, Deleted, Mute

LEMMA Numbers == LockTime \in Nat /\ Gap \in Nat \ {0} /\ \A a \in Alert : For[a] \in Nat
BY AlertAssumption

LEMMA TypedImpliesTypesOK == Typed => TypesOK
<1> SUFFICES ASSUME Typed PROVE TypesOK
  OBVIOUS
<1>1. \A x \in StateRow : x.firedAt <= now => x \in [status : Status \union {None}, firedAt : 0..now]
  BY DEF StateRow, Typed, TablesOK
<1>2. state \in [Alert -> [status : Status \union {None}, firedAt : 0..now]]
  BY <1>1 DEF Typed, TablesOK
<1>3. lock \in [Alert -> 0..(now + LockTime)]
  BY AlertAssumption DEF Typed, TablesOK
<1>4. ASSUME NEW e \in Evaluator
      PROVE /\ run[e].pc \in Pc
            /\ run[e].at \in 0..now /\ run[e].todo \subseteq Alert
            /\ run[e].alert \in Alert \union {None}
            /\ run[e].prev \in [status : Status \union {None}, firedAt : 0..now]
  <2>1. run[e] \in Run /\ RunOK(e) /\ now \in Nat
    BY DEF Typed, TablesOK, RunsOK
  <2>2. /\ run[e].pc \in Pc /\ run[e].at \in Nat /\ run[e].todo \subseteq Alert
        /\ run[e].alert \in Alert \union {None} /\ run[e].prev \in StateRow
    BY <2>1 DEF Run
  <2>3. run[e].at <= now /\ run[e].prev.firedAt <= now
    BY <2>1 DEF RunOK
  <2>4. QED
    BY <1>1, <2>1, <2>2, <2>3
<1>5. QED
  BY <1>2, <1>3, <1>4 DEF TypesOK, Typed, TablesOK, Record, Pc

LEMMA IdleType == Idle \in Run
  BY DEF Idle, Run, Pc, StateRow, Null, Status, Record

-----------------------------------------------------------------------------
(* What a step of a run does to its locals.                                *)

Others(e) == \A f \in Evaluator \ {e} : run'[f] = run[f]

\* The run of e gets the locals r.
LEMMA Becomes ==
  ASSUME run \in [Evaluator -> Run], NEW e \in Evaluator, NEW r \in Run,
         run' = [run EXCEPT ![e] = r]
  PROVE  run' \in [Evaluator -> Run] /\ run'[e] = r /\ Others(e)
BY DEF Others

\* The run of e turns to alert a.
LEMMA Turns ==
  ASSUME run \in [Evaluator -> Run], NEW e \in Evaluator, NEW a \in Alert, Evaluate(e, a)
  PROVE  /\ run' \in [Evaluator -> Run] /\ Others(e)
         /\ run'[e] = [run[e] EXCEPT !.pc = "read", !.alert = a, !.todo = @ \ {a}]
<1> DEFINE r == [run[e] EXCEPT !.pc = "read", !.alert = a, !.todo = @ \ {a}]
<1>1. r \in Run
  BY DEF Run, Pc
<1>2. run' = [run EXCEPT ![e] = r]
  BY DEF Evaluate
<1> HIDE DEF r
<1>3. run' \in [Evaluator -> Run] /\ run'[e] = r /\ Others(e)
  BY <1>1, <1>2, Becomes
<1>4. QED
  BY <1>3 DEF r

\* The run of e is done with its alert.
LEMMA IsDone ==
  ASSUME run \in [Evaluator -> Run], NEW e \in Evaluator, Done(e)
  PROVE  /\ run' \in [Evaluator -> Run] /\ Others(e)
         /\ run'[e] = [Idle EXCEPT !.pc = "lock", !.at = run[e].at,
                         !.known = run[e].known, !.todo = run[e].todo]
<1> DEFINE r == [Idle EXCEPT !.pc = "lock", !.at = run[e].at,
                   !.known = run[e].known, !.todo = run[e].todo]
<1>1. r \in Run
  BY IdleType DEF Run, Pc
<1>2. run' = [run EXCEPT ![e] = r]
  BY DEF Done
<1> HIDE DEF r
<1>3. run' \in [Evaluator -> Run] /\ run'[e] = r /\ Others(e)
  BY <1>1, <1>2, Becomes
<1>4. QED
  BY <1>3 DEF r

\* A step of one run keeps the locals of the others.
LEMMA RunFrame ==
  ASSUME Typed, NEW e \in Evaluator, run' \in [Evaluator -> Run], Others(e), now' = now, RunOK(e)'
  PROVE  RunsOK'
<1>1. ASSUME NEW f \in Evaluator \ {e} PROVE RunOK(f)'
  BY <1>1 DEF Typed, RunsOK, RunOK, Others
<1>2. QED
  BY <1>1 DEF RunsOK

\* A step of a run that leaves the tables and the coordinator alone.
LEMMA TablesFrame ==
  ASSUME Typed, UNCHANGED <<now, tables, lock, last, since, recent>>,
         {throws', faults'} \subseteq Nat, overlap' \in BOOLEAN
  PROVE  TablesOK'
BY DEF Typed, TablesOK, tables

LEMMA InitTyped == Init => Typed
<1> SUFFICES ASSUME Init PROVE Typed
  OBVIOUS
<1>1. TablesOK
  <2>1. Null \in StateRow /\ Null.status # "pending" /\ Null.firedAt = 0
    BY DEF StateRow, Null, None
  <2>2. state \in [Alert -> StateRow] /\ \A a \in Alert : state[a] = Null
    BY <2>1 DEF Init
  <2>3. events \in [Alert -> Seq({"ok", "firing"})]
    BY DEF Init
  <2>4. lock \in [Alert -> Nat] /\ \A a \in Alert : lock[a] <= now + LockTime
    BY Numbers DEF Init
  <2>5. /\ {now, last, throws, faults} \subseteq Nat /\ now # 0
        /\ row \in [Alert -> {"enabled", "disabled", "gone"}]
        /\ silence \in [Silence -> Record] /\ since \in [Alert -> Nat]
        /\ recent \subseteq 1..now
    BY DEF Init, Record
  <2>8. overlap \in BOOLEAN
    BY DEF Init
  <2>6. \A a \in Alert : state[a].firedAt <= now /\ state[a].status # "pending"
    BY <2>1, <2>2 DEF Init
  <2>7. QED
    BY <2>2, <2>3, <2>4, <2>5, <2>6, <2>8 DEF TablesOK
<1>2. RunsOK
  BY IdleType DEF Init, RunsOK, RunOK, Idle, Null, None
<1>3. QED
  BY <1>1, <1>2 DEF Typed

LEMMA StartTyped ==
  ASSUME Typed, NEW e \in Evaluator, Start(e)
  PROVE  /\ Typed' /\ Others(e)
         /\ run'[e] = [Idle EXCEPT !.pc = "lock", !.at = now, !.known = silence,
                         !.todo = {a \in Alert : row[a] = "enabled"}]
<1> DEFINE r == [Idle EXCEPT !.pc = "lock", !.at = now, !.known = silence,
                   !.todo = {a \in Alert : row[a] = "enabled"}]
<1>1. r \in Run
  BY IdleType DEF Run, Pc, Typed, TablesOK
<1>2. run' \in [Evaluator -> Run] /\ run'[e] = r /\ Others(e)
  <2>1. run' = [run EXCEPT ![e] = r]
    BY DEF Start
  <2> HIDE DEF r
  <2>2. QED
    BY <1>1, <2>1, Becomes DEF Typed, RunsOK
<1>3. RunsOK'
  <2>1. RunOK(e)'
    BY <1>2 DEF RunOK, Idle, Null, None, Start, Typed, TablesOK
  <2>2. QED
    BY <1>2, <2>1, RunFrame DEF Start
<1>4. TablesOK'
  BY DEF Start, Typed, TablesOK, tables, bounds
<1>5. QED
  BY <1>2, <1>3, <1>4 DEF Typed

LEMMA TryLockTyped ==
  ASSUME Typed, NEW e \in Evaluator, TryLock(e)
  PROVE  /\ Typed' /\ Others(e)
<1>a. run \in [Evaluator -> Run] /\ run[e] \in Run /\ RunOK(e) /\ now \in Nat
  BY DEF Typed, RunsOK, TablesOK
<1>1. PICK a \in run[e].todo :
       \/ lock[a] > now /\ Skip(e, a)
       \/ /\ lock[a] <= now
          /\ lock' = [lock EXCEPT ![a] = run[e].at + LockTime]
          /\ Evaluate(e, a)
          /\ UNCHANGED skipped
  BY DEF TryLock
<1>b. a \in Alert /\ run[e].pc = "lock" /\ UNCHANGED <<now, tables, last, bounds, since, recent>>
  BY <1>a, <1>1 DEF TryLock, Run
<1>2. CASE Skip(e, a)
  <2> DEFINE r == [run[e] EXCEPT !.todo = @ \ {a}]
  <2>1. r \in Run
    BY <1>a DEF Run
  <2>2. run' \in [Evaluator -> Run] /\ run'[e] = r /\ Others(e)
    <3>1. run' = [run EXCEPT ![e] = r]
      BY <1>2 DEF Skip
    <3> HIDE DEF r
    <3>2. QED
      BY <1>a, <2>1, <3>1, Becomes
  <2>3. RunOK(e)'
    BY <1>a, <1>b, <2>2 DEF RunOK, Run
  <2>4. TablesOK'
    BY <1>2, <1>b, TablesFrame DEF Skip, bounds, Typed, TablesOK
  <2>5. QED
    BY <1>b, <2>2, <2>3, <2>4, RunFrame DEF Typed
<1>3. CASE Evaluate(e, a) /\ lock' = [lock EXCEPT ![a] = run[e].at + LockTime]
  <2>1. /\ run' \in [Evaluator -> Run] /\ Others(e)
        /\ run'[e] = [run[e] EXCEPT !.pc = "read", !.alert = a, !.todo = @ \ {a}]
    BY <1>a, <1>b, <1>3, Turns
  <2>2. RunOK(e)'
    BY <1>a, <1>b, <2>1, NamesDiffer DEF RunOK, Run
  <2>3. /\ lock' \in [Alert -> Nat] /\ \A b \in Alert : lock'[b] <= now' + LockTime
    BY <1>a, <1>b, <1>3, Numbers DEF Typed, TablesOK, RunOK, Run
  <2>4. overlap' \in BOOLEAN
    BY <1>3 DEF Evaluate
  <2>5. TablesOK'
    BY <1>b, <2>3, <2>4 DEF Typed, TablesOK, tables, bounds
  <2>6. QED
    BY <1>b, <2>1, <2>2, <2>5, RunFrame DEF Typed
<1>4. QED
  BY <1>1, <1>2, <1>3

LEMMA LockFailsTyped ==
  ASSUME Typed, NEW e \in Evaluator, LockFails(e)
  PROVE  /\ Typed' /\ Others(e)
<1>a. run \in [Evaluator -> Run] /\ run[e] \in Run /\ RunOK(e) /\ faults \in Nat
  BY DEF Typed, RunsOK, TablesOK
<1>1. PICK a \in run[e].todo : Evaluate(e, a)
  BY DEF LockFails
<1>b. a \in Alert /\ run[e].pc = "lock"
  BY <1>a, <1>1 DEF LockFails, Run
<1>2. /\ run' \in [Evaluator -> Run] /\ Others(e)
      /\ run'[e] = [run[e] EXCEPT !.pc = "read", !.alert = a, !.todo = @ \ {a}]
  BY <1>a, <1>b, <1>1, Turns
<1>3. RunOK(e)'
  BY <1>a, <1>b, <1>2, NamesDiffer DEF RunOK, Run, LockFails
<1>4. TablesOK'
  BY <1>a, <1>1, TablesFrame DEF LockFails, Evaluate, Typed, TablesOK
<1>5. QED
  BY <1>2, <1>3, <1>4, RunFrame DEF Typed, LockFails

\* A run that goes idle or on to its next alert.
LEMMA LeavesTyped ==
  ASSUME Typed, NEW e \in Evaluator, TablesOK', now' = now,
         \/ run' = [run EXCEPT ![e] = Idle]
         \/ Done(e) /\ run[e].pc # "idle"
  PROVE  /\ Typed' /\ Others(e)
<1>a. run \in [Evaluator -> Run] /\ run[e] \in Run /\ RunOK(e) /\ now \in Nat
  BY DEF Typed, RunsOK, TablesOK
<1>1. CASE run' = [run EXCEPT ![e] = Idle]
  <2>1. run' \in [Evaluator -> Run] /\ run'[e] = Idle /\ Others(e)
    BY <1>a, <1>1, IdleType, Becomes
  <2>2. RunOK(e)'
    BY <1>a, <2>1 DEF RunOK, Idle, Null, None
  <2>3. QED
    BY <2>1, <2>2, RunFrame DEF Typed
<1>2. CASE Done(e) /\ run[e].pc # "idle"
  <2>1. /\ run' \in [Evaluator -> Run] /\ Others(e)
        /\ run'[e] = [Idle EXCEPT !.pc = "lock", !.at = run[e].at,
                        !.known = run[e].known, !.todo = run[e].todo]
    BY <1>a, <1>2, IsDone
  <2>2. RunOK(e)'
    BY <1>a, <1>2, <2>1 DEF RunOK, Idle, Null, None, Run
  <2>3. QED
    BY <2>1, <2>2, RunFrame DEF Typed
<1>3. QED
  BY <1>1, <1>2

LEMMA ReadStateTyped ==
  ASSUME Typed, NEW e \in Evaluator, ReadState(e)
  PROVE  /\ Typed' /\ Others(e) /\ run[e].alert \in Alert
         /\ run'[e].pc \in {"silences", "null"} /\ run'[e].prev = state[run[e].alert]
         /\ run'[e].alert = run[e].alert /\ run'[e].silenced = run[e].silenced
         /\ run'[e].at = run[e].at /\ run'[e].known = run[e].known
         /\ run'[e].todo = run[e].todo
<1>a. run \in [Evaluator -> Run] /\ run[e] \in Run /\ RunOK(e) /\ now \in Nat
  BY DEF Typed, RunsOK, TablesOK
<1>b. run[e].alert \in Alert /\ run[e].pc = "read"
  BY <1>a DEF ReadState, RunOK, Run
<1>c. /\ state[run[e].alert] \in StateRow
      /\ state[run[e].alert].firedAt <= now
      /\ state[run[e].alert].status = "pending" => state[run[e].alert].firedAt # 0
  BY <1>b DEF Typed, TablesOK
<1> DEFINE Read(r) ==
             /\ r.pc \in {"silences", "null"} /\ r.prev = state[run[e].alert]
             /\ r.alert = run[e].alert /\ r.silenced = run[e].silenced
             /\ r.at = run[e].at /\ r.known = run[e].known /\ r.todo = run[e].todo
             /\ run' = [run EXCEPT ![e] = r]
<1>d. ASSUME NEW b \in BOOLEAN,
             run' = [run EXCEPT ![e].pc = "silences", ![e].breached = b,
                                ![e].prev = state[run[e].alert]]
      PROVE  \E r \in Run : Read(r)
  <2> DEFINE r == [run[e] EXCEPT !.pc = "silences", !.breached = b,
                                 !.prev = state[run[e].alert]]
  <2>1. r \in Run
    BY <1>a, <1>c DEF Run, Pc
  <2>2. Read(r)
    BY <1>a, <1>d DEF Run
  <2> HIDE DEF r, Read
  <2>3. QED
    BY <2>1, <2>2
<1>e. ASSUME run' = [run EXCEPT ![e].pc = "null", ![e].prev = state[run[e].alert]]
      PROVE  \E r \in Run : Read(r)
  <2> DEFINE r == [run[e] EXCEPT !.pc = "null", !.prev = state[run[e].alert]]
  <2>1. r \in Run
    BY <1>a, <1>c DEF Run, Pc
  <2>2. Read(r)
    BY <1>a, <1>e DEF Run
  <2> HIDE DEF r, Read
  <2>3. QED
    BY <2>1, <2>2
<1>1. PICK r \in Run : Read(r)
  <2> HIDE DEF Read
  <2>1. QED
    BY <1>d, <1>e DEF ReadState
<1>2. run' \in [Evaluator -> Run] /\ run'[e] = r /\ Others(e)
  BY <1>a, <1>1, Becomes
<1>3. RunOK(e)'
  BY <1>a, <1>b, <1>c, <1>1, <1>2, NamesDiffer DEF RunOK, ReadState
<1>4. TablesOK'
  BY TablesFrame DEF ReadState, bounds, history, Typed, TablesOK
<1>5. QED
  BY <1>b, <1>1, <1>2, <1>3, <1>4, RunFrame DEF Typed, ReadState

LEMMA ListSilencesTyped ==
  ASSUME Typed, NEW e \in Evaluator, ListSilences(e)
  PROVE  /\ Typed' /\ Others(e) /\ run[e].alert \in Alert
         /\ run'[e].pc = "save"
         /\ run'[e].silenced = \E s \in Silence : Active(silence[s], run[e].at, run[e].alert)
         /\ run'[e].alert = run[e].alert /\ run'[e].prev = run[e].prev
         /\ run'[e].at = run[e].at /\ run'[e].known = run[e].known
         /\ run'[e].todo = run[e].todo
<1>a. run \in [Evaluator -> Run] /\ run[e] \in Run /\ RunOK(e) /\ now \in Nat
  BY DEF Typed, RunsOK, TablesOK
<1>b. run[e].alert \in Alert /\ run[e].pc = "silences"
  BY <1>a DEF ListSilences, RunOK, Run
<1> DEFINE quiet == \E s \in Silence : Active(silence[s], run[e].at, run[e].alert)
           r == [run[e] EXCEPT !.pc = "save", !.silenced = quiet]
<1>1. quiet \in BOOLEAN
  OBVIOUS
<1>2. run' = [run EXCEPT ![e] = r]
  BY DEF ListSilences
<1> HIDE DEF quiet
<1>3. r \in Run /\ r.silenced = quiet
  BY <1>a, <1>1 DEF Run, Pc
<1>4. /\ r.pc = "save" /\ r.alert = run[e].alert /\ r.prev = run[e].prev
      /\ r.at = run[e].at /\ r.known = run[e].known /\ r.todo = run[e].todo
  BY <1>a DEF Run
<1> HIDE DEF r
<1>5. run' \in [Evaluator -> Run] /\ run'[e] = r /\ Others(e)
  BY <1>a, <1>2, <1>3, Becomes
<1>6. RunOK(e)'
  BY <1>a, <1>b, <1>4, <1>5, NamesDiffer DEF RunOK, ListSilences
<1>7. TablesOK'
  BY TablesFrame DEF ListSilences, bounds, history, Typed, TablesOK
<1>8. Typed'
  BY <1>5, <1>6, <1>7, RunFrame DEF Typed, ListSilences
<1>9. QED
  BY <1>b, <1>3, <1>4, <1>5, <1>8 DEF quiet

\* What is saved is a state, and a pending one says since when.
LEMMA SavedState ==
  ASSUME Typed, NEW e \in Evaluator, NEW a \in Alert, run[e].pc # "idle"
  PROVE  LET p == run[e].prev
             status == NextStatus(a, run[e].breached, p, run[e].at)
             new == [status |-> status, firedAt |-> FiredAt(status, p, run[e].at)]
         IN  /\ new \in StateRow /\ status \in Status /\ new.firedAt <= now
             /\ status = "pending" => new.firedAt # 0
<1>a. /\ run[e] \in Run /\ RunOK(e) /\ now \in Nat
  BY DEF Typed, RunsOK, TablesOK
<1>b. /\ run[e].prev \in StateRow /\ run[e].at \in Nat /\ run[e].at # 0
      /\ run[e].at <= now /\ run[e].prev.firedAt <= now
      /\ run[e].prev.status = "pending" => run[e].prev.firedAt # 0
  BY <1>a DEF RunOK, Run
<1> DEFINE p == run[e].prev
           status == NextStatus(a, run[e].breached, p, run[e].at)
<1>1. status \in Status
  BY DEF NextStatus, Status
<1> HIDE DEF status
<1>2. /\ FiredAt(status, p, run[e].at) \in Nat /\ FiredAt(status, p, run[e].at) <= now
      /\ status = "pending" => FiredAt(status, p, run[e].at) # 0
  BY <1>a, <1>b, <1>1 DEF FiredAt, Status, StateRow
<1>3. QED
  BY <1>1, <1>2 DEF StateRow, status

LEMMA SaveTyped ==
  ASSUME Typed, NEW e \in Evaluator, Save(e)
  PROVE  /\ Typed' /\ Others(e) /\ run[e].alert \in Alert
<1>a. run \in [Evaluator -> Run] /\ run[e] \in Run /\ RunOK(e) /\ now \in Nat
  BY DEF Typed, RunsOK, TablesOK
<1>b. run[e].alert \in Alert /\ run[e].pc = "save"
  BY <1>a DEF Save, RunOK, Run
<1> DEFINE a == run[e].alert
           p == run[e].prev
           status == NextStatus(a, run[e].breached, p, run[e].at)
           new == [status |-> status, firedAt |-> FiredAt(status, p, run[e].at)]
<1>1. /\ new \in StateRow /\ status \in Status /\ new.firedAt <= now
      /\ new.status = "pending" => new.firedAt # 0
  BY <1>b, SavedState
<1>2. /\ state' = [state EXCEPT ![a] = new]
      /\ since' = [since EXCEPT ![a] = IF ~run[e].breached THEN 0 ELSE IF @ = 0 THEN run[e].at ELSE @]
      /\ UNCHANGED <<now, row, events, silence, lock, last, bounds, recent, skipped, overlap>>
      /\ IF ~run[e].silenced /\ Transition(p, status)
         THEN run' = [run EXCEPT ![e].pc = "event", ![e].status = status] ELSE Done(e)
  BY DEF Save
<1>3. Transition(p, status) => status \in {"ok", "firing"}
  BY DEF Transition
<1> HIDE DEF new, status
<1>4. TablesOK'
  <2>1. /\ state' \in [Alert -> StateRow]
        /\ \A b \in Alert : state'[b].firedAt <= now' /\ (state'[b].status = "pending" => state'[b].firedAt # 0)
    BY <1>b, <1>1, <1>2 DEF Typed, TablesOK
  <2>2. since' \in [Alert -> Nat]
    BY <1>a, <1>2 DEF Typed, TablesOK, Run
  <2>3. QED
    BY <1>2, <2>1, <2>2 DEF Typed, TablesOK, bounds
<1>5. CASE ~run[e].silenced /\ Transition(p, status)
  <2> DEFINE r == [run[e] EXCEPT !.pc = "event", !.status = status]
  <2>1. r \in Run /\ run' = [run EXCEPT ![e] = r]
    BY <1>a, <1>1, <1>2, <1>5 DEF Run, Pc
  <2>2. /\ r.pc = "event" /\ r.alert = run[e].alert /\ r.prev = run[e].prev
        /\ r.at = run[e].at /\ r.status = status
    BY <1>a DEF Run
  <2> HIDE DEF r
  <2>3. run' \in [Evaluator -> Run] /\ run'[e] = r /\ Others(e)
    BY <1>a, <2>1, Becomes
  <2>4. RunOK(e)'
    BY <1>a, <1>b, <1>2, <1>3, <1>5, <2>2, <2>3, NamesDiffer DEF RunOK
  <2>5. QED
    BY <1>b, <1>2, <1>4, <2>3, <2>4, RunFrame DEF Typed
<1>6. CASE ~(~run[e].silenced /\ Transition(p, status))
  BY <1>b, <1>2, <1>4, <1>6, LeavesTyped
<1>7. QED
  BY <1>5, <1>6

LEMMA SaveNullTyped ==
  ASSUME Typed, NEW e \in Evaluator, SaveNull(e)
  PROVE  /\ Typed' /\ Others(e) /\ run[e].alert \in Alert
<1>a. run \in [Evaluator -> Run] /\ run[e] \in Run /\ RunOK(e) /\ now \in Nat
  BY DEF Typed, RunsOK, TablesOK
<1>b. run[e].alert \in Alert /\ run[e].pc = "null" /\ run[e].prev \in StateRow
  BY <1>a DEF SaveNull, RunOK, Run
<1> DEFINE new == IF run[e].prev = Null THEN [status |-> "ok", firedAt |-> 0] ELSE run[e].prev
<1>1. /\ new \in StateRow /\ new.firedAt <= now
      /\ new.status = "pending" => new.firedAt # 0
  BY <1>a, <1>b DEF StateRow, Status, RunOK
<1>2. /\ state' = [state EXCEPT ![run[e].alert] = new] /\ Done(e)
      /\ UNCHANGED <<now, row, events, silence, lock, last, bounds, history>>
  BY DEF SaveNull
<1> HIDE DEF new
<1>3. TablesOK'
  <2>1. /\ state' \in [Alert -> StateRow]
        /\ \A b \in Alert : state'[b].firedAt <= now' /\ (state'[b].status = "pending" => state'[b].firedAt # 0)
    BY <1>b, <1>1, <1>2 DEF Typed, TablesOK
  <2>2. QED
    BY <1>2, <2>1 DEF Typed, TablesOK, bounds, history
<1>4. QED
  BY <1>b, <1>2, <1>3, LeavesTyped

LEMMA AppendEventTyped ==
  ASSUME Typed, NEW e \in Evaluator, AppendEvent(e)
  PROVE  /\ Typed' /\ Others(e) /\ run[e].alert \in Alert
         /\ events' = [events EXCEPT ![run[e].alert] = Append(@, run[e].status)]
<1>a. run[e] \in Run /\ RunOK(e)
  BY DEF Typed, RunsOK
<1>b. run[e].alert \in Alert /\ run[e].pc = "event" /\ run[e].status \in {"ok", "firing"}
  BY <1>a DEF AppendEvent, RunOK, Run
<1>1. events' \in [Alert -> Seq({"ok", "firing"})]
  <2>1. events[run[e].alert] \in Seq({"ok", "firing"})
    BY <1>b DEF Typed, TablesOK
  <2>2. Append(events[run[e].alert], run[e].status) \in Seq({"ok", "firing"})
    BY <1>b, <2>1
  <2>3. QED
    BY <1>b, <2>2 DEF AppendEvent, Typed, TablesOK
<1>2. TablesOK'
  BY <1>1 DEF AppendEvent, Typed, TablesOK, bounds, history
<1>3. QED
  BY <1>b, <1>2, LeavesTyped DEF AppendEvent

\* A run that is refused, throws, is killed or has done its alerts.
LEMMA EndsTyped ==
  ASSUME Typed, NEW e \in Evaluator, SaveRefused(e) \/ Throws(e) \/ Finish(e)
  PROVE  /\ Typed' /\ Others(e) /\ run'[e] = Idle
         /\ UNCHANGED <<now, tables, lock, last, faults, history>>
         /\ throws' = throws \/ throws' = throws + 1
<1>1. /\ run' = [run EXCEPT ![e] = Idle] /\ UNCHANGED <<now, tables, lock, last, faults, history>>
      /\ throws' = throws \/ throws' = throws + 1
  BY DEF SaveRefused, Throws, Finish, bounds
<1>2. TablesOK'
  BY <1>1, TablesFrame DEF history, Typed, TablesOK
<1>3. run'[e] = Idle
  BY <1>1 DEF Typed, RunsOK
<1>4. QED
  BY <1>1, <1>2, <1>3, LeavesTyped

LEMMA TickTyped ==
  ASSUME Typed, Tick
  PROVE  Typed'
<1>a. now \in Nat /\ now' = now + 1 /\ UNCHANGED <<tables, lock, run, last, bounds, since, skipped, overlap>>
  BY DEF Typed, TablesOK, Tick
<1>1. TablesOK'
  <2>a. recent' \subseteq recent
    BY DEF Tick
  <2>b. 1..now \subseteq 1..now'
    BY <1>a
  <2>1. recent' \subseteq 1..now'
    BY <2>a, <2>b DEF Typed, TablesOK
  <2>2. /\ \A a \in Alert : state'[a].firedAt <= now' /\ lock'[a] <= now' + LockTime
    BY <1>a, Numbers DEF Typed, TablesOK, tables, StateRow
  <2>3. QED
    BY <1>a, <2>1, <2>2 DEF Typed, TablesOK, tables, bounds
<1>2. RunsOK'
  <2>1. ASSUME NEW e \in Evaluator PROVE RunOK(e)'
    BY <1>a DEF Typed, RunsOK, RunOK, Run, StateRow
  <2>2. QED
    BY <1>a, <2>1 DEF Typed, RunsOK
<1>3. QED
  BY <1>1, <1>2 DEF Typed

\* A user's request changes the alerts or the silences only.
Request ==
  \/ \E a \in Alert : SaveAlert(a) \/ DeleteAlert(a)
  \/ \E s \in Silence : CreateSilence(s) \/ DeleteSilence(s)

LEMMA RequestTyped ==
  ASSUME Typed, Request
  PROVE  /\ Typed' /\ UNCHANGED <<now, state, events, lock, run, last, bounds, history>>
<1>1. UNCHANGED <<now, state, events, lock, run, last, bounds, history>>
  BY DEF Request, SaveAlert, DeleteAlert, CreateSilence, DeleteSilence
<1>2. row' \in [Alert -> {"enabled", "disabled", "gone"}] /\ silence' \in [Silence -> Record]
  <2>1. CASE \E a \in Alert : SaveAlert(a) \/ DeleteAlert(a)
    BY <2>1 DEF SaveAlert, DeleteAlert, Typed, TablesOK
  <2>2. ASSUME NEW s \in Silence, CreateSilence(s) PROVE silence' \in [Silence -> Record] /\ row' = row
    <3>1. PICK w \in Window, a \in Alert \union {AllAlerts} :
            silence' = [silence EXCEPT ![s] = [alert |-> a, from |-> w[1], to |-> w[2]]]
      BY <2>2 DEF CreateSilence
    <3>2. [alert |-> a, from |-> w[1], to |-> w[2]] \in Mute
      BY AlertAssumption DEF Mute
    <3>3. QED
      BY <2>2, <3>1, <3>2 DEF CreateSilence, Typed, TablesOK, Record
  <2>3. ASSUME NEW s \in Silence, DeleteSilence(s) PROVE silence' \in [Silence -> Record] /\ row' = row
    BY <2>3 DEF DeleteSilence, Typed, TablesOK, Record
  <2>4. QED
    BY <2>1, <2>2, <2>3 DEF Request, Typed, TablesOK
<1>3. TablesOK'
  BY <1>1, <1>2 DEF Typed, TablesOK, bounds, history
<1>4. RunsOK'
  BY <1>1 DEF Typed, RunsOK, RunOK
<1>5. QED
  BY <1>1, <1>3, <1>4 DEF Typed

\* Whoever takes a step is typed after it; a step of one run leaves the others'
\* locals alone.
LEMMA EvaluationTyped ==
  ASSUME Typed, NEW e \in Evaluator, Evaluation(e)
  PROVE  Typed' /\ Others(e)
BY StartTyped, TryLockTyped, LockFailsTyped, ReadStateTyped, SaveNullTyped, ListSilencesTyped,
   SaveTyped, AppendEventTyped, EndsTyped DEF Evaluation

LEMMA NextCases ==
  ASSUME Next
  PROVE  Tick \/ (\E e \in Evaluator : Evaluation(e)) \/ Request
BY DEF Next, Request

LEMMA StepTyped == Typed /\ [Next]_vars => Typed'
<1> SUFFICES ASSUME Typed, [Next]_vars PROVE Typed'
  OBVIOUS
<1>1. CASE UNCHANGED vars
  BY <1>1 DEF vars, tables, bounds, history, Typed, TablesOK, RunsOK, RunOK
<1>2. CASE Next
  BY <1>2, NextCases, TickTyped, EvaluationTyped, RequestTyped
<1>3. QED
  BY <1>1, <1>2

-----------------------------------------------------------------------------
(* What the steps after the lock have in common.                           *)

AfterLock(e) ==
  \/ ReadState(e) \/ SaveNull(e) \/ ListSilences(e) \/ Save(e) \/ AppendEvent(e)
  \/ SaveRefused(e) \/ Throws(e) \/ Finish(e)

Between(n, k, t) == [Idle EXCEPT !.pc = "lock", !.at = n, !.known = k, !.todo = t]

LEMMA BetweenAlerts ==
  ASSUME NEW n, NEW k, NEW t
  PROVE  /\ Between(n, k, t).pc = "lock" /\ Between(n, k, t).alert = None
         /\ ~Between(n, k, t).silenced /\ Between(n, k, t).at = n
         /\ Between(n, k, t).known = k /\ Between(n, k, t).todo = t
<1>1. ASSUME NEW x \in Run
      PROVE LET r == [x EXCEPT !.pc = "lock", !.at = n, !.known = k, !.todo = t] IN
            /\ r.pc = "lock" /\ r.alert = x.alert /\ r.silenced = x.silenced
            /\ r.at = n /\ r.known = k /\ r.todo = t
  BY DEF Run
<1>2. Idle \in Run /\ Idle.alert = None /\ ~Idle.silenced
  BY IdleType DEF Idle
<1>3. QED
  BY <1>1, <1>2 DEF Between

\* Done leaves the run between two alerts.
LEMMA DoneLocals ==
  ASSUME Typed, NEW e \in Evaluator, Done(e)
  PROVE  /\ run'[e].pc = "lock" /\ run'[e].alert = None /\ ~run'[e].silenced
         /\ run'[e].at = run[e].at /\ run'[e].known = run[e].known /\ run'[e].todo = run[e].todo
<1>1. run'[e] = Between(run[e].at, run[e].known, run[e].todo)
  BY IsDone DEF Between, Typed, RunsOK
<1>2. QED
  BY <1>1, BetweenAlerts

\* Once its state is saved a run appends its event or is done with the alert.
LEMMA SaveLocals ==
  ASSUME Typed, NEW e \in Evaluator, Save(e)
  PROVE  LET status == NextStatus(run[e].alert, run[e].breached, run[e].prev, run[e].at) IN
         \/ /\ run'[e].pc = "event" /\ run'[e].alert = run[e].alert /\ run'[e].at = run[e].at
            /\ run'[e].known = run[e].known /\ run'[e].todo = run[e].todo
            /\ ~run[e].silenced /\ ~run'[e].silenced
            /\ run'[e].status = status /\ Transition(run[e].prev, status)
         \/ Done(e) /\ (run[e].silenced \/ ~Transition(run[e].prev, status))
<1> DEFINE status == NextStatus(run[e].alert, run[e].breached, run[e].prev, run[e].at)
<1>1. run \in [Evaluator -> Run] /\ run[e] \in Run
  BY DEF Typed, RunsOK
<1>2. IF ~run[e].silenced /\ Transition(run[e].prev, status)
      THEN run' = [run EXCEPT ![e].pc = "event", ![e].status = status] ELSE Done(e)
  BY DEF Save
<1> HIDE DEF status
<1>3. ASSUME ~run[e].silenced, Transition(run[e].prev, status),
             run' = [run EXCEPT ![e].pc = "event", ![e].status = status]
      PROVE  /\ run'[e].pc = "event" /\ run'[e].alert = run[e].alert /\ run'[e].at = run[e].at
             /\ run'[e].known = run[e].known /\ run'[e].todo = run[e].todo
             /\ run'[e].silenced = run[e].silenced /\ run'[e].status = status
  BY <1>1, <1>3 DEF Run
<1>4. QED
  BY <1>2, <1>3 DEF status

\* Past its lock a run keeps its start and what it knew, and its alert till it
\* leaves it.
LEMMA AfterLockLocals ==
  ASSUME Typed, NEW e \in Evaluator, AfterLock(e)
  PROVE  /\ UNCHANGED <<now, lock, last, faults, recent, skipped, overlap, row, silence>>
         /\ run[e].pc # "idle"
         /\ run'[e].alert # None => run'[e].alert = run[e].alert
         /\ run'[e].pc # "idle" => /\ run'[e].at = run[e].at /\ run'[e].known = run[e].known
                                   /\ run'[e].todo = run[e].todo
<1>0. Idle.pc = "idle" /\ Idle.alert = None /\ (run[e].pc = "idle" => run[e] = Idle)
  BY DEF Idle, Typed, RunsOK, RunOK
<1>1. CASE ReadState(e) \/ ListSilences(e)
  BY <1>1, ReadStateTyped, ListSilencesTyped DEF ReadState, ListSilences, tables, bounds, history
<1>2. CASE SaveNull(e) \/ AppendEvent(e)
  BY <1>2, DoneLocals DEF SaveNull, AppendEvent, bounds, history
<1>3. CASE Save(e)
  BY <1>3, DoneLocals, SaveLocals DEF Save, bounds
<1>4. CASE SaveRefused(e) \/ Throws(e) \/ Finish(e)
  BY <1>0, <1>4, EndsTyped DEF SaveRefused, Throws, Finish, tables, history
<1>5. QED
  BY <1>1, <1>2, <1>3, <1>4 DEF AfterLock

LEMMA StartLocals ==
  ASSUME Typed, NEW e \in Evaluator, Start(e)
  PROVE  /\ UNCHANGED <<now, tables, lock, bounds, since, skipped, overlap>>
         /\ run[e].pc = "idle" /\ run'[e].pc = "lock" /\ run'[e].alert = None
         /\ ~run'[e].silenced
         /\ run'[e].at = now /\ run'[e].known = silence
         /\ last' = now /\ recent' = recent \union {now} /\ (last = 0 \/ now >= last + Gap)
<1>1. run'[e] = Between(now, silence, {a \in Alert : row[a] = "enabled"})
  BY StartTyped DEF Between
<1>2. run[e].pc = "idle"
  BY DEF Start, Idle
<1>3. /\ run'[e].pc = "lock" /\ run'[e].alert = None /\ ~run'[e].silenced
      /\ run'[e].at = now /\ run'[e].known = silence
  BY <1>1, BetweenAlerts
<1>4. QED
  BY <1>2, <1>3 DEF Start

\* A run that asks for a lock skips the alert, or takes the lock, or fails to
\* ask and goes on without it.
LEMMA LockLocals ==
  ASSUME Typed, NEW e \in Evaluator, TryLock(e) \/ LockFails(e)
  PROVE  /\ UNCHANGED <<now, tables, last, throws, since, recent>>
         /\ run[e].pc = "lock" /\ run'[e].pc # "idle"
         /\ run'[e].at = run[e].at /\ run'[e].known = run[e].known
         /\ run'[e].silenced = run[e].silenced
         /\ \E a \in run[e].todo : a \in Alert /\ run'[e].todo = run[e].todo \ {a} /\
              \/ /\ TryLock(e) /\ faults' = faults
                 /\ run'[e].pc = "lock" /\ run'[e].alert = None
                 /\ lock[a] > now /\ lock' = lock /\ overlap' = overlap
                 /\ skipped' = IF recent \subseteq {run[e].at} THEN skipped \union {a} ELSE skipped
              \/ /\ run'[e].pc = "read" /\ run'[e].alert = a /\ skipped' = skipped
                 /\ overlap' = (overlap \/ \E f \in Evaluator \ {e} : run[f].alert = a)
                 /\ \/ /\ TryLock(e) /\ faults' = faults /\ lock[a] <= now
                       /\ lock' = [lock EXCEPT ![a] = run[e].at + LockTime]
                    \/ LockFails(e) /\ faults' = faults + 1 /\ lock' = lock
<1>a. run \in [Evaluator -> Run] /\ run[e] \in Run /\ RunOK(e) /\ now \in Nat
  BY DEF Typed, RunsOK, TablesOK
<1>1. ASSUME NEW a \in run[e].todo, Evaluate(e, a)
      PROVE  /\ run'[e].pc = "read" /\ run'[e].alert = a /\ run'[e].todo = run[e].todo \ {a}
             /\ run'[e].at = run[e].at /\ run'[e].known = run[e].known
             /\ run'[e].silenced = run[e].silenced
             /\ overlap' = (overlap \/ \E f \in Evaluator \ {e} : run[f].alert = a)
  <2>1. a \in Alert
    BY <1>a DEF Run
  <2>2. run'[e] = [run[e] EXCEPT !.pc = "read", !.alert = a, !.todo = @ \ {a}]
    BY <1>a, <1>1, <2>1, Turns
  <2>3. QED
    BY <1>a, <1>1, <2>2 DEF Run, Evaluate
<1>2. ASSUME NEW a \in run[e].todo, Skip(e, a)
      PROVE  /\ run'[e].pc = run[e].pc /\ run'[e].alert = run[e].alert
             /\ run'[e].todo = run[e].todo \ {a}
             /\ run'[e].at = run[e].at /\ run'[e].known = run[e].known
             /\ run'[e].silenced = run[e].silenced
  BY <1>a, <1>2 DEF Skip, Run
<1>3. run[e].todo \subseteq Alert /\ (run[e].pc = "lock" => run[e].alert = None)
  BY <1>a DEF Run, RunOK
<1>4. CASE TryLock(e)
  <2>1. PICK a \in run[e].todo :
         \/ lock[a] > now /\ Skip(e, a)
         \/ /\ lock[a] <= now
            /\ lock' = [lock EXCEPT ![a] = run[e].at + LockTime]
            /\ Evaluate(e, a)
            /\ UNCHANGED skipped
    BY <1>4 DEF TryLock
  <2>2. run[e].pc = "lock" /\ UNCHANGED <<now, tables, last, throws, faults, since, recent>>
    BY <1>4 DEF TryLock, bounds
  <2>3. CASE lock[a] > now /\ Skip(e, a)
    BY <1>2, <1>3, <1>4, <2>2, <2>3 DEF Skip
  <2>4. CASE Evaluate(e, a) /\ lock[a] <= now /\ UNCHANGED skipped
             /\ lock' = [lock EXCEPT ![a] = run[e].at + LockTime]
    BY <1>1, <1>3, <1>4, <2>2, <2>4
  <2>5. QED
    BY <2>1, <2>3, <2>4
<1>5. CASE LockFails(e)
  <2>1. PICK a \in run[e].todo : Evaluate(e, a)
    BY <1>5 DEF LockFails
  <2>2. /\ run[e].pc = "lock" /\ faults' = faults + 1
        /\ UNCHANGED <<now, tables, lock, last, throws, since, recent, skipped>>
    BY <1>5 DEF LockFails
  <2>3. QED
    BY <1>1, <1>3, <1>5, <2>1, <2>2
<1>6. QED
  BY <1>4, <1>5

LEMMA EvaluationCases ==
  ASSUME NEW e \in Evaluator, Evaluation(e)
  PROVE  Start(e) \/ TryLock(e) \/ LockFails(e) \/ AfterLock(e)
BY DEF Evaluation, AfterLock

-----------------------------------------------------------------------------
(* One evaluator at a time: while the coordinator answers, an alert is     *)
(* locked for LockTime from the start of the run that evaluates it, or     *)
(* that time is over.                                                      *)

Over(e) == now >= run[e].at + LockTime

LockLasts(e) == run[e].alert # None => Over(e) \/ lock[run[e].alert] >= run[e].at + LockTime

Apart(e, f) ==
  run[e].alert # None /\ run[e].alert = run[f].alert => e = f \/ Over(e) \/ Over(f)

Exclusive ==
  faults = 0 => /\ \A e \in Evaluator : LockLasts(e)
                /\ \A e, f \in Evaluator : Apart(e, f)

\* The evaluators stay apart while none gets an alert and no lock changes.
LEMMA ExclusiveFrame ==
  ASSUME Typed, Typed', Exclusive, lock' = lock, faults' = 0 => faults = 0, now' >= now,
         \A e \in Evaluator : run'[e].alert # None =>
           run'[e].alert = run[e].alert /\ run'[e].at = run[e].at
  PROVE  Exclusive'
<1>a. now \in Nat /\ now' \in Nat /\ LockTime \in Nat
  BY Numbers DEF Typed, TablesOK
<1>b. \A e \in Evaluator : run[e].at \in Nat /\ run'[e].at \in Nat
  BY DEF Typed, RunsOK, Run
<1>1. SUFFICES ASSUME faults = 0
               PROVE /\ \A e \in Evaluator : LockLasts(e)'
                     /\ \A e, f \in Evaluator : Apart(e, f)'
  BY DEF Exclusive
<1>2. \A e \in Evaluator : Over(e) /\ run'[e].at = run[e].at => Over(e)'
  BY <1>a, <1>b DEF Over
<1>3. ASSUME NEW e \in Evaluator PROVE LockLasts(e)'
  BY <1>1, <1>2 DEF Exclusive, LockLasts
<1>4. ASSUME NEW e \in Evaluator, NEW f \in Evaluator PROVE Apart(e, f)'
  BY <1>1, <1>2 DEF Exclusive, Apart
<1>5. QED
  BY <1>3, <1>4

LEMMA ExclusiveLock ==
  ASSUME Typed, Typed', Exclusive, NEW e \in Evaluator, Others(e), TryLock(e)
  PROVE  Exclusive'
<1>a. now \in Nat /\ now' = now /\ LockTime \in Nat
  BY Numbers DEF Typed, TablesOK, TryLock
<1>b. \A f \in Evaluator : run[f].at \in Nat
  BY DEF Typed, RunsOK, Run
<1>c. \A f \in Evaluator \ {e} : run'[f] = run[f]
  BY DEF Others
<1>1. SUFFICES ASSUME faults' = 0
               PROVE /\ \A f \in Evaluator : LockLasts(f)'
                     /\ \A f, g \in Evaluator : Apart(f, g)'
  BY DEF Exclusive
<1>d. faults = 0 /\ ~LockFails(e)
  BY <1>1 DEF TryLock, LockFails, bounds, Typed, TablesOK
<1>2. PICK a \in Alert :
        /\ run'[e].at = run[e].at
        /\ \/ run'[e].alert = None /\ lock' = lock
           \/ /\ run'[e].alert = a /\ lock[a] <= now
              /\ lock' = [lock EXCEPT ![a] = run[e].at + LockTime]
  BY <1>d, LockLocals
<1>3. CASE run'[e].alert = None /\ lock' = lock
  <2>1. \A f \in Evaluator : run'[f].alert # None =>
          run'[f].alert = run[f].alert /\ run'[f].at = run[f].at
    BY <1>c, <1>3
  <2>2. Exclusive'
    BY <1>a, <1>d, <1>3, <2>1, ExclusiveFrame
  <2>3. QED
    BY <1>1, <2>2 DEF Exclusive
<1>4. CASE /\ run'[e].alert = a /\ lock[a] <= now
           /\ lock' = [lock EXCEPT ![a] = run[e].at + LockTime]
  <2>1. /\ lock'[a] = run[e].at + LockTime /\ lock[a] \in Nat
        /\ \A b \in Alert \ {a} : lock'[b] = lock[b]
    BY <1>4 DEF Typed, TablesOK
  <2>2. ASSUME NEW f \in Evaluator \ {e}, run[f].alert = a PROVE Over(f) /\ Over(f)'
    <3>1. Over(f) \/ lock[a] >= run[f].at + LockTime
      BY <1>d, <2>2, NamesDiffer DEF Exclusive, LockLasts
    <3>2. QED
      BY <1>a, <1>b, <1>c, <1>4, <2>1, <3>1 DEF Over
  <2>3. ASSUME NEW f \in Evaluator PROVE LockLasts(f)'
    <3>1. CASE f = e
      BY <1>a, <1>b, <1>2, <1>4, <2>1, <3>1 DEF LockLasts
    <3>2. CASE f # e /\ run[f].alert = a
      BY <2>2, <3>2 DEF LockLasts
    <3>3. CASE f # e /\ run[f].alert # a
      <4>1. run[f].alert \in Alert \union {None}
        BY DEF Typed, RunsOK, Run
      <4>2. QED
        BY <1>a, <1>c, <1>d, <2>1, <3>3, <4>1 DEF Exclusive, LockLasts, Over
    <3>4. QED
      BY <3>1, <3>2, <3>3
  <2>4. ASSUME NEW f \in Evaluator, NEW g \in Evaluator PROVE Apart(f, g)'
    <3>1. CASE f # e /\ g # e
      BY <1>a, <1>c, <1>d, <3>1 DEF Exclusive, Apart, Over
    <3>2. CASE f = e \/ g = e
      BY <1>c, <1>4, <2>2, <3>2 DEF Apart
    <3>3. QED
      BY <3>1, <3>2
  <2>5. QED
    BY <2>3, <2>4
<1>5. QED
  BY <1>2, <1>3, <1>4

LEMMA ExclusiveStep == Typed /\ Exclusive /\ [Next]_vars => Exclusive'
<1> SUFFICES ASSUME Typed, Exclusive, [Next]_vars PROVE Exclusive'
  OBVIOUS
<1>0. Typed' /\ now \in Nat /\ faults \in Nat
  BY StepTyped DEF Typed, TablesOK
<1>1. CASE UNCHANGED vars
  BY <1>0, <1>1, ExclusiveFrame DEF vars, bounds
<1>2. CASE Tick
  BY <1>0, <1>2, ExclusiveFrame DEF Tick, bounds
<1>3. CASE Request
  BY <1>0, <1>3, RequestTyped, ExclusiveFrame DEF bounds
<1>4. ASSUME NEW e \in Evaluator, Evaluation(e) PROVE Exclusive'
  <2>1. Others(e)
    BY <1>4, EvaluationTyped
  <2>2. CASE Start(e)
    BY <1>0, <2>1, <2>2, StartLocals, ExclusiveFrame DEF bounds, Others
  <2>3. CASE TryLock(e)
    BY <1>0, <2>1, <2>3, ExclusiveLock
  <2>4. CASE LockFails(e)
    BY <1>0, <2>4 DEF LockFails, Exclusive
  <2>5. CASE AfterLock(e)
    <3>1. Idle.alert = None /\ (run'[e].pc = "idle" => run'[e] = Idle)
      BY <1>0 DEF Idle, Typed, RunsOK, RunOK
    <3>2. QED
      BY <1>0, <2>1, <2>5, <3>1, AfterLockLocals, ExclusiveFrame DEF Others
  <2>6. QED
    BY <1>4, <2>2, <2>3, <2>4, <2>5, EvaluationCases
<1>5. QED
  BY <1>1, <1>2, <1>3, <1>4, NextCases

LEMMA InitExclusive == Init => Exclusive
BY DEF Init, Exclusive, LockLasts, Apart, Idle

\* Each alert is evaluated by one run at a time, whatever the number of alerts
\* and of overlapping cron runs, while the coordinator answers and no run goes
\* on for longer than its locks (tryLock in evaluate.ts).
THEOREM Exclusion == Spec => []OneEvaluatorAtATime
<1>1. Typed /\ Exclusive => OneEvaluatorAtATime
  <2>1. SUFFICES ASSUME Typed, Exclusive PROVE OneEvaluatorAtATime
    OBVIOUS
  <2>2. ASSUME faults = 0, NEW e \in Evaluator, NEW f \in Evaluator,
               run[e].alert # None, run[e].alert = run[f].alert
        PROVE  e = f \/ now >= run[e].at + LockTime \/ now >= run[f].at + LockTime
    <3>1. Apart(e, f)
      BY <2>1, <2>2 DEF Exclusive
    <3>2. QED
      BY <2>2, <3>1 DEF Apart, Over
  <2>3. QED
    BY <2>1, <2>2, TypedImpliesTypesOK DEF OneEvaluatorAtATime
<1>2. QED
  BY <1>1, InitTyped, StepTyped, InitExclusive, ExclusiveStep, PTL DEF Spec

-----------------------------------------------------------------------------
(* A covered alert is quiet: a silence is created once, deleted once and   *)
(* never edited, so one that a run knew and that is still there was there  *)
(* when the run listed them.                                               *)

KnownKept ==
  \A e \in Evaluator, s \in Silence :
    run[e].known[s] \in Mute => silence[s] \in {run[e].known[s], Deleted}

\* The run of e has found its alert not silenced.
Heard(e) ==
  \A s \in Silence : silence[s] = run[e].known[s] /\ silence[s] \in Mute =>
    ~Active(silence[s], run[e].at, run[e].alert)

Hearing ==
  /\ KnownKept
  /\ \A e \in Evaluator :
       run[e].pc = "event" \/ (run[e].pc = "save" /\ ~run[e].silenced) => Heard(e)

\* The silences a run knows stay known while no run starts.
LEMMA KnownFrame ==
  ASSUME KnownKept, silence' = silence,
         \A e \in Evaluator : run'[e].known = run[e].known \/ run'[e].known = silence
                              \/ run'[e].known = Idle.known
  PROVE  KnownKept'
<1>1. \A s \in Silence : Idle.known[s] \notin Mute
  BY NamesDiffer DEF Idle
<1>2. QED
  BY <1>1 DEF KnownKept

LEMMA HearingEvaluation ==
  ASSUME Typed, Typed', Hearing, NEW e \in Evaluator, Evaluation(e)
  PROVE  Hearing'
<1>a. Others(e) /\ \A f \in Evaluator \ {e} : run'[f] = run[f]
  BY EvaluationTyped DEF Others
<1>b. run'[e].pc = "idle" => run'[e] = Idle
  BY DEF Typed, RunsOK, RunOK
<1>1. ASSUME silence' = silence,
             \/ run'[e].known = run[e].known \/ run'[e].known = silence
             \/ run'[e] = Idle,
             run'[e].pc = "event" \/ (run'[e].pc = "save" /\ ~run'[e].silenced) => Heard(e)'
      PROVE  Hearing'
  <2>1. KnownKept'
    BY <1>a, <1>1, KnownFrame DEF Hearing
  <2>2. ASSUME NEW f \in Evaluator \ {e},
               run'[f].pc = "event" \/ (run'[f].pc = "save" /\ ~run'[f].silenced)
        PROVE  Heard(f)'
    BY <1>a, <1>1, <2>2 DEF Hearing, Heard
  <2>3. QED
    BY <1>1, <2>1, <2>2 DEF Hearing
<1>2. CASE Start(e)
  BY <1>1, <1>2, StartLocals DEF tables
<1>3. CASE TryLock(e) \/ LockFails(e)
  <2>1. silence' = silence /\ run'[e].known = run[e].known /\ run'[e].pc \in {"lock", "read"}
    BY <1>3, LockLocals DEF tables
  <2>2. QED
    BY <1>1, <2>1
<1>4. CASE ReadState(e)
  BY <1>1, <1>4, ReadStateTyped DEF ReadState, tables
<1>5. CASE SaveNull(e) \/ AppendEvent(e)
  <2>1. silence' = silence /\ Done(e)
    BY <1>5 DEF SaveNull, AppendEvent
  <2>2. QED
    BY <1>1, <2>1, DoneLocals
<1>6. CASE ListSilences(e)
  <2>1. /\ silence' = silence /\ run'[e].known = run[e].known
        /\ run'[e].at = run[e].at /\ run'[e].alert = run[e].alert
        /\ run'[e].silenced = \E s \in Silence : Active(silence[s], run[e].at, run[e].alert)
    BY <1>6, ListSilencesTyped DEF ListSilences, tables
  <2>2. run'[e].pc = "save"
    BY <1>6, ListSilencesTyped
  <2>3. ~run'[e].silenced => Heard(e)'
    BY <2>1 DEF Heard
  <2>4. QED
    BY <1>1, <2>1, <2>2, <2>3
<1>7. CASE Save(e)
  <2>1. silence' = silence /\ run[e].pc = "save"
    BY <1>7 DEF Save
  <2>2. CASE Done(e)
    BY <1>1, <2>1, <2>2, DoneLocals
  <2>3. CASE /\ run'[e].pc = "event" /\ run'[e].alert = run[e].alert /\ run'[e].at = run[e].at
             /\ run'[e].known = run[e].known /\ ~run[e].silenced
    <3>1. Heard(e)'
      BY <2>1, <2>3 DEF Hearing, Heard
    <3>2. QED
      BY <1>1, <2>1, <2>3, <3>1
  <2>4. QED
    BY <1>7, <2>2, <2>3, SaveLocals
<1>8. CASE SaveRefused(e) \/ Throws(e) \/ Finish(e)
  <2>1. silence' = silence /\ run'[e] = Idle /\ Idle.pc = "idle"
    BY <1>8, EndsTyped DEF tables, Idle
  <2>2. QED
    BY <1>1, <2>1
<1>9. QED
  BY <1>2, <1>3, <1>4, <1>5, <1>6, <1>7, <1>8 DEF Evaluation

LEMMA HearingRequest ==
  ASSUME Typed, Hearing, Request
  PROVE  Hearing'
<1>1. run' = run
  BY RequestTyped
<1>2. ASSUME NEW s \in Silence
      PROVE  \/ silence'[s] = silence[s]
             \/ silence[s] = Unmuted
             \/ silence[s] \in Mute /\ silence'[s] = Deleted
  <2>1. CASE \E a \in Alert : SaveAlert(a) \/ DeleteAlert(a)
    BY <2>1 DEF SaveAlert, DeleteAlert
  <2>2. ASSUME NEW x \in Silence, CreateSilence(x) PROVE silence[s] = Unmuted \/ silence'[s] = silence[s]
    BY <2>2 DEF CreateSilence, Typed, TablesOK
  <2>3. ASSUME NEW x \in Silence, DeleteSilence(x)
        PROVE  silence'[s] = silence[s] \/ (silence[s] \in Mute /\ silence'[s] = Deleted)
    BY <2>3 DEF DeleteSilence, Typed, TablesOK
  <2>4. QED
    BY <2>1, <2>2, <2>3 DEF Request
<1>3. KnownKept'
  BY <1>1, <1>2, NamesDiffer DEF Hearing, KnownKept
<1>4. \A e \in Evaluator : Heard(e) => Heard(e)'
  BY <1>1, <1>2, NamesDiffer DEF Hearing, KnownKept, Heard
<1>5. QED
  BY <1>1, <1>3, <1>4 DEF Hearing

LEMMA HearingStep == Typed /\ Hearing /\ [Next]_vars => Hearing'
<1> SUFFICES ASSUME Typed, Hearing, [Next]_vars PROVE Hearing'
  OBVIOUS
<1>1. CASE UNCHANGED <<run, silence>>
  BY <1>1 DEF Hearing, KnownKept, Heard
<1>2. CASE UNCHANGED vars \/ Tick
  BY <1>1, <1>2 DEF vars, Tick, tables
<1>3. QED
  BY <1>2, NextCases, StepTyped, HearingEvaluation, HearingRequest

LEMMA InitHearing == Init => Hearing
BY NamesDiffer DEF Init, Hearing, KnownKept, Idle

\* No event is appended for an alert that a silence covers, if the silence was
\* there when the run started and still is, whatever users create and delete
\* meanwhile (evaluate.ts lists the silences before it saves the state).
THEOREM Quiet == Spec => []SilencedIsQuiet
<1>1. Hearing => SilencedIsQuiet
  BY DEF Hearing, Heard, Active, SilencedIsQuiet
<1>2. QED
  BY <1>1, InitTyped, StepTyped, InitHearing, HearingStep, PTL DEF Spec

-----------------------------------------------------------------------------
(* A run that starts LockTime after the one before finds nothing locked:   *)
(* a lock that is held was taken by a run that started less than LockTime  *)
(* ago, and that run is not the one that asks.                             *)

Busy(e) == run[e].pc # "idle"

Lately ==
  /\ last <= now
  /\ \A a \in Alert : lock[a] <= last + LockTime
  /\ \A a \in Alert : lock[a] > now => \E t \in recent : lock[a] = t + LockTime

RunLately(e) ==
  Busy(e) => /\ run[e].at <= last
             /\ run[e].at + LockTime > now => run[e].at \in recent
             /\ \A a \in run[e].todo : lock[a] # run[e].at + LockTime

StartsDiffer ==
  \A e, f \in Evaluator : Busy(e) /\ Busy(f) /\ run[e].at = run[f].at => e = f

Recently == Lately /\ (\A e \in Evaluator : RunLately(e)) /\ StartsDiffer /\ NeverSkipped

LEMMA RecentlyTick ==
  ASSUME Typed, Typed', Recently, Tick
  PROVE  Recently'
<1>a. /\ {now, last, LockTime} \subseteq Nat /\ now' = now + 1 /\ lock' = lock /\ last' = last
      /\ run' = run /\ skipped' = skipped /\ recent' = {t \in recent : t + LockTime > now'}
  BY Numbers DEF Typed, TablesOK, Tick
<1>b. /\ \A a \in Alert : lock[a] \in Nat
      /\ \A e \in Evaluator : run[e].at \in Nat /\ run[e].todo \subseteq Alert
  BY DEF Typed, TablesOK, RunsOK, Run
<1>1. Lately'
  <2>1. ASSUME NEW a \in Alert, lock[a] > now' PROVE \E t \in recent' : lock[a] = t + LockTime
    <3>1. PICK t \in recent : lock[a] = t + LockTime
      BY <1>a, <1>b, <2>1 DEF Recently, Lately
    <3>2. t \in recent'
      BY <1>a, <2>1, <3>1
    <3>3. QED
      BY <3>1, <3>2
  <2>2. QED
    BY <1>a, <2>1 DEF Recently, Lately
<1>2. ASSUME NEW e \in Evaluator, Busy(e) PROVE RunLately(e)'
  <2>1. ASSUME run[e].at + LockTime > now' PROVE run[e].at \in recent'
    BY <1>a, <1>b, <1>2, <2>1 DEF Recently, RunLately
  <2>2. QED
    BY <1>a, <1>2, <2>1 DEF Recently, RunLately
<1>3. QED
  BY <1>a, <1>1, <1>2 DEF Recently, RunLately, Busy, StartsDiffer, NeverSkipped

LEMMA RecentlyStart ==
  ASSUME Typed, Typed', Recently, NEW e \in Evaluator, Others(e), Start(e)
  PROVE  Recently'
<1>0. now \in Nat /\ last \in Nat /\ now # 0 /\ LockTime \in Nat /\ Gap \in Nat /\ Gap # 0
  BY Numbers DEF Typed, TablesOK
<1>a. /\ now' = now /\ lock' = lock /\ last' = now /\ recent' = recent \union {now}
      /\ skipped' = skipped /\ run'[e].at = now /\ (last = 0 \/ now >= last + Gap)
  BY StartLocals
<1>d. last < now
  BY <1>0, <1>a
<1>b. /\ \A a \in Alert : lock[a] \in Nat
      /\ \A f \in Evaluator : run[f].at \in Nat /\ run'[f].at \in Nat /\ run'[f].todo \subseteq Alert
  BY DEF Typed, TablesOK, RunsOK, Run
<1>c. \A f \in Evaluator \ {e} : run'[f] = run[f]
  BY DEF Others
<1>1. Lately'
  BY <1>0, <1>a, <1>d, <1>b DEF Recently, Lately
<1>2. RunLately(e)'
  BY <1>0, <1>a, <1>d, <1>b DEF Recently, Lately, RunLately
<1>3. ASSUME NEW f \in Evaluator \ {e} PROVE RunLately(f)'
  BY <1>0, <1>a, <1>d, <1>b, <1>c DEF Recently, RunLately, Busy
<1>4. StartsDiffer'
  BY <1>0, <1>a, <1>d, <1>b, <1>c DEF Recently, StartsDiffer, RunLately, Busy
<1>5. QED
  BY <1>a, <1>1, <1>2, <1>3, <1>4 DEF Recently, NeverSkipped

LEMMA RecentlyLock ==
  ASSUME Typed, Typed', Recently, NEW e \in Evaluator, Others(e), TryLock(e) \/ LockFails(e)
  PROVE  Recently'
<1>a. now \in Nat /\ last \in Nat /\ LockTime \in Nat
  BY Numbers DEF Typed, TablesOK
<1>b. /\ \A a \in Alert : lock[a] \in Nat
      /\ \A f \in Evaluator : run[f].at \in Nat /\ run[f].todo \subseteq Alert
  BY DEF Typed, TablesOK, RunsOK, Run
<1>c. \A f \in Evaluator \ {e} : run'[f] = run[f]
  BY DEF Others
<1>1. /\ now' = now /\ last' = last /\ recent' = recent
      /\ run[e].pc = "lock" /\ run'[e].pc # "idle" /\ run'[e].at = run[e].at
  BY LockLocals
<1>2. PICK a \in run[e].todo : a \in Alert /\ run'[e].todo = run[e].todo \ {a} /\
        \/ /\ lock[a] > now /\ lock' = lock
           /\ skipped' = IF recent \subseteq {run[e].at} THEN skipped \union {a} ELSE skipped
        \/ /\ skipped' = skipped
           /\ lock' = [lock EXCEPT ![a] = run[e].at + LockTime] \/ lock' = lock
  BY LockLocals
<1>3. RunLately(e) /\ Busy(e) /\ Busy(e)'
  BY <1>1 DEF Recently, Busy
<1>4. StartsDiffer'
  BY <1>1, <1>c, <1>3 DEF Recently, StartsDiffer, Busy
<1>5. CASE lock' = lock
  <2>1. Lately' /\ \A f \in Evaluator : RunLately(f)'
    BY <1>1, <1>2, <1>3, <1>c, <1>5 DEF Recently, Lately, RunLately, Busy
  <2>2. NeverSkipped'
    <3>1. CASE lock[a] > now
      <4>1. PICK t \in recent : lock[a] = t + LockTime
        BY <1>2, <3>1 DEF Recently, Lately
      <4>2. lock[a] # run[e].at + LockTime
        BY <1>2, <1>3 DEF RunLately
      <4>3. ~(recent \subseteq {run[e].at})
        BY <4>1, <4>2
      <4>4. QED
        BY <1>2, <4>3 DEF Recently, NeverSkipped
    <3>2. CASE skipped' = skipped
      BY <3>2 DEF Recently, NeverSkipped
    <3>3. QED
      BY <1>2, <3>1, <3>2
  <2>3. QED
    BY <1>4, <2>1, <2>2 DEF Recently
<1>6. CASE /\ lock' = [lock EXCEPT ![a] = run[e].at + LockTime] /\ skipped' = skipped
  <2>1. /\ lock'[a] = run[e].at + LockTime
        /\ \A b \in Alert \ {a} : lock'[b] = lock[b]
    BY <1>2, <1>6 DEF Typed, TablesOK
  <2>2. Lately'
    BY <1>a, <1>b, <1>1, <1>3, <2>1 DEF Recently, Lately, RunLately
  <2>3. RunLately(e)'
    BY <1>b, <1>1, <1>2, <1>3, <2>1 DEF RunLately
  <2>4. ASSUME NEW f \in Evaluator \ {e}, Busy(f) PROVE RunLately(f)'
    <3>1. RunLately(f) /\ run[f].at # run[e].at
      BY <1>3, <2>4 DEF Recently, StartsDiffer
    <3>2. ASSUME NEW b \in run[f].todo PROVE lock'[b] # run[f].at + LockTime
      <4>1. CASE b = a
        <5>1. run[f].at \in Nat /\ run[e].at \in Nat /\ lock'[b] = run[e].at + LockTime
          BY <1>b, <2>1, <4>1
        <5>2. QED
          BY <1>a, <3>1, <5>1
      <4>2. CASE b # a
        BY <1>b, <2>1, <2>4, <3>1, <4>2 DEF RunLately
      <4>3. QED
        BY <4>1, <4>2
    <3>3. QED
      BY <1>c, <1>1, <2>4, <3>1, <3>2 DEF RunLately
  <2>5. ASSUME NEW f \in Evaluator \ {e}, ~Busy(f) PROVE RunLately(f)'
    BY <1>c, <2>5 DEF RunLately, Busy
  <2>6. QED
    BY <1>4, <1>6, <2>2, <2>3, <2>4, <2>5 DEF Recently, NeverSkipped
<1>7. QED
  BY <1>2, <1>5, <1>6

LEMMA RecentlyStep == Typed /\ Recently /\ [Next]_vars => Recently'
<1> SUFFICES ASSUME Typed, Recently, [Next]_vars PROVE Recently'
  OBVIOUS
<1>0. Typed'
  BY StepTyped
<1>1. ASSUME UNCHANGED <<now, last, lock, run, recent, skipped>> PROVE Recently'
  BY <1>1 DEF Recently, Lately, RunLately, Busy, StartsDiffer, NeverSkipped
<1>2. CASE UNCHANGED vars \/ Request
  BY <1>1, <1>2, RequestTyped DEF vars, history
<1>3. ASSUME NEW e \in Evaluator, Evaluation(e) PROVE Recently'
  <2>1. Others(e) /\ \A f \in Evaluator \ {e} : run'[f] = run[f]
    BY <1>3, EvaluationTyped DEF Others
  <2>2. CASE AfterLock(e)
    <3>1. /\ UNCHANGED <<now, last, lock, recent, skipped>>
          /\ run[e].pc # "idle"
          /\ run'[e].pc # "idle" => run'[e].at = run[e].at /\ run'[e].todo = run[e].todo
      BY <2>2, AfterLockLocals
    <3>2. Lately' /\ StartsDiffer' /\ NeverSkipped'
      BY <2>1, <3>1 DEF Recently, Lately, StartsDiffer, NeverSkipped, Busy
    <3>3. \A f \in Evaluator : RunLately(f)'
      BY <2>1, <3>1 DEF Recently, RunLately, Busy
    <3>4. QED
      BY <3>2, <3>3 DEF Recently
  <2>3. QED
    BY <1>0, <1>3, <2>1, <2>2, EvaluationCases, RecentlyStart, RecentlyLock
<1>4. QED
  BY <1>0, <1>2, <1>3, NextCases, RecentlyTick

LEMMA InitRecently == Init => Recently
<1> SUFFICES ASSUME Init PROVE Recently
  OBVIOUS
<1>1. \A e \in Evaluator : ~Busy(e)
  BY DEF Init, Busy, Idle
<1>2. Lately
  BY Numbers DEF Init, Lately
<1>3. QED
  BY <1>1, <1>2 DEF Init, Recently, RunLately, StartsDiffer, NeverSkipped

\* A run that starts LockTime after the one before finds no alert locked, though
\* the one before was killed or slow: evaluateAllAlerts counts a lock's time
\* from the start of the run and not from the moment it is taken.
THEOREM Unskipped == Spec => []NeverSkipped
<1>1. Recently => NeverSkipped
  BY DEF Recently
<1>2. QED
  BY <1>1, InitTyped, StepTyped, InitRecently, RecentlyStep, PTL DEF Spec

-----------------------------------------------------------------------------
(* Without overlaps a run is alone with its alert, so what it read of the  *)
(* alert's state is still the state when it saves the next one.            *)

Alone ==
  ~overlap =>
    /\ \A e, f \in Evaluator : run[e].alert # None /\ run[e].alert = run[f].alert => e = f
    /\ \A e \in Evaluator : run[e].pc \in {"null", "silences", "save"} =>
         run[e].prev = state[run[e].alert]

\* The others stay right while a run saves the state of its own alert.
LEMMA AloneFrame ==
  ASSUME Typed, Alone, NEW e \in Evaluator, Others(e), overlap' = overlap,
         run'[e].alert # None => run'[e].alert = run[e].alert,
         \A b \in Alert : b # run[e].alert => state'[b] = state[b],
         run'[e].pc \in {"null", "silences", "save"} => run'[e].prev = state'[run'[e].alert]
  PROVE  Alone'
<1>a. \A f \in Evaluator \ {e} : run'[f] = run[f]
  BY DEF Others
<1>1. SUFFICES ASSUME ~overlap
               PROVE /\ \A f, g \in Evaluator :
                          run'[f].alert # None /\ run'[f].alert = run'[g].alert => f = g
                     /\ \A f \in Evaluator : run'[f].pc \in {"null", "silences", "save"} =>
                          run'[f].prev = state'[run'[f].alert]
  BY DEF Alone
<1>2. \A f, g \in Evaluator : run'[f].alert # None /\ run'[f].alert = run'[g].alert => f = g
  BY <1>a, <1>1 DEF Alone
<1>3. ASSUME NEW f \in Evaluator \ {e}, run[f].pc \in {"null", "silences", "save"}
      PROVE  run'[f].prev = state'[run'[f].alert]
  <2>1. run[f].alert \in Alert
    BY <1>3 DEF Typed, RunsOK, RunOK, Run
  <2>2. run[f].alert # run[e].alert
    BY <1>1, <1>3, <2>1, NamesDiffer DEF Alone
  <2>3. QED
    BY <1>a, <1>1, <1>3, <2>1, <2>2 DEF Alone
<1>4. QED
  BY <1>a, <1>2, <1>3

LEMMA AloneEvaluation ==
  ASSUME Typed, Typed', Alone, NEW e \in Evaluator, Evaluation(e)
  PROVE  Alone'
<1>a. Others(e) /\ \A f \in Evaluator \ {e} : run'[f] = run[f]
  BY EvaluationTyped DEF Others
<1>b. state \in [Alert -> StateRow]
  BY DEF Typed, TablesOK
<1>1. CASE Start(e)
  BY <1>a, <1>1, StartLocals, AloneFrame DEF tables
<1>2. CASE TryLock(e) \/ LockFails(e)
  <2>1. state' = state
    BY <1>2, LockLocals DEF tables
  <2>2. PICK a \in Alert :
          \/ run'[e].pc = "lock" /\ run'[e].alert = None /\ overlap' = overlap
          \/ /\ run'[e].pc = "read" /\ run'[e].alert = a
             /\ overlap' = (overlap \/ \E f \in Evaluator \ {e} : run[f].alert = a)
    BY <1>2, LockLocals
  <2>3. CASE run'[e].pc = "lock" /\ run'[e].alert = None /\ overlap' = overlap
    BY <1>a, <2>1, <2>3, AloneFrame
  <2>4. CASE /\ run'[e].pc = "read" /\ run'[e].alert = a
             /\ overlap' = (overlap \/ \E f \in Evaluator \ {e} : run[f].alert = a)
    <3>1. SUFFICES ASSUME ~overlap'
                   PROVE /\ \A f, g \in Evaluator :
                              run'[f].alert # None /\ run'[f].alert = run'[g].alert => f = g
                         /\ \A f \in Evaluator : run'[f].pc \in {"null", "silences", "save"} =>
                              run'[f].prev = state'[run'[f].alert]
      BY DEF Alone
    <3>2. ~overlap /\ \A f \in Evaluator \ {e} : run[f].alert # a
      BY <2>4, <3>1
    <3>3. \A f, g \in Evaluator : run'[f].alert # None /\ run'[f].alert = run'[g].alert => f = g
      BY <1>a, <2>4, <3>2 DEF Alone
    <3>4. \A f \in Evaluator : run'[f].pc \in {"null", "silences", "save"} =>
            run'[f].prev = state'[run'[f].alert]
      BY <1>a, <2>1, <2>4, <3>2 DEF Alone
    <3>5. QED
      BY <3>3, <3>4
  <2>5. QED
    BY <2>2, <2>3, <2>4
<1>3. CASE AfterLock(e)
  <2>1. overlap' = overlap /\ (run'[e].alert # None => run'[e].alert = run[e].alert)
    <3>1. run'[e].pc = "idle" => run'[e] = Idle
      BY DEF Typed, RunsOK, RunOK
    <3>2. QED
      BY <1>3, <3>1, AfterLockLocals
  <2>2. CASE ReadState(e)
    <3>1. state' = state
      BY <2>2 DEF ReadState, tables
    <3>2. run'[e].prev = state'[run'[e].alert]
      BY <2>2, <3>1, ReadStateTyped
    <3>3. QED
      BY <1>a, <2>1, <3>1, <3>2, AloneFrame
  <2>3. CASE ListSilences(e)
    <3>1. state' = state /\ run[e].pc = "silences"
      BY <2>3 DEF ListSilences, tables
    <3>2. overlap \/ run'[e].prev = state'[run'[e].alert]
      BY <2>3, <3>1, ListSilencesTyped DEF Alone
    <3>3. CASE overlap
      BY <2>1, <3>3 DEF Alone
    <3>4. QED
      BY <1>a, <2>1, <3>1, <3>2, <3>3, AloneFrame
  <2>4. CASE SaveNull(e) \/ Save(e) \/ AppendEvent(e)
    <3>1. run'[e].pc \in {"lock", "event"}
      BY <2>4, DoneLocals, SaveLocals DEF SaveNull, AppendEvent
    <3>2. \A b \in Alert : b # run[e].alert => state'[b] = state[b]
      BY <1>b, <2>4 DEF SaveNull, Save, AppendEvent
    <3>3. QED
      BY <1>a, <2>1, <3>1, <3>2, AloneFrame
  <2>5. CASE SaveRefused(e) \/ Throws(e) \/ Finish(e)
    <3>1. state' = state /\ run'[e].pc = "idle"
      BY <2>5, EndsTyped DEF tables, Idle
    <3>2. QED
      BY <1>a, <2>1, <3>1, AloneFrame
  <2>6. QED
    BY <1>3, <2>2, <2>3, <2>4, <2>5 DEF AfterLock
<1>4. QED
  BY <1>1, <1>2, <1>3, EvaluationCases

LEMMA AloneStep == Typed /\ Alone /\ [Next]_vars => Alone'
<1> SUFFICES ASSUME Typed, Alone, [Next]_vars PROVE Alone'
  OBVIOUS
<1>1. ASSUME UNCHANGED <<run, state, overlap>> PROVE Alone'
  BY <1>1 DEF Alone
<1>2. CASE UNCHANGED vars \/ Tick \/ Request
  BY <1>1, <1>2, RequestTyped DEF vars, Tick, tables, history
<1>3. QED
  BY <1>2, NextCases, StepTyped, AloneEvaluation

LEMMA InitAlone == Init => Alone
BY DEF Init, Alone, Idle

\* The history of breaches agrees with the state: a pending alert has pended
\* since the first of them, and one that is ok has had none.
Series ==
  ~overlap => \A a \in Alert :
    /\ state[a].status = "pending" => since[a] = state[a].firedAt /\ For[a] # 0
    /\ state[a].status \in {"ok", None} => since[a] = 0

\* The state that an evaluation saves, and the history after it.
LEMMA SavedSeries ==
  ASSUME Typed, Alone, Series, ~overlap, NEW e \in Evaluator, Save(e)
  PROVE  LET a == run[e].alert IN
         /\ a \in Alert
         /\ \A b \in Alert \ {a} : state'[b] = state[b] /\ since'[b] = since[b]
         /\ state'[a].status = "pending" => since'[a] = state'[a].firedAt /\ For[a] # 0
         /\ state'[a].status = "ok" => since'[a] = 0
         /\ state'[a].status \in Status
         /\ state[a].status # "firing" /\ state'[a].status = "firing" =>
              since'[a] # 0 /\ state'[a].firedAt >= since'[a] + For[a]
<1> DEFINE a == run[e].alert
           p == run[e].prev
           t == run[e].at
           b == run[e].breached
           status == NextStatus(a, b, p, t)
<1>1. run[e] \in Run /\ RunOK(e) /\ a \in Alert /\ run[e].pc = "save"
  BY SaveTyped DEF Typed, RunsOK, Save
<1>2. /\ p = state[a] /\ p \in StateRow /\ t \in Nat /\ t # 0 /\ b \in BOOLEAN
      /\ since[a] \in Nat /\ For[a] \in Nat
  BY <1>1, Numbers DEF Alone, Typed, TablesOK, RunOK, Run
<1>3. /\ p.status = "pending" => since[a] = p.firedAt /\ p.firedAt # 0 /\ For[a] # 0
      /\ p.status \in {"ok", None} => since[a] = 0
  BY <1>1, <1>2 DEF Series, RunOK
<1>4. /\ state' = [state EXCEPT ![a] = [status |-> status, firedAt |-> FiredAt(status, p, t)]]
      /\ since' = [since EXCEPT ![a] = IF ~b THEN 0 ELSE IF @ = 0 THEN t ELSE @]
  BY DEF Save
<1>5. state \in [Alert -> StateRow] /\ since \in [Alert -> Nat]
  BY DEF Typed, TablesOK
<1>6. /\ state'[a].status = status /\ state'[a].firedAt = FiredAt(status, p, t)
      /\ since'[a] = IF ~b THEN 0 ELSE IF since[a] = 0 THEN t ELSE since[a]
      /\ \A x \in Alert \ {a} : state'[x] = state[x] /\ since'[x] = since[x]
  <2> HIDE DEF status, b, p, t
  <2>1. QED
    BY <1>1, <1>4, <1>5
<1>7. p.firedAt \in Nat /\ p.status \in {"ok", "pending", "firing", None}
  BY <1>2 DEF StateRow, Status
<1>8. CASE ~b
  BY <1>1, <1>6, <1>8 DEF NextStatus, Status
<1>9. CASE b /\ (For[a] = 0 \/ p.status = "firing")
  <2>1. status = "firing"
    BY <1>9 DEF NextStatus
  <2>2. FiredAt(status, p, t) = t
    BY <2>1 DEF FiredAt
  <2>3. p.status # "firing" => since[a] = 0
    BY <1>3, <1>7, <1>9
  <2> HIDE DEF status, p, t, b
  <2>4. QED
    BY <1>1, <1>2, <1>6, <1>9, <2>1, <2>2, <2>3 DEF Status
<1>10. CASE b /\ For[a] # 0 /\ p.status = "pending"
  <2>1. status = IF t - p.firedAt >= For[a] THEN "firing" ELSE "pending"
    BY <1>10 DEF NextStatus
  <2>2. FiredAt(status, p, t) = IF t - p.firedAt >= For[a] THEN t ELSE p.firedAt
    BY <1>10, <2>1 DEF FiredAt
  <2> HIDE DEF status, p, t, b
  <2>3. QED
    BY <1>1, <1>2, <1>3, <1>6, <1>7, <1>10, <2>1, <2>2 DEF Status
<1>11. CASE b /\ For[a] # 0 /\ p.status \in {"ok", None}
  <2>1. status = "pending"
    BY <1>11 DEF NextStatus, None
  <2>2. FiredAt(status, p, t) = t
    BY <1>11, <2>1 DEF FiredAt, None
  <2> HIDE DEF status, p, t, b
  <2>3. QED
    BY <1>1, <1>2, <1>3, <1>6, <1>11, <2>1, <2>2 DEF Status
<1>12. QED
  BY <1>2, <1>7, <1>8, <1>9, <1>10, <1>11

\* A run that could not evaluate its query leaves the state as it read it.
LEMMA SavedNull ==
  ASSUME Typed, Alone, ~overlap, NEW e \in Evaluator, SaveNull(e)
  PROVE  LET a == run[e].alert IN
         /\ a \in Alert /\ UNCHANGED since
         /\ \A b \in Alert \ {a} : state'[b] = state[b]
         /\ state'[a] = state[a] \/ (state[a] = Null /\ state'[a].status = "ok")
<1>1. run[e].alert \in Alert /\ run[e].pc = "null"
  BY SaveNullTyped DEF SaveNull
<1>2. run[e].prev = state[run[e].alert]
  BY <1>1 DEF Alone
<1>3. state \in [Alert -> StateRow]
  BY DEF Typed, TablesOK
<1>4. QED
  BY <1>1, <1>2, <1>3 DEF SaveNull, history

\* A step that saves no state leaves the states and their history alone.
LEMMA StateFrame ==
  ASSUME Typed, [Next]_vars, \A e \in Evaluator : ~Save(e) /\ ~SaveNull(e)
  PROVE  UNCHANGED <<state, since>>
<1>1. CASE UNCHANGED vars \/ Tick \/ Request
  BY <1>1, RequestTyped DEF vars, Tick, tables, history
<1>2. ASSUME NEW e \in Evaluator, Evaluation(e) PROVE UNCHANGED <<state, since>>
  <2>1. CASE Start(e) \/ TryLock(e) \/ LockFails(e)
    BY <2>1, StartLocals, LockLocals DEF tables
  <2>2. CASE ReadState(e) \/ ListSilences(e) \/ AppendEvent(e)
    BY <2>2 DEF ReadState, ListSilences, AppendEvent, tables, history
  <2>3. CASE SaveRefused(e) \/ Throws(e) \/ Finish(e)
    BY <2>3 DEF SaveRefused, Throws, Finish, tables, history
  <2>4. QED
    BY <1>2, <2>1, <2>2, <2>3 DEF Evaluation
<1>3. QED
  BY <1>1, <1>2, NextCases

\* Overlaps are never forgotten.
LEMMA OverlapStays ==
  ASSUME Typed, [Next]_vars
  PROVE  ~overlap' => ~overlap
<1>1. CASE UNCHANGED vars \/ Tick \/ Request
  BY <1>1, RequestTyped DEF vars, Tick, history
<1>2. ASSUME NEW e \in Evaluator, Evaluation(e) PROVE ~overlap' => ~overlap
  <2>1. CASE TryLock(e) \/ LockFails(e)
    BY <2>1, LockLocals
  <2>2. CASE Start(e) \/ AfterLock(e)
    BY <2>2, StartLocals, AfterLockLocals
  <2>3. QED
    BY <1>2, <2>1, <2>2, EvaluationCases
<1>3. QED
  BY <1>1, <1>2, NextCases

LEMMA SeriesStep == Typed /\ Alone /\ Series /\ [Next]_vars => Series'
<1> SUFFICES ASSUME Typed, Alone, Series, [Next]_vars, ~overlap'
             PROVE  \A a \in Alert :
                      /\ state'[a].status = "pending" => since'[a] = state'[a].firedAt /\ For[a] # 0
                      /\ state'[a].status \in {"ok", None} => since'[a] = 0
  BY DEF Series
<1>1. ~overlap
  BY OverlapStays
<1>2. ASSUME NEW e \in Evaluator, Save(e), NEW a \in Alert
      PROVE  /\ state'[a].status = "pending" => since'[a] = state'[a].firedAt /\ For[a] # 0
             /\ state'[a].status \in {"ok", None} => since'[a] = 0
  <2>1. None \notin Status
    BY DEF None, Status
  <2>2. QED
    BY <1>1, <1>2, <2>1, SavedSeries DEF Series
<1>3. ASSUME NEW e \in Evaluator, SaveNull(e), NEW a \in Alert
      PROVE  /\ state'[a].status = "pending" => since'[a] = state'[a].firedAt /\ For[a] # 0
             /\ state'[a].status \in {"ok", None} => since'[a] = 0
  <2>1. Null.status = None
    BY DEF Null
  <2>2. QED
    BY <1>1, <1>3, <2>1, SavedNull DEF Series
<1>4. QED
  BY <1>1, <1>2, <1>3, StateFrame DEF Series

LEMMA InitSeries == Init => Series
BY DEF Init, Series, Null, None

\* An alert starts to fire only when every outcome for its forSeconds was a
\* breach, unless two runs evaluated it together: nextStatus and firedAt count
\* the pending time from the first breach of the series.
THEOREM FiresInTime == Spec => FiresAfterFor
<1>1. ASSUME Typed, Alone, Series, [Next]_vars
      PROVE  \A a \in Alert :
               ~overlap /\ state[a].status # "firing" /\ state'[a].status = "firing" =>
                 since'[a] # 0 /\ state'[a].firedAt >= since'[a] + For[a]
  <2>1. SUFFICES ASSUME NEW a \in Alert, ~overlap, state[a].status # "firing",
                        state'[a].status = "firing"
                 PROVE  since'[a] # 0 /\ state'[a].firedAt >= since'[a] + For[a]
    OBVIOUS
  <2>2. ASSUME NEW e \in Evaluator, Save(e)
        PROVE  since'[a] # 0 /\ state'[a].firedAt >= since'[a] + For[a]
    BY <1>1, <2>1, <2>2, SavedSeries
  <2>3. ASSUME NEW e \in Evaluator PROVE ~SaveNull(e)
    BY <1>1, <2>1, SavedNull
  <2>4. QED
    BY <1>1, <2>1, <2>2, <2>3, StateFrame
<1>2. Typed /\ Alone /\ Series /\ [Next]_vars =>
        [\A a \in Alert :
           ~overlap /\ state[a].status # "firing" /\ state'[a].status = "firing" =>
             since'[a] # 0 /\ state'[a].firedAt >= since'[a] + For[a]]_vars
  BY <1>1
<1>3. QED
  BY <1>2, InitTyped, StepTyped, InitAlone, AloneStep, InitSeries, SeriesStep, PTL
     DEF Spec, FiresAfterFor

-----------------------------------------------------------------------------
(* The events tell the state, where nothing silences them, breaks a run    *)
(* off, or evaluates an alert twice at once.                               *)

Plain == ~overlap /\ throws = 0 /\ \A s \in Silence : silence[s] = Unmuted

InTurn(s) == \A i \in DOMAIN s : s[i] = IF i % 2 = 1 THEN "firing" ELSE "ok"

Appending(a) == \E e \in Evaluator : run[e].pc = "event" /\ run[e].alert = a

\* How many events the alert of e has while the run of e appends one.
Announces(e) ==
  run[e].pc = "event" =>
    /\ run[e].status = state[run[e].alert].status
    /\ Len(events[run[e].alert]) % 2 = 1 <=> run[e].status = "ok"

Told(a) ==
  /\ InTurn(events[a])
  /\ ~Appending(a) => (Len(events[a]) % 2 = 1 <=> state[a].status = "firing")

Announced ==
  Plain => /\ \A e \in Evaluator : ~run[e].silenced /\ Announces(e)
           /\ \A a \in Alert : Told(a)

LEMMA AnnouncedTells == Announced => EventsTellState
BY DEF Announced, Plain, Told, InTurn, Appending, EventsTellState

\* Appending in turn.
LEMMA AppendInTurn ==
  ASSUME NEW s \in Seq({"ok", "firing"}), InTurn(s), NEW x \in {"ok", "firing"},
         Len(s) % 2 = 1 <=> x = "ok"
  PROVE  /\ InTurn(Append(s, x))
         /\ Len(Append(s, x)) % 2 = 1 <=> x = "firing"
<1>1. /\ Len(s) \in Nat /\ Len(Append(s, x)) = Len(s) + 1
      /\ DOMAIN Append(s, x) = 1 .. (Len(s) + 1) /\ DOMAIN s = 1 .. Len(s)
      /\ \A i \in 1 .. Len(s) : Append(s, x)[i] = s[i]
      /\ Append(s, x)[Len(s) + 1] = x
  OBVIOUS
<1>2. (Len(s) + 1) % 2 = 1 <=> Len(s) % 2 # 1
  BY <1>1
<1>3. QED
  BY <1>1, <1>2 DEF InTurn

\* What spoils the history is never forgotten.
LEMMA PlainStays ==
  ASSUME Typed, [Next]_vars, Plain'
  PROVE  Plain /\ \A e \in Evaluator : ~Throws(e)
<1>1. ~overlap
  BY OverlapStays DEF Plain
<1>2. throws = 0 /\ \A e \in Evaluator : ~Throws(e)
  <2>1. throws \in Nat /\ throws' = 0
    BY DEF Typed, TablesOK, Plain
  <2>2. \A e \in Evaluator : ~Throws(e)
    BY <2>1 DEF Throws
  <2>3. CASE UNCHANGED vars \/ Tick \/ Request
    BY <2>1, <2>2, <2>3, RequestTyped DEF vars, Tick, bounds
  <2>4. ASSUME NEW e \in Evaluator, Evaluation(e) PROVE throws = 0
    <3>1. throws' = throws
      BY <2>2, <2>4 DEF Evaluation, Start, TryLock, LockFails, ReadState, SaveNull, ListSilences,
                        Save, AppendEvent, SaveRefused, Finish, bounds
    <3>2. QED
      BY <2>1, <3>1
  <2>5. QED
    BY <2>2, <2>3, <2>4, NextCases
<1>3. \A s \in Silence : silence[s] = Unmuted
  <2>1. CASE UNCHANGED silence
    BY <2>1 DEF Plain
  <2>2. CASE UNCHANGED vars \/ Tick
    BY <2>1, <2>2 DEF vars, Tick, tables
  <2>3. ASSUME NEW e \in Evaluator, Evaluation(e) PROVE UNCHANGED silence
    BY <2>3, EvaluationCases, StartLocals, LockLocals, AfterLockLocals DEF tables
  <2>4. CASE Request
    <3>1. CASE \E a \in Alert : SaveAlert(a) \/ DeleteAlert(a)
      BY <2>1, <3>1 DEF SaveAlert, DeleteAlert
    <3>2. ASSUME NEW x \in Silence, CreateSilence(x) PROVE \A s \in Silence : silence[s] = Unmuted
      BY <3>2 DEF CreateSilence, Plain, Typed, TablesOK
    <3>3. ASSUME NEW x \in Silence PROVE ~DeleteSilence(x)
      BY NamesDiffer DEF DeleteSilence, Plain, Typed, TablesOK
    <3>4. QED
      BY <2>4, <3>1, <3>2, <3>3 DEF Request
  <2>5. QED
    BY <2>1, <2>2, <2>3, <2>4, NextCases
<1>4. QED
  BY <1>1, <1>2, <1>3 DEF Plain

\* A run that neither saves nor appends leaves what is announced.
LEMMA AnnouncedFrame ==
  ASSUME Plain, Announced, NEW e \in Evaluator, Others(e), UNCHANGED <<state, events>>,
         run[e].pc # "event", run'[e].pc # "event", ~run'[e].silenced
  PROVE  Announced'
<1>a. \A f \in Evaluator \ {e} : run'[f] = run[f]
  BY DEF Others
<1>1. \A f \in Evaluator : ~run'[f].silenced /\ Announces(f)'
  BY <1>a DEF Announced, Announces
<1>2. \A a \in Alert : Told(a)'
  <2>1. \A a \in Alert : Appending(a)' <=> Appending(a)
    BY <1>a DEF Appending
  <2>2. QED
    BY <2>1 DEF Announced, Told
<1>3. QED
  BY <1>1, <1>2 DEF Announced

\* A run that saves the state of its alert: the others' alerts are others.
LEMMA AnnouncedSave ==
  ASSUME Typed, Typed', Plain, Alone, Announced, NEW e \in Evaluator, Others(e), UNCHANGED events,
         run[e].alert \in Alert, run[e].pc # "event", ~run'[e].silenced,
         \A b \in Alert \ {run[e].alert} : state'[b] = state[b],
         \/ /\ run'[e].pc # "event"
            /\ state'[run[e].alert].status = "firing" <=> state[run[e].alert].status = "firing"
         \/ /\ run'[e].pc = "event" /\ run'[e].alert = run[e].alert
            /\ run'[e].status = state'[run[e].alert].status
            /\ run'[e].status \in {"ok", "firing"}
            /\ run'[e].status = "ok" <=> state[run[e].alert].status = "firing"
  PROVE  Announced'
<1> DEFINE a == run[e].alert
<1>a. \A f \in Evaluator \ {e} : run'[f] = run[f]
  BY DEF Others
<1>b. \A f \in Evaluator \ {e} : run[f].alert # a
  BY NamesDiffer DEF Alone, Plain
<1>c. \A f \in Evaluator : run[f].pc = "event" => run[f].alert \in Alert
  BY DEF Typed, RunsOK, RunOK, Run
<1>1. Told(a) /\ ~Appending(a)
  BY <1>b DEF Announced, Appending
<1>2. ASSUME NEW f \in Evaluator \ {e} PROVE ~run'[f].silenced /\ Announces(f)'
  <2>1. ~run[f].silenced /\ Announces(f)
    BY DEF Announced
  <2>2. CASE run[f].pc = "event"
    <3>1. run[f].alert \in Alert \ {a}
      BY <1>b, <1>c, <2>2
    <3>2. QED
      BY <1>a, <2>1, <3>1 DEF Announces
  <2>3. QED
    BY <1>a, <2>1, <2>2 DEF Announces
<1>3. ~run'[e].silenced /\ Announces(e)'
  BY <1>1 DEF Told, Announces
<1>4. ASSUME NEW b \in Alert PROVE Told(b)'
  <2>1. CASE b # a
    <3>1. state'[b] = state[b] /\ events'[b] = events[b] /\ (Appending(b)' <=> Appending(b))
      BY <1>a, <2>1 DEF Appending
    <3>2. Told(b)
      BY DEF Announced
    <3>3. QED
      BY <3>1, <3>2 DEF Told
  <2>2. CASE b = a
    <3>1. run'[e].pc = "event" /\ run'[e].alert = a => Appending(b)'
      BY <2>2 DEF Appending
    <3>2. QED
      BY <1>1, <2>2, <3>1 DEF Told, InTurn
  <2>3. QED
    BY <2>1, <2>2
<1>5. QED
  BY <1>2, <1>3, <1>4 DEF Announced

LEMMA AnnouncedAppend ==
  ASSUME Typed, Typed', Plain, Alone, Announced, NEW e \in Evaluator, AppendEvent(e)
  PROVE  Announced'
<1> DEFINE a == run[e].alert
<1>1. /\ a \in Alert /\ Others(e) /\ state' = state /\ run[e].pc = "event"
      /\ events' = [events EXCEPT ![a] = Append(@, run[e].status)]
      /\ Done(e) /\ run[e].status \in {"ok", "firing"}
  BY AppendEventTyped DEF AppendEvent, Typed, RunsOK, RunOK
<1>2. run'[e].pc = "lock" /\ ~run'[e].silenced
  BY <1>1, DoneLocals
<1>a. \A f \in Evaluator \ {e} : run'[f] = run[f]
  BY <1>1 DEF Others
<1>b. \A f \in Evaluator \ {e} : run[f].alert # a
  BY <1>1, NamesDiffer DEF Alone, Plain
<1>c. events \in [Alert -> Seq({"ok", "firing"})]
  BY DEF Typed, TablesOK
<1>d. /\ events'[a] = Append(events[a], run[e].status) /\ events[a] \in Seq({"ok", "firing"})
      /\ \A b \in Alert \ {a} : events'[b] = events[b]
  BY <1>1, <1>c
<1>3. /\ InTurn(events[a]) /\ run[e].status = state[a].status
      /\ Len(events[a]) % 2 = 1 <=> run[e].status = "ok"
  BY <1>1 DEF Announced, Told, Announces
<1>e. /\ InTurn(Append(events[a], run[e].status))
      /\ Len(Append(events[a], run[e].status)) % 2 = 1 <=> run[e].status = "firing"
  BY <1>1, <1>d, <1>3, AppendInTurn
<1>4. /\ InTurn(events'[a])
      /\ Len(events'[a]) % 2 = 1 <=> state'[a].status = "firing"
  BY <1>1, <1>d, <1>3, <1>e
<1>5. \A f \in Evaluator \ {e} : run[f].pc = "event" => run[f].alert \in Alert
  BY DEF Typed, RunsOK, RunOK, Run
<1>6. ASSUME NEW f \in Evaluator \ {e} PROVE ~run'[f].silenced /\ Announces(f)'
  <2>1. ~run[f].silenced /\ Announces(f)
    BY DEF Announced
  <2>2. CASE run[f].pc = "event"
    <3>1. run[f].alert \in Alert \ {a}
      BY <1>b, <1>5, <2>2
    <3>2. events'[run[f].alert] = events[run[f].alert] /\ state' = state
      BY <1>1, <1>d, <3>1
    <3>3. QED
      BY <1>a, <2>1, <3>2 DEF Announces
  <2>3. QED
    BY <1>a, <2>1, <2>2 DEF Announces
<1>7. ASSUME NEW b \in Alert PROVE Told(b)'
  <2>1. CASE b = a
    BY <1>4, <2>1 DEF Told
  <2>2. CASE b # a
    <3>1. events'[b] = events[b] /\ (Appending(b)' <=> Appending(b))
      BY <1>2, <1>a, <1>d, <2>2 DEF Appending
    <3>2. QED
      BY <1>1, <3>1 DEF Announced, Told
  <2>3. QED
    BY <2>1, <2>2
<1>8. QED
  BY <1>2, <1>6, <1>7 DEF Announced, Announces

LEMMA AnnouncedEvaluation ==
  ASSUME Typed, Typed', Plain, Alone, Announced, NEW e \in Evaluator, Evaluation(e), ~Throws(e)
  PROVE  Announced'
<1>a. Others(e) /\ ~run[e].silenced
  BY EvaluationTyped DEF Announced
<1>1. CASE Start(e)
  BY <1>a, <1>1, StartLocals, AnnouncedFrame DEF tables
<1>2. CASE TryLock(e) \/ LockFails(e)
  <2>1. /\ UNCHANGED <<state, events>> /\ run[e].pc = "lock" /\ run'[e].pc \in {"lock", "read"}
        /\ run'[e].silenced = run[e].silenced
    BY <1>2, LockLocals DEF tables
  <2>2. QED
    BY <1>a, <2>1, AnnouncedFrame
<1>3. CASE ReadState(e)
  <2>1. /\ UNCHANGED <<state, events>> /\ run[e].pc = "read" /\ run'[e].pc \in {"silences", "null"}
        /\ run'[e].silenced = run[e].silenced
    BY <1>3, ReadStateTyped DEF ReadState, tables
  <2>2. QED
    BY <1>a, <2>1, AnnouncedFrame
<1>4. CASE ListSilences(e)
  <2>1. /\ UNCHANGED <<state, events>> /\ run[e].pc = "silences" /\ run'[e].pc = "save"
    BY <1>4, ListSilencesTyped DEF ListSilences, tables
  <2>2. ~run'[e].silenced
    <3>1. \A s \in Silence : ~Active(silence[s], run[e].at, run[e].alert)
      BY <1>4, ListSilencesTyped, NamesDiffer DEF Plain, Active
    <3>2. QED
      BY <1>4, <3>1, ListSilencesTyped
  <2>3. QED
    BY <1>a, <2>1, <2>2, AnnouncedFrame
<1>5. CASE SaveNull(e)
  <2>1. /\ run'[e].pc = "lock" /\ ~run'[e].silenced /\ run[e].pc = "null" /\ UNCHANGED events
    BY <1>5, DoneLocals DEF SaveNull
  <2>2. /\ run[e].alert \in Alert
        /\ \A b \in Alert \ {run[e].alert} : state'[b] = state[b]
        /\ state'[run[e].alert].status = "firing" <=> state[run[e].alert].status = "firing"
    BY <1>5, SavedNull DEF Plain, Null, None
  <2>3. QED
    BY <1>a, <2>1, <2>2, AnnouncedSave
<1>6. CASE Save(e)
  <2> DEFINE a == run[e].alert
             status == NextStatus(a, run[e].breached, run[e].prev, run[e].at)
  <2>1. /\ run[e].pc = "save" /\ UNCHANGED events /\ a \in Alert /\ run[e].prev = state[a]
        /\ state' = [state EXCEPT ![a] =
             [status |-> status, firedAt |-> FiredAt(status, run[e].prev, run[e].at)]]
    BY <1>6, SaveTyped DEF Save, Alone, Plain
  <2>2. /\ state'[a].status = status /\ \A b \in Alert \ {a} : state'[b] = state[b]
    <3> HIDE DEF status
    <3>1. QED
      BY <2>1 DEF Typed, TablesOK
  <2>3. state[a].status = "firing" => status \in {"ok", "firing"}
    BY <2>1 DEF NextStatus
  <2> HIDE DEF status
  <2>4. ASSUME Done(e), ~Transition(state[a], status) PROVE Announced'
    <3>1. run'[e].pc = "lock" /\ ~run'[e].silenced
      BY <2>4, DoneLocals
    <3>2. status = "firing" <=> state[a].status = "firing"
      BY <2>3, <2>4 DEF Transition
    <3>3. QED
      BY <1>a, <2>1, <2>2, <3>1, <3>2, AnnouncedSave
  <2>5. ASSUME run'[e].pc = "event", run'[e].alert = a, ~run'[e].silenced, run'[e].status = status,
               Transition(state[a], status)
        PROVE  Announced'
    <3>1. status \in {"ok", "firing"} /\ (status = "ok" <=> state[a].status = "firing")
      BY <2>3, <2>5 DEF Transition
    <3>2. QED
      BY <1>a, <2>1, <2>2, <2>5, <3>1, AnnouncedSave
  <2>6. QED
    BY <1>a, <1>6, <2>1, <2>4, <2>5, SaveLocals DEF status
<1>7. CASE AppendEvent(e)
  BY <1>7, AnnouncedAppend
<1>8. CASE SaveRefused(e) \/ Finish(e)
  <2>1. /\ UNCHANGED <<state, events>> /\ run'[e] = Idle /\ run[e].pc # "event"
    BY <1>8, EndsTyped DEF SaveRefused, Finish, tables
  <2>2. Idle.pc = "idle" /\ ~Idle.silenced
    BY DEF Idle
  <2>3. QED
    BY <1>a, <2>1, <2>2, AnnouncedFrame
<1>9. QED
  BY <1>1, <1>2, <1>3, <1>4, <1>5, <1>6, <1>7, <1>8 DEF Evaluation

LEMMA AnnouncedStep == Typed /\ Alone /\ Announced /\ [Next]_vars => Announced'
<1> SUFFICES ASSUME Typed, Alone, Announced, [Next]_vars, Plain' PROVE Announced'
  BY DEF Announced
<1>1. Plain /\ Typed' /\ \A e \in Evaluator : ~Throws(e)
  BY PlainStays, StepTyped
<1>2. ASSUME UNCHANGED <<run, state, events>> PROVE Announced'
  <2>1. \A a \in Alert : Appending(a)' <=> Appending(a)
    BY <1>2 DEF Appending
  <2>2. \A e \in Evaluator : Announces(e) => Announces(e)'
    BY <1>2 DEF Announces
  <2>3. QED
    BY <1>1, <1>2, <2>1, <2>2 DEF Announced, Told
<1>3. CASE UNCHANGED vars \/ Tick \/ Request
  BY <1>2, <1>3, RequestTyped DEF vars, Tick, tables
<1>4. QED
  BY <1>1, <1>3, NextCases, AnnouncedEvaluation

LEMMA InitAnnounced == Init => Announced
<1> SUFFICES ASSUME Init PROVE Announced
  OBVIOUS
<1>1. \A e \in Evaluator : run[e].pc = "idle" /\ ~run[e].silenced
  BY DEF Init, Idle
<1>2. \A a \in Alert : events[a] = <<>> /\ state[a].status = None
  BY DEF Init, Null
<1>3. InTurn(<<>>) /\ Len(<<>>) % 2 # 1 /\ None # "firing"
  BY DEF InTurn, None
<1>4. \A a \in Alert : Told(a)
  BY <1>2, <1>3 DEF Told
<1>5. QED
  BY <1>1, <1>4 DEF Announced, Announces

\* The events of an alert say in turn that it fires and that it is resolved, and
\* the last one is its state, where no silence, no overlap and no broken run
\* comes between the save of a state and the append of its event.
THEOREM EventsTell == Spec => []EventsTellState
<1>1. QED
  BY AnnouncedTells, InitTyped, StepTyped, InitAlone, AloneStep, InitAnnounced, AnnouncedStep, PTL
     DEF Spec
=============================================================================
