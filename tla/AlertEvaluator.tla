--------------------------- MODULE AlertEvaluator ---------------------------
(***************************************************************************)
(* evaluateAllAlerts: every minute a cron run lists the enabled alerts,    *)
(* takes a lock on each from the AlertCoordinator, evaluates its query,    *)
(* saves its state and appends an event when it starts or stops firing.    *)
(* Meanwhile a user enables, disables and deletes alerts and adds silences.*)
(*                                                                         *)
(* The alerts are those of one tenant: lock, state, silences and events    *)
(* are all per alert or per tenant.  A run uses the time it started for    *)
(* everything it evaluates; the coordinator compares a lock with the clock.*)
(* The webhook call changes no state and is left out.                      *)
(***************************************************************************)
EXTENDS Naturals, Sequences, FiniteSets

CONSTANTS
  Alert, Evaluator,  \* alerts, and cron runs that may overlap
  For,               \* forSeconds of each alert
  Silence, Window,   \* silences a user may create, their <<start, end>>
  LockTime,          \* how long after a run's start its locks last: 50 s
  Gap,               \* the least time between the starts of two runs
  MaxRun,            \* bound: the time a run takes
  MaxTime,           \* bound: the clock
  MaxThrows,         \* bound: runs that throw or are killed
  MaxLockFaults      \* bound: failed calls of the coordinator

ASSUME AlertAssumption ==
  /\ {LockTime, Gap, MaxRun, MaxTime, MaxThrows, MaxLockFaults} \subseteq Nat
  /\ Gap # 0
  /\ For \in [Alert -> Nat]
  /\ Window \subseteq Nat \X Nat /\ \A w \in Window : w[1] < w[2]

VARIABLES
  now,      \* the clock; 0 stands for null
  row,      \* table alerts: "enabled", "disabled" or "gone"
  state,    \* table alert_states
  events,   \* table alert_events: the statuses of each alert's events
  silence,  \* table alert_silences
  lock,     \* the coordinator's lock of each alert
  run,      \* per evaluator: the run it is in
  last,     \* when the last run started
  throws, faults,
  since,    \* history: when the present series of breaches was first seen
  recent,   \* history: the starts of runs less than LockTime ago
  skipped,  \* history: alerts found locked with no other such start
  overlap   \* history: a run began an alert that another was evaluating

tables == <<row, state, events, silence>>
bounds == <<throws, faults>>
history == <<since, recent, skipped, overlap>>
vars == <<now, tables, lock, run, last, bounds, history>>

None == "none"
AllAlerts == "all"

ASSUME NameAssumption == Alert \intersect {None, AllAlerts, "deleted"} = {}

Status == {"ok", "pending", "firing"}
Null == [status |-> None, firedAt |-> 0]
Mute == [alert : Alert \union {AllAlerts}, from : Nat, to : Nat]
Unmuted == [alert |-> None, from |-> 0, to |-> 0]
Deleted == [alert |-> "deleted", from |-> 0, to |-> 0]

Idle == [pc |-> "idle", at |-> 0, todo |-> {}, alert |-> None, breached |-> FALSE,
         prev |-> Null, silenced |-> FALSE, status |-> None,
         known |-> [s \in Silence |-> Unmuted]]

Init ==
  /\ now = 1 /\ last = 0
  /\ row = [a \in Alert |-> "enabled"]
  /\ state = [a \in Alert |-> Null]
  /\ events = [a \in Alert |-> <<>>]
  /\ silence = [s \in Silence |-> Unmuted]
  /\ lock = [a \in Alert |-> 0]
  /\ run = [e \in Evaluator |-> Idle]
  /\ throws = 0 /\ faults = 0
  /\ since = [a \in Alert |-> 0] /\ recent = {} /\ skipped = {} /\ overlap = FALSE

Tick ==
  /\ now < MaxTime
  /\ \A e \in Evaluator : run[e] # Idle => now < run[e].at + MaxRun
  /\ now' = now + 1
  /\ recent' = {t \in recent : t + LockTime > now'}
  /\ UNCHANGED <<tables, lock, run, last, bounds, since, skipped, overlap>>

-----------------------------------------------------------------------------
(* A cron run.                                                             *)

Start(e) ==
  /\ run[e] = Idle
  /\ last = 0 \/ now >= last + Gap
  /\ run' = [run EXCEPT ![e] =
       [Idle EXCEPT !.pc = "lock", !.at = now, !.known = silence,
                    !.todo = {a \in Alert : row[a] = "enabled"}]]
  /\ last' = now
  /\ recent' = recent \union {now}
  /\ UNCHANGED <<now, tables, lock, bounds, since, skipped, overlap>>

\* The run of e goes on to alert a.
Evaluate(e, a) ==
  /\ run' = [run EXCEPT ![e].pc = "read", ![e].alert = a, ![e].todo = @ \ {a}]
  /\ overlap' = (overlap \/ \E f \in Evaluator \ {e} : run[f].alert = a)

\* The run of e has done its alert.
Done(e) ==
  run' = [run EXCEPT ![e] = [Idle EXCEPT !.pc = "lock", !.at = run[e].at,
                               !.known = run[e].known, !.todo = run[e].todo]]

Skip(e, a) ==
  /\ run' = [run EXCEPT ![e].todo = @ \ {a}]
  /\ skipped' = IF recent \subseteq {run[e].at} THEN skipped \union {a} ELSE skipped
  /\ UNCHANGED <<lock, overlap>>

\* Mutant: the coordinator does not look at the lock it holds.
TryLock_NotHeld(e) ==
  /\ run[e].pc = "lock"
  /\ \E a \in run[e].todo :
       /\ lock' = [lock EXCEPT ![a] = run[e].at + LockTime]
       /\ Evaluate(e, a)
  /\ UNCHANGED <<now, tables, last, bounds, since, recent, skipped>>

\* Mutant: a lock lasts from the time it is taken.
TryLock_FromNow(e) ==
  /\ run[e].pc = "lock"
  /\ \E a \in run[e].todo :
       \/ lock[a] > now /\ Skip(e, a)
       \/ /\ lock[a] <= now
          /\ lock' = [lock EXCEPT ![a] = now + LockTime]
          /\ Evaluate(e, a)
          /\ UNCHANGED skipped
  /\ UNCHANGED <<now, tables, last, bounds, since, recent>>

\* The coordinator tests and sets a lock in one step; a held one skips the
\* alert.
TryLock(e) ==
  /\ run[e].pc = "lock"
  /\ \E a \in run[e].todo :
       \/ lock[a] > now /\ Skip(e, a)
       \/ /\ lock[a] <= now
          /\ lock' = [lock EXCEPT ![a] = run[e].at + LockTime]
          /\ Evaluate(e, a)
          /\ UNCHANGED skipped
  /\ UNCHANGED <<now, tables, last, bounds, since, recent>>

\* A call of the coordinator that fails counts as a lock.
LockFails(e) ==
  /\ run[e].pc = "lock"
  /\ faults < MaxLockFaults /\ faults' = faults + 1
  /\ \E a \in run[e].todo : Evaluate(e, a)
  /\ UNCHANGED <<now, tables, lock, last, throws, since, recent, skipped>>

\* The query's outcome and the alert's state; a query that fails has none.
ReadState(e) ==
  /\ run[e].pc = "read"
  /\ \/ \E b \in BOOLEAN :
          run' = [run EXCEPT ![e].pc = "silences", ![e].breached = b,
                             ![e].prev = state[run[e].alert]]
     \/ run' = [run EXCEPT ![e].pc = "null", ![e].prev = state[run[e].alert]]
  /\ UNCHANGED <<now, tables, lock, last, bounds, history>>

\* The row of a state refers to its alert.
Referable(a) == row[a] # "gone"

\* Without an outcome the alert keeps its status.
SaveNull(e) ==
  LET a == run[e].alert
      p == run[e].prev IN
  /\ run[e].pc = "null"
  /\ Referable(a)
  /\ state' = [state EXCEPT ![a] =
       IF p = Null THEN [status |-> "ok", firedAt |-> 0] ELSE p]
  /\ Done(e)
  /\ UNCHANGED <<now, row, events, silence, lock, last, bounds, history>>

\* Mutant: a silence of all alerts is passed over.
Active_OnlyOwn(s, t, a) == s.alert = a /\ s.from <= t /\ t < s.to

Active(s, t, a) == s.alert \in {a, AllAlerts} /\ s.from <= t /\ t < s.to

ListSilences(e) ==
  /\ run[e].pc = "silences"
  /\ run' = [run EXCEPT ![e].pc = "save",
       ![e].silenced = \E s \in Silence : Active(silence[s], run[e].at, run[e].alert)]
  /\ UNCHANGED <<now, tables, lock, last, bounds, history>>

NextStatus(a, breached, p, t) ==
  CASE ~breached -> "ok"
    [] breached /\ (For[a] = 0 \/ p.status = "firing") -> "firing"
    [] breached /\ For[a] # 0 /\ p.status = "pending" ->
         IF t - p.firedAt >= For[a] THEN "firing" ELSE "pending"
    [] OTHER -> "pending"

\* Mutant: an alert that was pending, or fired, keeps the time.
FiredAt_Kept(status, p, t) ==
  IF status = "firing" \/ (status = "pending" /\ p.firedAt = 0) THEN t
  ELSE p.firedAt

\* While pending the time since when, while firing the last time it fired,
\* kept for one evaluation after that.
FiredAt(status, p, t) ==
  CASE status = "firing" -> t
    [] status = "pending" -> IF p.status = "pending" THEN p.firedAt ELSE t
    [] status = "ok" -> IF p.status = "firing" THEN p.firedAt ELSE 0

\* Mutant: every evaluation that fires is announced.
Transition_Repeats(p, status) ==
  status = "firing" \/ (p.status = "firing" /\ status = "ok")

Transition(p, status) ==
  p.status # status /\ (status = "firing" \/ (p.status = "firing" /\ status = "ok"))

Save(e) ==
  LET a == run[e].alert
      p == run[e].prev
      status == NextStatus(a, run[e].breached, p, run[e].at) IN
  /\ run[e].pc = "save"
  /\ Referable(a)
  /\ state' = [state EXCEPT ![a] =
       [status |-> status, firedAt |-> FiredAt(status, p, run[e].at)]]
  /\ since' = [since EXCEPT ![a] =
       IF ~run[e].breached THEN 0 ELSE IF @ = 0 THEN run[e].at ELSE @]
  /\ IF ~run[e].silenced /\ Transition(p, status)
     THEN run' = [run EXCEPT ![e].pc = "event", ![e].status = status]
     ELSE Done(e)
  /\ UNCHANGED <<now, row, events, silence, lock, last, bounds, recent, skipped, overlap>>

AppendEvent(e) ==
  /\ run[e].pc = "event"
  /\ events' = [events EXCEPT ![run[e].alert] = Append(@, run[e].status)]
  /\ Done(e)
  /\ UNCHANGED <<now, row, state, silence, lock, last, bounds, history>>

\* The state of an alert that was deleted cannot be saved: the run throws, and
\* leaves its other alerts.
SaveRefused(e) ==
  /\ run[e].pc \in {"null", "save"}
  /\ ~Referable(run[e].alert)
  /\ run' = [run EXCEPT ![e] = Idle]
  /\ UNCHANGED <<now, tables, lock, last, bounds, history>>

\* A call of the database throws, or the run is killed.
Throws(e) ==
  /\ run[e] # Idle
  /\ throws < MaxThrows /\ throws' = throws + 1
  /\ run' = [run EXCEPT ![e] = Idle]
  /\ UNCHANGED <<now, tables, lock, last, faults, history>>

Finish(e) ==
  /\ run[e].pc = "lock" /\ run[e].todo = {}
  /\ run' = [run EXCEPT ![e] = Idle]
  /\ UNCHANGED <<now, tables, lock, last, bounds, history>>

-----------------------------------------------------------------------------
(* Requests of users.                                                      *)

SaveAlert(a) ==
  /\ row[a] # "gone"
  /\ \E s \in {"enabled", "disabled"} : row' = [row EXCEPT ![a] = s]
  /\ UNCHANGED <<now, state, events, silence, lock, run, last, bounds, history>>

\* alert_states and alert_silences refer to the alert: once one of them does,
\* the database refuses to delete it.
DeleteAlert(a) ==
  /\ row[a] # "gone"
  /\ state[a] = Null /\ \A s \in Silence : silence[s].alert # a
  /\ row' = [row EXCEPT ![a] = "gone"]
  /\ UNCHANGED <<now, state, events, silence, lock, run, last, bounds, history>>

CreateSilence(s) ==
  /\ silence[s] = Unmuted
  /\ \E w \in Window, a \in {x \in Alert : row[x] # "gone"} \union {AllAlerts} :
       silence' = [silence EXCEPT ![s] = [alert |-> a, from |-> w[1], to |-> w[2]]]
  /\ UNCHANGED <<now, row, state, events, lock, run, last, bounds, history>>

DeleteSilence(s) ==
  /\ silence[s] \in Mute
  /\ silence' = [silence EXCEPT ![s] = Deleted]
  /\ UNCHANGED <<now, row, state, events, lock, run, last, bounds, history>>

Evaluation(e) ==
  \/ Start(e) \/ TryLock(e) \/ LockFails(e) \/ ReadState(e) \/ SaveNull(e)
  \/ ListSilences(e) \/ Save(e) \/ AppendEvent(e) \/ SaveRefused(e)
  \/ Throws(e) \/ Finish(e)

Next ==
  \/ Tick
  \/ \E e \in Evaluator : Evaluation(e)
  \/ \E a \in Alert : SaveAlert(a) \/ DeleteAlert(a)
  \/ \E s \in Silence : CreateSilence(s) \/ DeleteSilence(s)

Spec == Init /\ [][Next]_vars

-----------------------------------------------------------------------------
(* Properties.                                                             *)

\* Types; a pending alert knows since when.
TypesOK ==
  /\ {now, last, throws, faults} \subseteq Nat
  /\ row \in [Alert -> {"enabled", "disabled", "gone"}]
  /\ state \in [Alert -> [status : Status \union {None}, firedAt : 0..now]]
  /\ \A a \in Alert : state[a].status = "pending" => state[a].firedAt # 0
  /\ events \in [Alert -> Seq({"ok", "firing"})]
  /\ silence \in [Silence -> Mute \union {Unmuted, Deleted}]
  /\ lock \in [Alert -> 0..(now + LockTime)]
  /\ recent \subseteq 1..now /\ overlap \in BOOLEAN
  /\ \A e \in Evaluator :
       /\ run[e].pc \in {"idle", "lock", "read", "null", "silences", "save", "event"}
       /\ run[e].at \in 0..now /\ run[e].todo \subseteq Alert
       /\ run[e].alert \in Alert \union {None}
       /\ run[e].prev \in [status : Status \union {None}, firedAt : 0..now]

\* Each alert is evaluated by one run at a time (ARCHITECTURE.md: the
\* coordinator holds the alert evaluation locks), as long as the coordinator
\* answers and no run goes on for longer than its locks.  (And the types.)
OneEvaluatorAtATime ==
  /\ TypesOK
  /\ faults = 0 =>
    \A e, f \in Evaluator : run[e].alert # None /\ run[e].alert = run[f].alert =>
      e = f \/ now >= run[e].at + LockTime \/ now >= run[f].at + LockTime

\* The events of an alert say in turn that it fires and that it is resolved,
\* and, but for an event that is being appended, the last one is its state.
\* (Not with silences, runs that throw, or two runs that evaluate it together.)
EventsTellState ==
  ~overlap /\ throws = 0 /\ (\A s \in Silence : silence[s] = Unmuted) =>
    \A a \in Alert :
      LET s == events[a] IN
      /\ \A i \in DOMAIN s : s[i] = IF i % 2 = 1 THEN "firing" ELSE "ok"
      /\ (\A e \in Evaluator : run[e].pc = "event" => run[e].alert # a) =>
           ((Len(s) % 2 = 1) <=> (state[a].status = "firing"))

\* An alert starts to fire only when every outcome for its forSeconds was a
\* breach, unless two runs evaluated it together.
FiresAfterFor ==
  [][\A a \in Alert :
       ~overlap /\ state[a].status # "firing" /\ state'[a].status = "firing" =>
         since'[a] # 0 /\ state'[a].firedAt >= since'[a] + For[a]]_vars

\* No event is appended for an alert that a silence covers, if the silence was
\* there when the run started and still is.
SilencedIsQuiet ==
  \A e \in Evaluator : run[e].pc = "event" =>
    \A s \in Silence : silence[s] = run[e].known[s] /\ silence[s] \in Mute =>
      ~ /\ silence[s].alert \in {run[e].alert, AllAlerts}
        /\ silence[s].from <= run[e].at /\ run[e].at < silence[s].to

\* A run that starts LockTime after the one before finds no alert locked, though
\* that one was killed or was slow to take its locks.
NeverSkipped == skipped = {}
=============================================================================
