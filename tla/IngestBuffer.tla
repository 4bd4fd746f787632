---------------------------- MODULE IngestBuffer ----------------------------
(***************************************************************************)
(* The durable object IngestBuffer of one tenant: requests append items to *)
(* a bounded list in its storage, and an alarm (or a /flush request) takes *)
(* the list and sends it to the ingest queue in slices.                    *)
(*                                                                         *)
(* The input gate of a durable object lets nothing run between two storage *)
(* calls that follow each other; other events run while it waits for the   *)
(* queue.  The runtime runs one alarm at a time, forgets it when it starts *)
(* and calls it again, a bounded number of times, when it throws or dies.  *)
(***************************************************************************)
EXTENDS Naturals, Sequences, FiniteSets

CONSTANTS
  Event,       \* items clients send
  Flush,       \* /flush requests that may overlap
  Alarm,       \* the alarm handler, which is one more flusher
  MaxRequest,  \* items of one request (100)
  MaxItems,    \* MAX_ITEMS
  Slice,       \* items of one sendBatch
  MaxRetries,  \* retries of a failed alarm by the runtime
  MaxFaults,   \* bound: sendBatch calls that throw
  MaxCrashes   \* bound: evictions of the object

ASSUME BufferAssumption ==
  /\ {MaxRequest, MaxItems, Slice} \subseteq Nat \ {0}
  /\ {MaxRetries, MaxFaults, MaxCrashes} \subseteq Nat
  /\ Alarm \notin Flush

Flusher == Flush \union {Alarm}

VARIABLES
  items,      \* storage: the buffered items
  armed,      \* an alarm is set
  retries,    \* failed runs of that alarm
  pc, held,   \* per flusher: where it is, and what it has still to send
  taken,      \* per flusher: the items it took, for putting them back
  accepted,   \* history: items of answered requests
  delivered,  \* history: items that reached the ingest queue
  dropped,    \* history: items cut off at MaxItems
  stray,      \* history: items were put back and nothing is due to send them
  faults, crashes

flushVars == <<pc, held, taken>>
vars == <<items, armed, retries, flushVars, accepted, delivered, dropped, stray, faults, crashes>>

Elements(s) == {s[i] : i \in DOMAIN s}

\* The list without its oldest items, or without its newest.
Newest(s) == IF Len(s) > MaxItems THEN SubSeq(s, Len(s) - MaxItems + 1, Len(s)) ELSE s
Oldest(s) == IF Len(s) > MaxItems THEN SubSeq(s, 1, MaxItems) ELSE s

Init ==
  /\ items = <<>> /\ armed = FALSE /\ retries = 0
  /\ pc = [f \in Flusher |-> "idle"]
  /\ held = [f \in Flusher |-> <<>>]
  /\ taken = [f \in Flusher |-> <<>>]
  /\ accepted = {} /\ delivered = {} /\ dropped = {} /\ stray = FALSE
  /\ faults = 0 /\ crashes = 0

\* The items of a request: each is a new one.
Request ==
  {s \in UNION {[1 .. n -> Event] : n \in 1 .. MaxRequest} :
     \A i, j \in DOMAIN s : s[i] = s[j] => i = j}

Enqueue(s) ==
  LET all == items \o s IN
  /\ Elements(s) \intersect accepted = {}
  /\ items' = Newest(all)
  /\ dropped' = dropped \union (Elements(all) \ Elements(Newest(all)))
  /\ armed' = TRUE
  /\ retries' = IF armed THEN retries ELSE 0
  /\ accepted' = accepted \union Elements(s)
  /\ stray' = FALSE
  /\ UNCHANGED <<flushVars, delivered, faults, crashes>>

\* flush reads the items and, when there are any, empties the list.
Take(f) ==
  IF items = <<>>
  THEN UNCHANGED <<items, flushVars>>
  ELSE /\ pc' = [pc EXCEPT ![f] = "send"]
       /\ held' = [held EXCEPT ![f] = items]
       /\ taken' = [taken EXCEPT ![f] = items]
       /\ items' = <<>>

AlarmFires ==
  /\ armed /\ pc[Alarm] = "idle"
  /\ armed' = FALSE
  /\ Take(Alarm)
  /\ UNCHANGED <<retries, accepted, delivered, dropped, stray, faults, crashes>>

FlushStarts(f) ==
  /\ f \in Flush /\ pc[f] = "idle"
  /\ items # <<>>
  /\ Take(f)
  /\ UNCHANGED <<armed, retries, accepted, delivered, dropped, stray, faults, crashes>>

FirstSlice(f) == IF Len(held[f]) > Slice THEN Slice ELSE Len(held[f])

Rest(s, n) == SubSeq(s, n + 1, Len(s))

SendSlice(f) ==
  /\ pc[f] = "send" /\ held[f] # <<>>
  /\ delivered' = delivered \union Elements(SubSeq(held[f], 1, FirstSlice(f)))
  /\ held' = [held EXCEPT ![f] = Rest(@, FirstSlice(f))]
  /\ UNCHANGED <<items, armed, retries, pc, taken, accepted, dropped, stray, faults, crashes>>

\* The alarm handler looks at the items once more after its flush.
FlushDone(f) ==
  /\ pc[f] = "send" /\ held[f] = <<>>
  /\ pc' = [pc EXCEPT ![f] = "idle"]
  /\ taken' = [taken EXCEPT ![f] = <<>>]
  /\ armed' = (armed \/ (f = Alarm /\ items # <<>>))
  /\ retries' = IF f = Alarm /\ ~armed THEN 0 ELSE retries
  /\ UNCHANGED <<items, held, accepted, delivered, dropped, stray, faults, crashes>>

\* The runtime sets the alarm again when its handler fails.
RetryAlarm(f) ==
  IF f # Alarm THEN UNCHANGED <<armed, retries>>
  ELSE /\ armed' = (armed \/ retries < MaxRetries)
       /\ retries' = IF retries < MaxRetries THEN retries + 1 ELSE retries

\* No alarm is set, nor will the handler look: a /flush failed, or the
\* runtime stops calling the handler.
GivesUp(f) ==
  ~armed /\ IF f = Alarm THEN retries >= MaxRetries ELSE pc[Alarm] = "idle"

\* Mutant: what follows the failed slice is not put back.
SendThrows_Loses(f) ==
  /\ pc[f] = "send" /\ held[f] # <<>>
  /\ faults < MaxFaults
  /\ faults' = faults + 1
  /\ stray' = (stray \/ GivesUp(f))
  /\ delivered' \in {delivered, delivered \union Elements(SubSeq(held[f], 1, FirstSlice(f)))}
  /\ LET all == SubSeq(held[f], 1, FirstSlice(f)) \o items IN
     /\ items' = Oldest(all)
     /\ dropped' = dropped \union (Elements(all) \ Elements(Oldest(all)))
  /\ RetryAlarm(f)
  /\ pc' = [pc EXCEPT ![f] = "idle"]
  /\ held' = [held EXCEPT ![f] = <<>>]
  /\ taken' = [taken EXCEPT ![f] = <<>>]
  /\ UNCHANGED <<accepted, crashes>>

\* Mutant: a failed flush leaves the alarm off.
SendThrows_NoRetry(f) ==
  /\ pc[f] = "send" /\ held[f] # <<>>
  /\ faults < MaxFaults
  /\ faults' = faults + 1
  /\ stray' = (stray \/ GivesUp(f))
  /\ delivered' \in {delivered, delivered \union Elements(SubSeq(held[f], 1, FirstSlice(f)))}
  /\ LET all == taken[f] \o items IN
     /\ items' = Oldest(all)
     /\ dropped' = dropped \union (Elements(all) \ Elements(Oldest(all)))
  /\ pc' = [pc EXCEPT ![f] = "idle"]
  /\ held' = [held EXCEPT ![f] = <<>>]
  /\ taken' = [taken EXCEPT ![f] = <<>>]
  /\ UNCHANGED <<armed, retries, accepted, crashes>>

\* sendBatch throws, with or without effect: everything that was taken goes
\* back before what has come since, the slices already sent included.
SendThrows(f) ==
  /\ pc[f] = "send" /\ held[f] # <<>>
  /\ faults < MaxFaults
  /\ faults' = faults + 1
  /\ stray' = (stray \/ GivesUp(f))
  /\ delivered' \in {delivered, delivered \union Elements(SubSeq(held[f], 1, FirstSlice(f)))}
  /\ LET all == taken[f] \o items IN
     /\ items' = Oldest(all)
     /\ dropped' = dropped \union (Elements(all) \ Elements(Oldest(all)))
  /\ RetryAlarm(f)
  /\ pc' = [pc EXCEPT ![f] = "idle"]
  /\ held' = [held EXCEPT ![f] = <<>>]
  /\ taken' = [taken EXCEPT ![f] = <<>>]
  /\ UNCHANGED <<accepted, crashes>>

\* An eviction keeps the storage and loses what the flushers hold.
Crash ==
  /\ crashes < MaxCrashes
  /\ crashes' = crashes + 1
  /\ IF pc[Alarm] = "send" THEN RetryAlarm(Alarm) ELSE UNCHANGED <<armed, retries>>
  /\ stray' = (stray \/ (pc[Alarm] = "send" /\ GivesUp(Alarm)))
  /\ pc' = [f \in Flusher |-> "idle"]
  /\ held' = [f \in Flusher |-> <<>>]
  /\ taken' = [f \in Flusher |-> <<>>]
  /\ UNCHANGED <<items, accepted, delivered, dropped, faults>>

Send(f) == SendSlice(f) \/ FlushDone(f)

Next ==
  \/ \E s \in Request : Enqueue(s)
  \/ AlarmFires
  \/ \E f \in Flush : FlushStarts(f)
  \/ \E f \in Flusher : Send(f) \/ SendThrows(f)
  \/ Crash

Spec == Init /\ [][Next]_vars

\* The runtime fires a due alarm, and a sendBatch call ends.
FairSpec == Spec /\ WF_vars(AlarmFires) /\ \A f \in Flusher : WF_vars(Send(f))

-----------------------------------------------------------------------------
(* Properties.                                                             *)

\* Types, and the list within its limit.
TypesOK ==
  /\ items \in Seq(Event) /\ {armed, stray} \subseteq BOOLEAN
  /\ retries \in 0 .. MaxRetries
  /\ pc \in [Flusher -> {"idle", "send"}]
  /\ held \in [Flusher -> Seq(Event)] /\ taken \in [Flusher -> Seq(Event)]
  /\ {accepted, delivered, dropped} \subseteq SUBSET Event
  /\ Len(items) <= MaxItems

\* Without an eviction an answered item is in the list, taken by a flush
\* that will send it or put it back, in the queue, or cut off at the limit.
AcceptedIsKept ==
  /\ TypesOK
  /\ crashes = 0 =>
    accepted \subseteq Elements(items) \union delivered \union dropped
                       \union UNION {Elements(held[f]) : f \in Flusher}

\* Every answered item reaches the queue or is cut off: what waits has an alarm
\* to come, set or being handled.  Not when an eviction lost it, or when a
\* failed /flush, which sets no alarm, put it back (stray).
AcceptedIsDelivered ==
  \A e \in Event : e \in accepted ~> e \in delivered \union dropped \/ stray \/ crashes > 0
=============================================================================
