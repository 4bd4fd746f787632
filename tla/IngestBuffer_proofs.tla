------------------------- MODULE IngestBuffer_proofs -------------------------
(***************************************************************************)
(* No item that a request was answered for is lost from the buffer without *)
(* an eviction, for any items, limits, overlapping flushes and faults.     *)
(***************************************************************************)
EXTENDS IngestBuffer, SequenceTheorems, TLAPS

\* What a flusher has still to send is among what it would put back; one that
\* does not run has nothing to send.
HeldIsTaken ==
  \A f \in Flusher :
    Elements(held[f]) \subseteq Elements(taken[f]) /\ (pc[f] = "idle" => held[f] = <<>>)

Held == UNION {Elements(held[f]) : f \in Flusher}

Kept == accepted \subseteq Elements(items) \union delivered \union dropped \union Held

Typed ==
  /\ items \in Seq(Event) /\ Len(items) <= MaxItems
  /\ pc \in [Flusher -> {"idle", "send"}]
  /\ held \in [Flusher -> Seq(Event)] /\ taken \in [Flusher -> Seq(Event)]
  /\ accepted \subseteq Event /\ delivered \subseteq Event /\ dropped \subseteq Event

Alarmed ==
  armed \in BOOLEAN /\ stray \in BOOLEAN /\ retries \in 0 .. MaxRetries /\ crashes \in Nat

IInv == Typed /\ Alarmed /\ HeldIsTaken /\ (crashes = 0 => Kept)

LEMMA Limits ==
  /\ MaxRequest \in Nat \ {0} /\ MaxItems \in Nat \ {0} /\ Slice \in Nat \ {0}
  /\ MaxRetries \in Nat /\ MaxFaults \in Nat /\ MaxCrashes \in Nat
BY BufferAssumption

LEMMA IInvImplies == IInv => AcceptedIsKept
<1> SUFFICES ASSUME IInv PROVE AcceptedIsKept
  OBVIOUS
<1>1. TypesOK
  BY DEF IInv, Typed, Alarmed, TypesOK
<1>2. QED
  BY <1>1 DEF AcceptedIsKept, IInv, Kept, Held

-----------------------------------------------------------------------------
(* Sequences.                                                              *)

LEMMA ElementsOfSeq ==
  ASSUME NEW S, NEW s \in Seq(S)
  PROVE  Elements(s) \subseteq S /\ Len(s) \in Nat /\ DOMAIN s = 1 .. Len(s)
BY DEF Elements

LEMMA Joined ==
  ASSUME NEW S, NEW s \in Seq(S), NEW t \in Seq(S)
  PROVE  s \o t \in Seq(S) /\ Elements(s \o t) = Elements(s) \union Elements(t)
<1> DEFINE u == s \o t
<1>1. /\ u \in Seq(S) /\ Len(u) = Len(s) + Len(t) /\ Len(s) \in Nat /\ Len(t) \in Nat
      /\ \A i \in 1 .. Len(s) + Len(t) : u[i] = IF i <= Len(s) THEN s[i] ELSE t[i - Len(s)]
  BY ConcatProperties
<1>2. DOMAIN s = 1 .. Len(s) /\ DOMAIN t = 1 .. Len(t) /\ DOMAIN u = 1 .. Len(s) + Len(t)
  BY <1>1
<1> HIDE DEF u
<1>3. ASSUME NEW i \in DOMAIN u PROVE u[i] \in Elements(s) \union Elements(t)
  <2>1. CASE i <= Len(s)
    <3>1. i \in DOMAIN s /\ u[i] = s[i]
      BY <1>1, <1>2, <2>1
    <3>2. QED
      BY <3>1 DEF Elements
  <2>2. CASE ~(i <= Len(s))
    <3>1. i - Len(s) \in DOMAIN t /\ u[i] = t[i - Len(s)]
      BY <1>1, <1>2, <2>2
    <3>2. QED
      BY <3>1 DEF Elements
  <2>3. QED
    BY <2>1, <2>2
<1>4. ASSUME NEW i \in DOMAIN s PROVE s[i] \in Elements(u)
  <2>1. i \in DOMAIN u /\ u[i] = s[i]
    BY <1>1, <1>2
  <2>2. QED
    BY <2>1 DEF Elements
<1>5. ASSUME NEW i \in DOMAIN t PROVE t[i] \in Elements(u)
  <2>1. i + Len(s) \in DOMAIN u /\ ~(i + Len(s) <= Len(s)) /\ (i + Len(s)) - Len(s) = i
    BY <1>1, <1>2
  <2>2. u[i + Len(s)] = t[i]
    BY <1>1, <1>2, <2>1
  <2>3. QED
    BY <2>1, <2>2 DEF Elements
<1>6. QED
  BY <1>1, <1>3, <1>4, <1>5 DEF Elements, u

\* A part of a sequence.
LEMMA Part ==
  ASSUME NEW S, NEW s \in Seq(S), NEW m \in 1 .. Len(s) + 1, NEW n \in m - 1 .. Len(s)
  PROVE  /\ SubSeq(s, m, n) \in Seq(S) /\ Len(SubSeq(s, m, n)) = n - m + 1
         /\ Elements(SubSeq(s, m, n)) = {s[i] : i \in m .. n}
<1>a. Len(s) \in Nat /\ m \in Nat /\ n \in Nat /\ DOMAIN s = 1 .. Len(s)
  OBVIOUS
<1> DEFINE t == SubSeq(s, m, n)
<1>1. /\ t \in Seq(S) /\ Len(t) = n - m + 1
      /\ \A i \in 1 .. n - m + 1 : t[i] = s[m + i - 1]
  <2>1. CASE m <= n
    BY <1>a, <2>1, SubSeqProperties
  <2>2. CASE m = n + 1
    BY <1>a, <2>2, SubSeqProperties
  <2>3. QED
    BY <1>a, <2>1, <2>2
<1> HIDE DEF t
<1>2. DOMAIN t = 1 .. n - m + 1
  BY <1>1, <1>a
<1>3. ASSUME NEW i \in DOMAIN t PROVE t[i] \in {s[k] : k \in m .. n}
  <2>1. m + i - 1 \in m .. n /\ t[i] = s[m + i - 1]
    BY <1>a, <1>1, <1>2
  <2>2. QED
    BY <2>1
<1>4. ASSUME NEW k \in m .. n PROVE s[k] \in Elements(t)
  <2>1. k - m + 1 \in DOMAIN t /\ m + (k - m + 1) - 1 = k
    BY <1>a, <1>2
  <2>2. t[k - m + 1] = s[k]
    BY <1>1, <1>2, <2>1
  <2>3. QED
    BY <2>1, <2>2 DEF Elements
<1>5. QED
  BY <1>1, <1>3, <1>4 DEF Elements, t

\* The limit keeps the list within MaxItems.
LEMMA Cut ==
  ASSUME NEW s \in Seq(Event)
  PROVE  /\ Newest(s) \in Seq(Event) /\ Len(Newest(s)) <= MaxItems
         /\ Oldest(s) \in Seq(Event) /\ Len(Oldest(s)) <= MaxItems
<1>a. Len(s) \in Nat /\ MaxItems \in Nat
  BY Limits
<1>1. CASE Len(s) > MaxItems
  <2>1. Newest(s) = SubSeq(s, Len(s) - MaxItems + 1, Len(s)) /\ Oldest(s) = SubSeq(s, 1, MaxItems)
    BY <1>1 DEF Newest, Oldest
  <2>2. /\ Len(s) - MaxItems + 1 \in 1 .. Len(s) + 1
        /\ Len(s) \in (Len(s) - MaxItems + 1) - 1 .. Len(s)
        /\ 1 \in 1 .. Len(s) + 1 /\ MaxItems \in 1 - 1 .. Len(s)
        /\ Len(s) - (Len(s) - MaxItems + 1) + 1 <= MaxItems /\ MaxItems - 1 + 1 <= MaxItems
    BY <1>a, <1>1
  <2>3. /\ SubSeq(s, Len(s) - MaxItems + 1, Len(s)) \in Seq(Event)
        /\ Len(SubSeq(s, Len(s) - MaxItems + 1, Len(s))) = Len(s) - (Len(s) - MaxItems + 1) + 1
    BY <2>2, Part
  <2>4. SubSeq(s, 1, MaxItems) \in Seq(Event) /\ Len(SubSeq(s, 1, MaxItems)) = MaxItems - 1 + 1
    BY <2>2, Part
  <2>5. QED
    BY <2>1, <2>2, <2>3, <2>4
<1>2. CASE ~(Len(s) > MaxItems)
  <2>1. Newest(s) = s /\ Oldest(s) = s
    BY <1>2 DEF Newest, Oldest
  <2>2. QED
    BY <1>a, <1>2, <2>1
<1>3. QED
  BY <1>1, <1>2

\* The first slice and the rest are what was held.
LEMMA Sliced ==
  ASSUME NEW s \in Seq(Event), NEW n \in 0 .. Len(s)
  PROVE  /\ Rest(s, n) \in Seq(Event)
         /\ Elements(SubSeq(s, 1, n)) \subseteq Elements(s)
         /\ Elements(Rest(s, n)) \subseteq Elements(s)
         /\ Elements(s) \subseteq Elements(SubSeq(s, 1, n)) \union Elements(Rest(s, n))
<1>a. Len(s) \in Nat /\ n \in Nat /\ DOMAIN s = 1 .. Len(s)
  OBVIOUS
<1>1. 1 \in 1 .. Len(s) + 1 /\ n \in 1 - 1 .. Len(s) /\ n + 1 \in 1 .. Len(s) + 1 /\ Len(s) \in (n + 1) - 1 .. Len(s)
  BY <1>a
<1>2. Elements(SubSeq(s, 1, n)) = {s[i] : i \in 1 .. n}
  BY <1>1, Part
<1>3. Rest(s, n) \in Seq(Event) /\ Elements(Rest(s, n)) = {s[i] : i \in n + 1 .. Len(s)}
  BY <1>1, Part DEF Rest
<1>4. \A i \in 1 .. n : i \in DOMAIN s
  BY <1>a
<1>5. \A i \in n + 1 .. Len(s) : i \in DOMAIN s
  BY <1>a
<1>6. \A i \in DOMAIN s : i \in 1 .. n \/ i \in n + 1 .. Len(s)
  BY <1>a
<1>7. QED
  BY <1>2, <1>3, <1>4, <1>5, <1>6 DEF Elements

LEMMA FirstSliceFits ==
  ASSUME Typed, NEW f \in Flusher
  PROVE  held[f] \in Seq(Event) /\ FirstSlice(f) \in 0 .. Len(held[f])
<1>1. held[f] \in Seq(Event) /\ Len(held[f]) \in Nat /\ Slice \in Nat
  BY Limits DEF Typed
<1>2. QED
  BY <1>1 DEF FirstSlice

-----------------------------------------------------------------------------
(* The steps.                                                              *)

LEMMA InitIInv == Init => IInv
<1> SUFFICES ASSUME Init PROVE IInv
  OBVIOUS
<1>0. Elements(<<>>) = {} /\ <<>> \in Seq(Event) /\ Len(<<>>) <= MaxItems
  BY Limits DEF Elements
<1>1. Typed /\ HeldIsTaken
  BY <1>0 DEF Init, Typed, HeldIsTaken
<1>a. armed \in BOOLEAN /\ stray \in BOOLEAN
  BY DEF Init
<1>b. retries \in 0 .. MaxRetries /\ crashes \in Nat
  BY Limits DEF Init
<1>2. Alarmed
  BY <1>a, <1>b DEF Alarmed
<1>3. Kept
  BY DEF Init, Kept
<1>4. QED
  BY <1>1, <1>2, <1>3 DEF IInv

LEMMA RetryAlarmType ==
  ASSUME Alarmed, NEW f, RetryAlarm(f)
  PROVE  armed' \in BOOLEAN /\ retries' \in 0 .. MaxRetries
<1>1. armed' \in BOOLEAN
  BY DEF Alarmed, RetryAlarm
<1>2. retries' \in 0 .. MaxRetries
  BY Limits DEF Alarmed, RetryAlarm
<1>3. QED
  BY <1>1, <1>2

LEMMA EnqueueStep ==
  ASSUME IInv, NEW s \in Request, Enqueue(s)
  PROVE  IInv'
<1> DEFINE all == items \o s
           kept == Newest(all)
<1>a. /\ items' = kept /\ dropped' = dropped \union (Elements(all) \ Elements(kept))
      /\ accepted' = accepted \union Elements(s)
      /\ UNCHANGED <<pc, held, taken, delivered, crashes>>
  BY DEF Enqueue, flushVars
<1>b. s \in Seq(Event) /\ items \in Seq(Event)
  BY Limits DEF Request, IInv, Typed
<1>c. all \in Seq(Event) /\ Elements(all) = Elements(items) \union Elements(s)
  BY <1>b, Joined
<1>d. kept \in Seq(Event) /\ Len(kept) <= MaxItems
  BY <1>c, Cut
<1>e. Elements(all) \subseteq Event /\ Elements(s) \subseteq Event
  BY <1>b, <1>c, ElementsOfSeq
<1> HIDE DEF all, kept
<1>1. Typed' /\ HeldIsTaken'
  BY <1>a, <1>d, <1>e DEF IInv, Typed, HeldIsTaken
<1>2. armed' \in BOOLEAN /\ stray' \in BOOLEAN
  BY DEF Enqueue
<1>3. Alarmed'
  BY <1>a, <1>2, Limits DEF IInv, Alarmed, Enqueue
<1>4. crashes = 0 => Kept'
  BY <1>a, <1>c DEF IInv, Kept, Held
<1>5. QED
  BY <1>a, <1>1, <1>3, <1>4 DEF IInv

\* A flush takes the items; nothing is lost on the way.
LEMMA TakeStep ==
  ASSUME IInv, NEW f \in Flusher, pc[f] = "idle", Take(f), Alarmed',
         UNCHANGED <<accepted, delivered, dropped, crashes>>
  PROVE  IInv'
<1>a. Typed /\ Elements(<<>>) = {} /\ <<>> \in Seq(Event) /\ Len(<<>>) <= MaxItems
  BY Limits DEF IInv, Elements
<1>1. CASE items = <<>>
  <2>1. UNCHANGED <<items, pc, held, taken>>
    BY <1>1 DEF Take, flushVars
  <2>2. QED
    BY <2>1 DEF IInv, Typed, HeldIsTaken, Kept, Held
<1>2. CASE items # <<>>
  <2>1. /\ pc' = [pc EXCEPT ![f] = "send"] /\ held' = [held EXCEPT ![f] = items]
        /\ taken' = [taken EXCEPT ![f] = items] /\ items' = <<>>
    BY <1>2 DEF Take
  <2>2. Typed'
    BY <1>a, <2>1 DEF Typed
  <2>3. /\ held'[f] = items /\ taken'[f] = items
        /\ pc'[f] = "send"
        /\ \A g \in Flusher \ {f} : held'[g] = held[g] /\ taken'[g] = taken[g] /\ pc'[g] = pc[g]
    BY <1>a, <2>1 DEF Typed
  <2>4. HeldIsTaken'
    BY <2>3 DEF IInv, HeldIsTaken
  <2>a. Elements(held[f]) = {}
    BY <1>a DEF IInv, HeldIsTaken
  <2>5. Held \union Elements(items) \subseteq Held'
    BY <1>a, <2>3, <2>a DEF Held
  <2>6. crashes = 0 => Kept'
    BY <2>5 DEF IInv, Kept
  <2>7. QED
    BY <2>2, <2>4, <2>6 DEF IInv
<1>3. QED
  BY <1>1, <1>2

LEMMA AlarmFiresStep ==
  ASSUME IInv, AlarmFires
  PROVE  IInv'
<1>1. /\ Alarm \in Flusher /\ pc[Alarm] = "idle" /\ Take(Alarm) /\ armed' = FALSE
      /\ UNCHANGED <<retries, stray, accepted, delivered, dropped, crashes>>
  BY DEF AlarmFires, Flusher
<1>2. armed' \in BOOLEAN
  BY <1>1
<1>3. Alarmed'
  BY <1>1, <1>2 DEF IInv, Alarmed
<1>4. QED
  BY <1>1, <1>3, TakeStep

LEMMA FlushStartsStep ==
  ASSUME IInv, NEW f \in Flush, FlushStarts(f)
  PROVE  IInv'
<1>1. /\ f \in Flusher /\ pc[f] = "idle" /\ Take(f)
      /\ UNCHANGED <<armed, retries, stray, accepted, delivered, dropped, crashes>>
  BY DEF FlushStarts, Flusher
<1>2. Alarmed'
  BY <1>1 DEF IInv, Alarmed
<1>3. QED
  BY <1>1, <1>2, TakeStep

LEMMA SendSliceStep ==
  ASSUME IInv, NEW f \in Flusher, SendSlice(f)
  PROVE  IInv'
<1> DEFINE n == FirstSlice(f)
           sent == SubSeq(held[f], 1, n)
           rest == Rest(held[f], n)
<1>a. /\ pc[f] = "send" /\ delivered' = delivered \union Elements(sent)
      /\ held' = [held EXCEPT ![f] = rest]
      /\ UNCHANGED <<items, armed, retries, stray, pc, taken, accepted, dropped, crashes>>
  BY DEF SendSlice
<1>b. Typed /\ held[f] \in Seq(Event) /\ n \in 0 .. Len(held[f])
  BY FirstSliceFits DEF IInv
<1>c. /\ rest \in Seq(Event) /\ Elements(sent) \subseteq Elements(held[f])
      /\ Elements(rest) \subseteq Elements(held[f])
      /\ Elements(held[f]) \subseteq Elements(sent) \union Elements(rest)
  BY <1>b, Sliced
<1>d. Elements(held[f]) \subseteq Event
  BY <1>b, ElementsOfSeq
<1> HIDE DEF n, sent, rest
<1>e. held'[f] = rest /\ \A g \in Flusher \ {f} : held'[g] = held[g]
  BY <1>a, <1>b DEF Typed
<1>1. Typed'
  BY <1>a, <1>b, <1>c, <1>d DEF Typed
<1>2. HeldIsTaken'
  BY <1>a, <1>c, <1>e DEF IInv, HeldIsTaken
<1>3. Held \subseteq Held' \union Elements(sent)
  BY <1>c, <1>e DEF Held
<1>4. crashes = 0 => Kept'
  BY <1>a, <1>3 DEF IInv, Kept
<1>5. Alarmed'
  BY <1>a DEF IInv, Alarmed
<1>6. QED
  BY <1>a, <1>1, <1>2, <1>4, <1>5 DEF IInv

LEMMA FlushDoneStep ==
  ASSUME IInv, NEW f \in Flusher, FlushDone(f)
  PROVE  IInv'
<1>a. /\ held[f] = <<>> /\ pc' = [pc EXCEPT ![f] = "idle"] /\ taken' = [taken EXCEPT ![f] = <<>>]
      /\ UNCHANGED <<items, held, accepted, delivered, dropped, stray, crashes>>
  BY DEF FlushDone
<1>b. <<>> \in Seq(Event) /\ Elements(<<>>) = {}
  BY DEF Elements
<1>1. Typed'
  BY <1>a, <1>b DEF IInv, Typed
<1>2. /\ taken'[f] = <<>> /\ pc'[f] = "idle"
      /\ \A g \in Flusher \ {f} : taken'[g] = taken[g] /\ pc'[g] = pc[g]
  BY <1>a DEF IInv, Typed
<1>3. HeldIsTaken'
  BY <1>a, <1>b, <1>2 DEF IInv, HeldIsTaken
<1>4. crashes = 0 => Kept'
  BY <1>a DEF IInv, Kept, Held
<1>5. armed' \in BOOLEAN
  BY DEF FlushDone, IInv, Alarmed
<1>6. retries' \in 0 .. MaxRetries
  BY Limits DEF FlushDone, IInv, Alarmed
<1>7. QED
  BY <1>a, <1>1, <1>3, <1>4, <1>5, <1>6 DEF IInv, Alarmed

LEMMA SendThrowsStep ==
  ASSUME IInv, NEW f \in Flusher, SendThrows(f)
  PROVE  IInv'
<1> DEFINE n == FirstSlice(f)
           sent == SubSeq(held[f], 1, n)
           all == taken[f] \o items
           kept == Oldest(all)
<1>a. /\ delivered' \in {delivered, delivered \union Elements(sent)}
      /\ items' = kept /\ dropped' = dropped \union (Elements(all) \ Elements(kept))
      /\ RetryAlarm(f) /\ stray' = (stray \/ GivesUp(f))
      /\ pc' = [pc EXCEPT ![f] = "idle"] /\ held' = [held EXCEPT ![f] = <<>>]
      /\ taken' = [taken EXCEPT ![f] = <<>>]
      /\ UNCHANGED <<accepted, crashes>>
  BY DEF SendThrows
<1>b. /\ Typed /\ held[f] \in Seq(Event) /\ n \in 0 .. Len(held[f])
      /\ taken[f] \in Seq(Event) /\ items \in Seq(Event)
      /\ Elements(<<>>) = {} /\ <<>> \in Seq(Event)
  BY FirstSliceFits DEF IInv, Typed, Elements
<1>c. Elements(sent) \subseteq Elements(held[f]) /\ Elements(held[f]) \subseteq Event
  BY <1>b, Sliced, ElementsOfSeq
<1>d. all \in Seq(Event) /\ Elements(all) = Elements(taken[f]) \union Elements(items)
  BY <1>b, Joined
<1>e. kept \in Seq(Event) /\ Len(kept) <= MaxItems /\ Elements(all) \subseteq Event
  BY <1>d, Cut, ElementsOfSeq
<1> HIDE DEF n, sent, all, kept
<1>f. /\ held'[f] = <<>> /\ taken'[f] = <<>>
      /\ \A g \in Flusher \ {f} : held'[g] = held[g] /\ taken'[g] = taken[g] /\ pc'[g] = pc[g]
  BY <1>a, <1>b DEF Typed
<1>1. Typed'
  <2>1. items' \in Seq(Event) /\ Len(items') <= MaxItems
    BY <1>a, <1>e
  <2>2. /\ pc' \in [Flusher -> {"idle", "send"}]
        /\ held' \in [Flusher -> Seq(Event)] /\ taken' \in [Flusher -> Seq(Event)]
    BY <1>a, <1>b DEF Typed
  <2>3. accepted' \subseteq Event /\ delivered' \subseteq Event /\ dropped' \subseteq Event
    BY <1>a, <1>b, <1>c, <1>e DEF Typed
  <2>4. QED
    BY <2>1, <2>2, <2>3 DEF Typed
<1>2. HeldIsTaken'
  BY <1>b, <1>f DEF IInv, HeldIsTaken
<1>3. Held \subseteq Held' \union Elements(taken[f])
  <2>1. ASSUME NEW g \in Flusher, NEW e \in Elements(held[g])
        PROVE  e \in Held' \/ e \in Elements(taken[f])
    BY <1>f, <2>1 DEF IInv, HeldIsTaken, Held
  <2>2. QED
    BY <2>1 DEF Held
<1>4. crashes = 0 => Kept'
  <2>1. ASSUME NEW e \in Elements(taken[f]) \union Elements(items)
        PROVE  e \in Elements(items') \union dropped'
    BY <1>a, <1>d, <2>1
  <2>2. delivered \subseteq delivered' /\ dropped \subseteq dropped' /\ accepted' = accepted
    BY <1>a
  <2>3. QED
    BY <1>3, <2>1, <2>2 DEF IInv, Kept
<1>5. armed' \in BOOLEAN /\ retries' \in 0 .. MaxRetries
  BY <1>a, RetryAlarmType DEF IInv
<1>6. stray' \in BOOLEAN
  BY <1>a
<1>7. QED
  BY <1>a, <1>1, <1>2, <1>4, <1>5, <1>6 DEF IInv, Alarmed

\* After an eviction nothing is claimed but types.
LEMMA CrashStep ==
  ASSUME IInv, Crash
  PROVE  IInv'
<1>a. /\ crashes' = crashes + 1
      /\ IF pc[Alarm] = "send" THEN RetryAlarm(Alarm) ELSE UNCHANGED <<armed, retries>>
      /\ stray' = (stray \/ (pc[Alarm] = "send" /\ GivesUp(Alarm)))
      /\ pc' = [f \in Flusher |-> "idle"] /\ held' = [f \in Flusher |-> <<>>]
      /\ taken' = [f \in Flusher |-> <<>>]
      /\ UNCHANGED <<items, accepted, delivered, dropped>>
  BY DEF Crash
<1>1. Typed' /\ HeldIsTaken'
  BY <1>a DEF IInv, Typed, HeldIsTaken
<1>2. armed' \in BOOLEAN /\ retries' \in 0 .. MaxRetries
  BY <1>a, RetryAlarmType DEF IInv, Alarmed
<1>3. stray' \in BOOLEAN
  BY <1>a
<1>4. crashes' \in Nat /\ crashes' # 0
  BY <1>a DEF IInv, Alarmed
<1>5. QED
  BY <1>1, <1>2, <1>3, <1>4 DEF IInv, Alarmed

LEMMA StepIInv == IInv /\ [Next]_vars => IInv'
<1> SUFFICES ASSUME IInv, [Next]_vars PROVE IInv'
  OBVIOUS
<1>1. ASSUME NEW s \in Request, Enqueue(s) PROVE IInv'
  BY <1>1, EnqueueStep
<1>2. CASE AlarmFires
  BY <1>2, AlarmFiresStep
<1>3. ASSUME NEW f \in Flush, FlushStarts(f) PROVE IInv'
  BY <1>3, FlushStartsStep
<1>4. ASSUME NEW f \in Flusher, SendSlice(f) PROVE IInv'
  BY <1>4, SendSliceStep
<1>5. ASSUME NEW f \in Flusher, FlushDone(f) PROVE IInv'
  BY <1>5, FlushDoneStep
<1>6. ASSUME NEW f \in Flusher, SendThrows(f) PROVE IInv'
  BY <1>6, SendThrowsStep
<1>7. CASE Crash
  BY <1>7, CrashStep
<1>8. CASE UNCHANGED vars
  BY <1>8 DEF vars, flushVars, IInv, Typed, Alarmed, HeldIsTaken, Kept, Held
<1>9. QED
  BY <1>1, <1>2, <1>3, <1>4, <1>5, <1>6, <1>7, <1>8 DEF Next, Send

\* The list within its limit and the types, for any limits.
THEOREM BufferTyped == Spec => []TypesOK
<1>1. IInv => TypesOK
  BY DEF IInv, Typed, Alarmed, TypesOK
<1>2. QED
  BY <1>1, InitIInv, StepIInv, PTL DEF Spec

\* As long as the object is not evicted, an item whose request was answered is
\* in the list, with a flush that sends it or puts it back, in the queue, or
\* was cut off at MAX_ITEMS: whatever requests, alarms and /flush calls
\* interleave while sendBatch is awaited, and however often it throws.
THEOREM NothingAcceptedIsLost == Spec => []AcceptedIsKept
BY IInvImplies, InitIInv, StepIInv, PTL DEF Spec
=============================================================================
