------------------------- MODULE TraceIngest_proofs -------------------------
(***************************************************************************)
(* What is stored of a trace, for any messages, consumers and erasers, and *)
(* steps that throw anywhere.                                              *)
(***************************************************************************)
EXTENDS TraceIngest, WellFoundedInduction, FiniteSetTheorems, TLAPS

-----------------------------------------------------------------------------
(* Sums of natural numbers over finite sets: SumFunctionOnSet takes its     *)
(* elements in an order nobody knows, and any order gives the same sum.     *)

\* The element SumFunctionOnSet takes from a set, and what it computes.
Picked(s) == CHOOSE x \in s : TRUE
Unfolded(g, h, s) == IF s = {} THEN 0 ELSE g[Picked(s)] + h[s \ {Picked(s)}]
Solves(g, h, U) == \A s \in SUBSET U : h[s] = Unfolded(g, h, s)

\* Of any subsets of a finite set one is the smallest: it includes no other.
LEMMA SmallestSubset ==
  ASSUME NEW U, IsFiniteSet(U), NEW T \in SUBSET SUBSET U, T # {}
  PROVE  \E s \in T : \A r \in T : r \subseteq s => r = s
<1> DEFINE Order == StrictSubsetOrdering(U)
<1>1. IsWellFoundedOn(Order, SUBSET U)
  BY FS_StrictSubsetOrderingWellFounded, FS_FiniteSubsetsOfFinite
<1>2. PICK s \in T : \A r \in T : ~(<<r, s>> \in Order)
  <2> HIDE DEF Order
  <2>1. QED
    BY <1>1, WFMin
<1>3. ASSUME NEW r \in T, r \subseteq s, r # s PROVE FALSE
  <2>1. <<r, s>> \in Order
    BY <1>3 DEF StrictSubsetOrdering
  <2>2. QED
    BY <1>2, <2>1
<1>4. QED
  BY <1>3

LEMMA PickedIsIn ==
  ASSUME NEW s, s # {}
  PROVE  Picked(s) \in s
BY DEF Picked

\* What SumFunctionOnSet computes is determined.
LEMMA SolutionsAgree ==
  ASSUME NEW U, IsFiniteSet(U), NEW g, NEW h, NEW k, Solves(g, h, U), Solves(g, k, U)
  PROVE  \A s \in SUBSET U : h[s] = k[s]
<1> DEFINE T == {s \in SUBSET U : h[s] # k[s]}
<1> SUFFICES ASSUME T # {} PROVE FALSE
  OBVIOUS
<1>1. PICK s \in T : \A r \in T : r \subseteq s => r = s
  <2>1. T \in SUBSET SUBSET U
    OBVIOUS
  <2> HIDE DEF T
  <2>2. QED
    BY <2>1, SmallestSubset
<1>2. h[s] = Unfolded(g, h, s) /\ k[s] = Unfolded(g, k, s) /\ h[s] # k[s] /\ s \in SUBSET U
  BY DEF Solves
<1>3. s # {}
  BY <1>2 DEF Unfolded
<1>4. Picked(s) \in s
  BY <1>3, PickedIsIn
<1> DEFINE r == s \ {Picked(s)}
<1>5. r \in SUBSET U /\ r \subseteq s /\ r # s
  BY <1>2, <1>4
<1>6. h[r] = k[r]
  BY <1>1, <1>5
<1>7. QED
  BY <1>2, <1>3, <1>6 DEF Unfolded

\* ... and exists.
LEMMA SolutionExists ==
  ASSUME NEW U, IsFiniteSet(U), NEW g, \A x \in U : g[x] \in Nat
  PROVE  \E h \in [SUBSET U -> Nat] : Solves(g, h, U)
<1> DEFINE Has(s) == \E h \in [SUBSET s -> Nat] : Solves(g, h, s)
           T == {s \in SUBSET U : ~Has(s)}
<1> SUFFICES ASSUME T # {} PROVE FALSE
  OBVIOUS
<1>1. PICK s \in T : \A r \in T : r \subseteq s => r = s
  <2>1. T \in SUBSET SUBSET U
    OBVIOUS
  <2> HIDE DEF T
  <2>2. QED
    BY <2>1, SmallestSubset
<1>2. s \in SUBSET U /\ ~Has(s) /\ \A r \in SUBSET s : r # s => Has(r)
  BY <1>1
<1> DEFINE Of(r) == CHOOSE h \in [SUBSET r -> Nat] : Solves(g, h, r)
<1>3. ASSUME NEW r \in SUBSET s, r # s
      PROVE  Of(r) \in [SUBSET r -> Nat] /\ Solves(g, Of(r), r)
  BY <1>2, <1>3
<1> HIDE DEF Has, Of
<1> DEFINE Value(r) == IF r = s THEN IF s = {} THEN 0 ELSE g[Picked(s)] + Of(s \ {Picked(s)})[s \ {Picked(s)}]
                       ELSE Of(r)[r]
           k == [r \in SUBSET s |-> Value(r)]
<1>4. ASSUME NEW r \in SUBSET s, r # {}
      PROVE  /\ Picked(r) \in r /\ g[Picked(r)] \in Nat
             /\ r \ {Picked(r)} \in SUBSET s /\ r \ {Picked(r)} # s /\ r \ {Picked(r)} # r
  <2>1. Picked(r) \in r
    BY <1>4, PickedIsIn
  <2>2. QED
    BY <1>2, <2>1
<1>5. k \in [SUBSET s -> Nat]
  <2>1. ASSUME NEW r \in SUBSET s PROVE Value(r) \in Nat
    <3>1. CASE r # s
      BY <1>3, <3>1
    <3>2. CASE r = s /\ s # {}
      <4>1. g[Picked(s)] \in Nat /\ s \ {Picked(s)} \in SUBSET s /\ s \ {Picked(s)} # s
        BY <1>4, <3>2
      <4>2. ASSUME NEW q \in SUBSET s, q # s PROVE Of(q)[q] \in Nat
        <5>1. Of(q) \in [SUBSET q -> Nat]
          BY <1>3, <4>2
        <5>2. QED
          BY <5>1
      <4>3. QED
        BY <3>2, <4>1, <4>2
    <3>3. CASE r = s /\ s = {}
      BY <3>3
    <3>4. QED
      BY <3>1, <3>2, <3>3
  <2> HIDE DEF Value
  <2>2. QED
    BY <2>1
<1>6. ASSUME NEW r \in SUBSET s PROVE Value(r) = Unfolded(g, k, r)
  <2>1. CASE r = {}
    <3>1. CASE r = s
      BY <2>1, <3>1 DEF Unfolded
    <3>2. CASE r # s
      BY <1>3, <2>1, <3>2 DEF Solves, Unfolded
    <3>3. QED
      BY <3>1, <3>2
  <2>2. CASE r # {}
    <3> DEFINE q == r \ {Picked(r)}
    <3>1. q \in SUBSET s /\ q # s /\ q \in SUBSET r
      BY <1>4, <2>2
    <3>2. k[q] = Of(q)[q]
      BY <3>1
    <3>3. CASE r = s
      <4>1. Value(r) = g[Picked(r)] + Of(q)[q]
        BY <2>2, <3>3
      <4> HIDE DEF Value, k, q
      <4>2. QED
        BY <2>2, <3>2, <4>1 DEF Unfolded, q
    <3>4. CASE r # s
      <4>1. Solves(g, Of(r), r) /\ Solves(g, Of(q), q)
        BY <1>3, <3>1, <3>4
      <4>2. Solves(g, Of(r), q)
        BY <3>1, <4>1 DEF Solves
      <4>3. IsFiniteSet(q)
        BY <1>2, <3>1, FS_Subset
      <4>4. Of(r)[q] = Of(q)[q]
        BY <4>1, <4>2, <4>3, SolutionsAgree
      <4>5. Of(r)[r] = g[Picked(r)] + Of(r)[q]
        BY <2>2, <4>1 DEF Solves, Unfolded
      <4>6. Value(r) = Of(r)[r]
        BY <3>4
      <4> HIDE DEF Value, k, q
      <4>7. QED
        BY <2>2, <3>2, <4>4, <4>5, <4>6 DEF Unfolded, q
    <3>5. QED
      BY <3>3, <3>4
  <2>3. QED
    BY <2>1, <2>2
<1>7. Solves(g, k, s)
  <2>1. \A r \in SUBSET s : k[r] = Value(r)
    OBVIOUS
  <2> HIDE DEF Value, k
  <2>2. QED
    BY <1>6, <2>1 DEF Solves
<1>8. QED
  BY <1>2, <1>5, <1>7 DEF Has

\* SumFunctionOnSet is what a solution says.
LEMMA SumSolves ==
  ASSUME NEW U, IsFiniteSet(U), NEW g, NEW h, Solves(g, h, U)
  PROVE  SumFunctionOnSet(g, U) = h[U]
<1> DEFINE F(f) == f = [s \in SUBSET U |-> Unfolded(g, f, s)]
<1>1. SumFunctionOnSet(g, U) = (CHOOSE f : F(f))[U]
  BY Zenon DEF SumFunctionOnSet, FoldFunctionOnSet, MapThenFoldSet, Unfolded, Picked
<1>2. F([s \in SUBSET U |-> h[s]])
  <2> DEFINE k == [s \in SUBSET U |-> h[s]]
  <2>1. ASSUME NEW s \in SUBSET U PROVE h[s] = Unfolded(g, k, s)
    <3>1. k[s \ {Picked(s)}] = h[s \ {Picked(s)}]
      OBVIOUS
    <3> HIDE DEF k
    <3>2. QED
      BY <3>1 DEF Solves, Unfolded
  <2>2. k = [s \in SUBSET U |-> Unfolded(g, k, s)]
    BY <2>1
  <2>3. QED
    BY <2>2
<1> HIDE DEF F
<1>3. PICK f : f = (CHOOSE e : F(e)) /\ F(f)
  BY <1>2, Zenon
<1>4. Solves(g, f, U)
  BY <1>3 DEF F, Solves
<1>5. f[U] = h[U]
  BY <1>4, SolutionsAgree
<1>6. QED
  BY <1>1, <1>3, <1>5

\* The sum over a set is the sum over any subset in the same way.
LEMMA SumPicked ==
  ASSUME NEW S, IsFiniteSet(S), NEW g, \A x \in S : g[x] \in Nat
  PROVE  /\ SumFunctionOnSet(g, S) \in Nat
         /\ S = {} => SumFunctionOnSet(g, S) = 0
         /\ S # {} => /\ Picked(S) \in S
                      /\ SumFunctionOnSet(g, S) =
                           g[Picked(S)] + SumFunctionOnSet(g, S \ {Picked(S)})
<1>1. PICK h \in [SUBSET S -> Nat] : Solves(g, h, S)
  BY SolutionExists
<1>2. ASSUME NEW s \in SUBSET S PROVE SumFunctionOnSet(g, s) = h[s]
  <2>1. IsFiniteSet(s) /\ Solves(g, h, s)
    BY <1>1, FS_Subset DEF Solves
  <2>2. QED
    BY <2>1, SumSolves
<1>3. h[S] = Unfolded(g, h, S) /\ h[S] \in Nat
  BY <1>1 DEF Solves
<1>4. S \in SUBSET S /\ S \ {Picked(S)} \in SUBSET S
  OBVIOUS
<1>5. SumFunctionOnSet(g, S) = h[S] /\ SumFunctionOnSet(g, S \ {Picked(S)}) = h[S \ {Picked(S)}]
  BY <1>2, <1>4
<1>6. QED
  BY <1>3, <1>5, PickedIsIn DEF Unfolded

\* The sum over the empty set.
LEMMA SumEmpty ==
  ASSUME NEW g
  PROVE  SumFunctionOnSet(g, {}) = 0
BY SumPicked, FS_EmptySet

LEMMA SumType ==
  ASSUME NEW S, IsFiniteSet(S), NEW g, \A x \in S : g[x] \in Nat
  PROVE  SumFunctionOnSet(g, S) \in Nat
BY SumPicked

\* Any element may be taken first.
LEMMA SumRemove ==
  ASSUME NEW U, IsFiniteSet(U), NEW g, \A x \in U : g[x] \in Nat, NEW y \in U
  PROVE  SumFunctionOnSet(g, U) = g[y] + SumFunctionOnSet(g, U \ {y})
<1> DEFINE Sum(s) == SumFunctionOnSet(g, s)
           Good(s) == \A x \in s : Sum(s) = g[x] + Sum(s \ {x})
           T == {s \in SUBSET U : ~Good(s)}
<1> SUFFICES ASSUME T # {} PROVE FALSE
  OBVIOUS
<1> HIDE DEF Sum
<1>1. PICK s \in T : \A r \in T : r \subseteq s => r = s
  <2>1. T \in SUBSET SUBSET U
    OBVIOUS
  <2> HIDE DEF T
  <2>2. QED
    BY <2>1, SmallestSubset
<1>2. PICK x \in s : Sum(s) # g[x] + Sum(s \ {x})
  BY <1>1
<1>3. s \in SUBSET U /\ \A r \in SUBSET s : r # s => Good(r)
  BY <1>1
<1>4. ASSUME NEW r \in SUBSET s
      PROVE  /\ Sum(r) \in Nat
             /\ r # {} => Picked(r) \in r /\ Sum(r) = g[Picked(r)] + Sum(r \ {Picked(r)})
  <2>1. IsFiniteSet(r) /\ \A z \in r : g[z] \in Nat
    BY <1>3, <1>4, FS_Subset
  <2>2. QED
    BY <2>1, SumPicked DEF Sum
<1> DEFINE p == Picked(s)
<1>5. p \in s /\ Sum(s) = g[p] + Sum(s \ {p}) /\ x # p
  BY <1>2, <1>4
<1>6. PICK q : q = p
  OBVIOUS
<1> HIDE DEF p
<1>7. q \in s /\ Sum(s) = g[q] + Sum(s \ {q}) /\ x # q
  BY <1>5, <1>6
<1>8. Sum(s \ {q}) = g[x] + Sum((s \ {q}) \ {x})
  <2>1. s \ {q} \in SUBSET s /\ s \ {q} # s /\ x \in s \ {q}
    BY <1>2, <1>7
  <2>2. QED
    BY <1>3, <2>1
<1>9. Sum(s \ {x}) = g[q] + Sum((s \ {x}) \ {q})
  <2>1. s \ {x} \in SUBSET s /\ s \ {x} # s /\ q \in s \ {x}
    BY <1>2, <1>7
  <2>2. QED
    BY <1>3, <2>1
<1>10. (s \ {q}) \ {x} = (s \ {x}) \ {q}
  OBVIOUS
<1>11. PICK n \in Nat : n = Sum((s \ {q}) \ {x})
  <2>1. (s \ {q}) \ {x} \in SUBSET s
    OBVIOUS
  <2>2. QED
    BY <1>4, <2>1
<1>12. g[x] \in Nat /\ g[q] \in Nat
  BY <1>2, <1>3, <1>7
<1>13. Sum(s) = g[q] + (g[x] + n) /\ Sum(s \ {x}) = g[q] + n
  BY <1>7, <1>8, <1>9, <1>10, <1>11
<1>14. QED
  BY <1>2, <1>11, <1>12, <1>13

\* One more element.
LEMMA SumAdd ==
  ASSUME NEW S, IsFiniteSet(S), NEW g, NEW x, x \notin S, \A y \in S \union {x} : g[y] \in Nat
  PROVE  SumFunctionOnSet(g, S \union {x}) = SumFunctionOnSet(g, S) + g[x]
<1>1. IsFiniteSet(S \union {x}) /\ (S \union {x}) \ {x} = S
  BY FS_AddElement
<1>2. SumFunctionOnSet(g, S \union {x}) = g[x] + SumFunctionOnSet(g, (S \union {x}) \ {x})
  BY <1>1, SumRemove
<1>3. g[x] \in Nat /\ SumFunctionOnSet(g, S) \in Nat
  BY SumType
<1>4. QED
  BY <1>1, <1>2, <1>3

\* Sums of functions that are the same on a set.
LEMMA SumSame ==
  ASSUME NEW S, IsFiniteSet(S), NEW g, NEW h, \A x \in S : g[x] \in Nat /\ h[x] = g[x]
  PROVE  SumFunctionOnSet(h, S) = SumFunctionOnSet(g, S)
<1>1. PICK f \in [SUBSET S -> Nat] : Solves(g, f, S)
  BY SolutionExists
<1>2. Solves(h, f, S)
  <2>1. ASSUME NEW s \in SUBSET S, s # {} PROVE h[Picked(s)] = g[Picked(s)]
    BY <2>1, PickedIsIn
  <2>2. QED
    BY <1>1, <2>1 DEF Solves, Unfolded
<1>3. QED
  BY <1>1, <1>2, SumSolves

\* One value changed.
LEMMA SumChanged ==
  ASSUME NEW S, IsFiniteSet(S), NEW g, NEW h, NEW x \in S,
         \A y \in S : g[y] \in Nat /\ h[y] \in Nat, \A y \in S \ {x} : h[y] = g[y]
  PROVE  SumFunctionOnSet(h, S) + g[x] = SumFunctionOnSet(g, S) + h[x]
<1>1. IsFiniteSet(S \ {x})
  BY FS_RemoveElement
<1>2. PICK n \in Nat : n = SumFunctionOnSet(g, S \ {x})
  BY <1>1, SumType
<1>3. SumFunctionOnSet(h, S \ {x}) = n
  BY <1>1, <1>2, SumSame
<1>4. SumFunctionOnSet(g, S) = g[x] + n /\ SumFunctionOnSet(h, S) = h[x] + n
  BY <1>2, <1>3, SumRemove
<1>5. g[x] \in Nat /\ h[x] \in Nat
  OBVIOUS
<1>6. QED
  BY <1>4, <1>5

\* The sum of zeros.
LEMMA SumZero ==
  ASSUME NEW S, IsFiniteSet(S), NEW g, \A x \in S : g[x] = 0
  PROVE  SumFunctionOnSet(g, S) = 0
<1> DEFINE h == [s \in SUBSET S |-> 0]
<1>1. Solves(g, h, S)
  <2>1. ASSUME NEW s \in SUBSET S PROVE Unfolded(g, h, s) = 0
    <3>1. h[s \ {Picked(s)}] = 0
      OBVIOUS
    <3>2. s # {} => g[Picked(s)] = 0
      BY PickedIsIn
    <3> HIDE DEF h
    <3>3. QED
      BY <3>1, <3>2 DEF Unfolded
  <2>2. QED
    BY <2>1 DEF Solves
<1>2. SumFunctionOnSet(g, S) = h[S]
  <2> HIDE DEF h
  <2>1. QED
    BY <1>1, SumSolves
<1>3. QED
  BY <1>2

-----------------------------------------------------------------------------
(* The consumers, the erasers and what is stored.                           *)

ConsumerLabel ==
  {"idle", "filter", "next", "put", "save", "index", "apm", "count", "edge", "remember"}
EraserLabel == {"idle", "object", "spans", "row"}

\* Labels at which a consumer has a message, and where its spans are numbered.
Busy == {"put", "save", "index", "apm", "count", "edge", "remember"}
Numbered == {"index", "apm", "count", "edge"}

SpanId == {s.id : s \in Span}

\* The stores and the processes, as far as the proofs look into them.
StoreOK ==
  /\ DOMAIN db = {"queue", "dedup", "objects", "rows", "index", "requests", "hist", "calls"}
  /\ db.queue \subseteq Message /\ db.dedup \subseteq Message
  /\ db.objects \in [TraceId -> [Days -> SUBSET Span]]
  /\ db.rows \in [TraceId -> [day : Days \union {None}, count : Nat]]
  /\ \A t \in TraceId : db.rows[t] = NoRow \/ db.rows[t].day \in Days
  /\ db.index \in [TraceId -> SUBSET SpanId]
  /\ DOMAIN ghost = {"sent", "raced", "crossed", "half"}

Shape ==
  /\ StoreOK
  /\ DOMAIN con = Consumer
  /\ \A w \in Consumer :
       /\ DOMAIN con[w] = {"pc", "batch", "todo", "m", "at", "hist"}
       /\ con[w].pc \in ConsumerLabel /\ con[w].batch \subseteq Message
       /\ con[w].m \in Message \union {None} /\ con[w].at \in Nat
  /\ era \in [Eraser -> [pc : EraserLabel, trace : TraceId \union {None}, day : Days \union {None}]]

ConsumerOK(w) ==
  /\ con[w].todo \subseteq con[w].batch
  /\ con[w].pc \in Busy <=> con[w].m # None
  /\ con[w].pc \in Busy => con[w].m \in con[w].batch \ (con[w].todo \union db.dedup)
  /\ con[w].pc \in Numbered => con[w].at \in 1 .. Len(Spans[con[w].m])
  /\ con[w].pc = "idle" => con[w] = Free
  /\ con[w].pc = "filter" => con[w].todo = {}
  /\ con[w].todo \intersect db.dedup = {}

EraserOK(e) ==
  /\ era[e].pc = "idle" => era[e] = Resting
  /\ era[e].pc # "idle" => era[e].trace \in TraceId /\ era[e].day \in Days

\* A message waits in the queue or is in one batch.
Placed ==
  /\ \A w \in Consumer : con[w].batch \intersect db.queue = {}
  /\ \A v, w \in Consumer : v # w => con[v].batch \intersect con[w].batch = {}
  /\ db.queue \subseteq ghost.sent
  /\ \A w \in Consumer : con[w].batch \subseteq ghost.sent

\* Message m is still to be written, or is to be written again from the start.
DueAt(w, m) ==
  \/ con[w].pc = "filter" /\ m \in con[w].batch \ db.dedup
  \/ m \in con[w].todo
  \/ m = con[w].m
Due(m) == m \in db.queue \ db.dedup \/ \E w \in Consumer : DueAt(w, m)
DueOf(t) == \E m \in Message : Trace[m] = t /\ Due(m)

\* At most one consumer or eraser has trace t in hand.
Writes(w, t) == con[w].m # None /\ Trace[con[w].m] = t
Alone(t) ==
  /\ \A v, w \in Consumer : Writes(v, t) /\ Writes(w, t) => v = w
  /\ \A e, f \in Eraser : era[e].trace = t /\ era[f].trace = t => e = f
  /\ \A w \in Consumer, e \in Eraser : ~(Writes(w, t) /\ era[e].trace = t)
Untouched(t) ==
  /\ \A w \in Consumer : ~Writes(w, t)
  /\ \A e \in Eraser : era[e].trace # t

Ids(m, n) == {Spans[m][i].id : i \in 1 .. n}
Indexed(w) ==
  IF con[w].pc = "index" THEN con[w].at - 1 ELSE Len(Spans[con[w].m])

\* What consumer w has stored of its message.
Progress(w) ==
  LET m == con[w].m
      t == Trace[m] IN
  /\ con[w].pc # "put" => db.objects[t][Day[m]] = SpanSet(m)
  /\ con[w].pc \notin {"put", "save"} =>
       /\ db.rows[t] = [day |-> Day[m], count |-> Len(Spans[m])]
       /\ Ids(m, Indexed(w)) \subseteq db.index[t]

\* What eraser e has deleted of its trace.
Erased(e) ==
  LET t == era[e].trace IN
  /\ db.rows[t] # NoRow /\ db.rows[t].day = era[e].day
  /\ era[e].pc \in {"spans", "row"} => db.objects[t][era[e].day] = {}
  /\ era[e].pc = "row" => db.index[t] = {}

\* The trace is stored, or gone.
Clean(t) ==
  IF db.rows[t] = NoRow
  THEN db.index[t] = {} /\ \A d \in Days : db.objects[t][d] = {}
  ELSE LET spans == db.objects[t][db.rows[t].day] IN
       /\ Cardinality(spans) = db.rows[t].count
       /\ {s.id : s \in spans} \subseteq db.index[t]

\* An object that no row points to is of a message that will be written again.
Kept(t) ==
  \A d \in Days : db.objects[t][d] # {} =>
    d = db.rows[t].day \/ \E m \in Message : Trace[m] = t /\ Day[m] = d /\ Due(m)

TraceOK(t) ==
  /\ Alone(t)
  /\ \A w \in Consumer : Writes(w, t) => Progress(w)
  /\ \A e \in Eraser : era[e].trace = t => Erased(e)
  /\ db.rows[t] = NoRow => db.index[t] = {}
  /\ Kept(t)
  /\ Untouched(t) /\ t \notin ghost.half => Clean(t) \/ DueOf(t)

ProcessesOK ==
  /\ \A w \in Consumer : ConsumerOK(w)
  /\ \A e \in Eraser : EraserOK(e)
  /\ Placed
TracesOK == \A t \in TraceId \ ghost.crossed : TraceOK(t)

IInv == Shape /\ ProcessesOK /\ TracesOK

-----------------------------------------------------------------------------
(* What each step does to the parts the invariant reads.                   *)

Stored == db'.objects = db.objects /\ db'.rows = db.rows /\ db'.index = db.index
Waiting == db'.queue = db.queue /\ db'.dedup = db.dedup
History == ghost'.sent = ghost.sent /\ ghost'.half = ghost.half
Others(w) == \A v \in Consumer \ {w} : con'[v] = con[v]

LEMMA PublishEffect ==
  ASSUME Shape, NEW m \in Message, Publish(m)
  PROVE  /\ Shape' /\ Stored /\ UNCHANGED <<con, era>>
         /\ m \notin ghost.sent /\ db'.queue = db.queue \union {m} /\ db'.dedup = db.dedup
         /\ ghost'.sent = ghost.sent \union {m}
         /\ ghost'.half = ghost.half /\ ghost'.crossed = ghost.crossed
BY DEF Publish, Write, Shape, StoreOK, Stored

LEMMA ReceiveEffect ==
  ASSUME Shape, NEW w \in Consumer, NEW B \in SUBSET db.queue, Receive(w, B)
  PROVE  /\ Shape' /\ Stored /\ UNCHANGED <<era, ghost>> /\ Others(w)
         /\ con[w].pc = "idle"
         /\ con'[w].pc = "filter" /\ con'[w].batch = B
         /\ con'[w].todo = con[w].todo /\ con'[w].m = con[w].m
         /\ db'.queue = db.queue \ B /\ db'.dedup = db.dedup
BY DEF Receive, At, Only, Write, Shape, StoreOK, Stored, Others, ConsumerLabel

LEMMA FilterEffect ==
  ASSUME Shape, NEW w \in Consumer, FilterUnseen(w)
  PROVE  /\ Shape' /\ UNCHANGED <<db, era, ghost>> /\ Others(w)
         /\ con[w].pc = "filter"
         /\ con'[w].pc = "next" /\ con'[w].batch = con[w].batch
         /\ con'[w].todo = con[w].batch \ db.dedup /\ con'[w].m = con[w].m
BY DEF FilterUnseen, At, Only, Shape, StoreOK, Others, ConsumerLabel

LEMMA TakeEffect ==
  ASSUME Shape, NEW w \in Consumer, NEW m \in Message, Take(w, m)
  PROVE  /\ Shape' /\ UNCHANGED <<db, era>> /\ Others(w) /\ History
         /\ con[w].pc = "next" /\ m \in con[w].todo
         /\ con'[w].pc = "put" /\ con'[w].batch = con[w].batch
         /\ con'[w].todo = con[w].todo \ {m} /\ con'[w].m = m
         /\ ghost.crossed \subseteq ghost'.crossed
         /\ Trace[m] \notin ghost'.crossed => Touching(Trace[m]) = {}
BY DEF Take, At, Shape, StoreOK, Others, History, ConsumerLabel

LEMMA AcknowledgeEffect ==
  ASSUME Shape, NEW w \in Consumer, Acknowledge(w)
  PROVE  /\ Shape' /\ UNCHANGED <<db, era, ghost>> /\ Others(w)
         /\ con[w].pc = "next" /\ con[w].todo = {}
         /\ con'[w] = Free
BY DEF Acknowledge, At, Only, Shape, StoreOK, Others, ConsumerLabel, Free

\* The message a consumer has in hand is one.
LEMMA InHand ==
  ASSUME Shape, NEW w \in Consumer, ConsumerOK(w), con[w].pc \in Busy
  PROVE  /\ con[w].m \in Message /\ Trace[con[w].m] \in TraceId /\ Day[con[w].m] \in Days
         /\ SpanSet(con[w].m) \subseteq Span
         /\ Len(Spans[con[w].m]) \in Nat \ {0} /\ Spans[con[w].m] \in Seq(Span)
BY TracesAssumption DEF Shape, ConsumerOK, TraceId, Days, Span

LEMMA PutEffect ==
  ASSUME Shape, NEW w \in Consumer, ConsumerOK(w), PutTrace(w)
  PROVE  /\ Shape' /\ UNCHANGED <<era, ghost>> /\ Others(w) /\ Waiting
         /\ con[w].pc = "put"
         /\ con'[w].pc = "save" /\ con'[w].batch = con[w].batch
         /\ con'[w].todo = con[w].todo /\ con'[w].m = con[w].m
         /\ db'.rows = db.rows /\ db'.index = db.index
         /\ db'.objects = [db.objects EXCEPT ![Trace[con[w].m]] =
              [db.objects[Trace[con[w].m]] EXCEPT ![Day[con[w].m]] = SpanSet(con[w].m)]]
BY InHand DEF PutTrace, At, Only, Goto, Write, Shape, StoreOK, Others, Waiting, ConsumerLabel, Busy

LEMMA SaveEffect ==
  ASSUME Shape, NEW w \in Consumer, ConsumerOK(w), SaveTrace(w)
  PROVE  /\ Shape' /\ UNCHANGED era /\ Others(w) /\ Waiting /\ History
         /\ con[w].pc = "save"
         /\ con'[w].pc = "index" /\ con'[w].at = 1 /\ con'[w].batch = con[w].batch
         /\ con'[w].todo = con[w].todo /\ con'[w].m = con[w].m
         /\ db'.objects = db.objects /\ db'.index = db.index
         /\ db'.rows = [db.rows EXCEPT ![Trace[con[w].m]] =
              [day |-> Day[con[w].m], count |-> Len(Spans[con[w].m])]]
         /\ ghost.crossed \subseteq ghost'.crossed
         /\ Trace[con[w].m] \notin ghost'.crossed =>
              db.rows[Trace[con[w].m]].day \in {None, Day[con[w].m]}
BY InHand DEF SaveTrace, At, Write, Shape, StoreOK, Others, Waiting, History, ConsumerLabel, Busy

LEMMA IndexEffect ==
  ASSUME Shape, NEW w \in Consumer, ConsumerOK(w), IndexSpan(w)
  PROVE  /\ Shape' /\ UNCHANGED <<era, ghost>> /\ Others(w) /\ Waiting
         /\ con[w].pc = "index"
         /\ con'[w].batch = con[w].batch /\ con'[w].todo = con[w].todo /\ con'[w].m = con[w].m
         /\ \/ con'[w].pc = "index" /\ con'[w].at = con[w].at + 1 /\ con[w].at < Len(Spans[con[w].m])
            \/ con'[w].pc = "apm" /\ con'[w].at = 1 /\ con[w].at >= Len(Spans[con[w].m])
         /\ db'.objects = db.objects /\ db'.rows = db.rows
         /\ db'.index = [db.index EXCEPT ![Trace[con[w].m]] =
              db.index[Trace[con[w].m]] \union {Current(w).id}]
<1> DEFINE m == con[w].m
<1>1. con[w].pc = "index" /\ con[w].pc \in Busy /\ con[w].pc \in Numbered
  BY DEF IndexSpan, At, Busy, Numbered
<1>2. con[w].at \in 1 .. Len(Spans[m]) /\ Trace[m] \in TraceId /\ m \in Message
  BY <1>1, InHand DEF ConsumerOK
<1>3. Current(w) \in Span
  BY <1>1, <1>2, InHand DEF Current
<1>4. Current(w).id \in SpanId
  BY <1>3 DEF SpanId
<1>5. /\ UNCHANGED <<era, ghost>>
      /\ db' = [db EXCEPT !.index[Trace[m]] = @ \union {Current(w).id}]
  BY DEF IndexSpan, Only, Write
<1>6. StoreOK' /\ Waiting /\ db'.objects = db.objects /\ db'.rows = db.rows
      /\ db'.index = [db.index EXCEPT ![Trace[m]] = db.index[Trace[m]] \union {Current(w).id}]
  BY <1>2, <1>4, <1>5 DEF Shape, StoreOK, Waiting
<1>7. \/ con' = [con EXCEPT ![w].pc = "index", ![w].at = @ + 1] /\ con[w].at < Len(Spans[m])
      \/ con' = [con EXCEPT ![w].pc = "apm", ![w].at = 1] /\ con[w].at >= Len(Spans[m])
  BY <1>1, <1>2, InHand DEF IndexSpan, Advance
<1>8. /\ DOMAIN con' = Consumer /\ Others(w)
      /\ DOMAIN con'[w] = {"pc", "batch", "todo", "m", "at", "hist"}
      /\ con'[w].batch = con[w].batch /\ con'[w].todo = con[w].todo /\ con'[w].m = con[w].m
      /\ \/ con'[w].pc = "index" /\ con'[w].at = con[w].at + 1 /\ con[w].at < Len(Spans[m])
         \/ con'[w].pc = "apm" /\ con'[w].at = 1 /\ con[w].at >= Len(Spans[m])
  BY <1>7 DEF Shape, Others
<1>9. Shape'
  BY <1>5, <1>6, <1>8 DEF Shape, Others, ConsumerLabel
<1>10. QED
  BY <1>1, <1>5, <1>6, <1>8, <1>9

\* The steps that count spans change nothing the invariant reads but where the consumer is.
Counts(w) == ReadStats(w) \/ SaveStats(w) \/ CountEdge(w)

LEMMA CountEffect ==
  ASSUME Shape, NEW w \in Consumer, ConsumerOK(w), Counts(w)
  PROVE  /\ Shape' /\ UNCHANGED era /\ Others(w) /\ Waiting /\ Stored /\ History
         /\ ghost'.crossed = ghost.crossed
         /\ con[w].pc \in {"apm", "count", "edge"}
         /\ con'[w].batch = con[w].batch /\ con'[w].todo = con[w].todo /\ con'[w].m = con[w].m
         /\ con'[w].pc \in {"apm", "count", "edge", "remember"}
         /\ con'[w].pc # "remember" => con'[w].at \in 1 .. Len(Spans[con[w].m])
<1> DEFINE m == con[w].m
           Fields == {"pc", "batch", "todo", "m", "at", "hist"}
<1>1. con[w].pc \in {"apm", "count", "edge"} /\ con[w].pc \in Busy /\ con[w].pc \in Numbered
  BY DEF Counts, ReadStats, SaveStats, CountEdge, At, Busy, Numbered
<1>2. con[w].at \in 1 .. Len(Spans[m]) /\ Len(Spans[m]) \in Nat \ {0}
  BY <1>1, InHand DEF ConsumerOK
<1>3. DOMAIN con = Consumer /\ DOMAIN con[w] = Fields
  BY DEF Shape
<1>4. /\ DOMAIN con' = Consumer /\ Others(w) /\ DOMAIN con'[w] = Fields
      /\ con'[w].batch = con[w].batch /\ con'[w].todo = con[w].todo /\ con'[w].m = m
      /\ con'[w].pc \in {"apm", "count", "edge", "remember"}
      /\ con'[w].at \in Nat
      /\ con'[w].pc # "remember" => con'[w].at \in 1 .. Len(Spans[m])
  <2>1. CASE ReadStats(w)
    <3>1. \/ con' = [con EXCEPT ![w].pc = "count", ![w].hist = db.hist[EndpointOf(w)]]
          \/ con' = [con EXCEPT ![w].pc = "edge"]
      BY <2>1 DEF ReadStats, Goto
    <3>2. QED
      BY <1>2, <1>3, <3>1 DEF Others
  <2>2. CASE SaveStats(w)
    <3>1. con' = [con EXCEPT ![w].pc = "edge"]
      BY <2>2 DEF SaveStats, Goto
    <3>2. QED
      BY <1>2, <1>3, <3>1 DEF Others
  <2>3. CASE CountEdge(w)
    <3>1. \/ con' = [con EXCEPT ![w].pc = "apm", ![w].at = @ + 1] /\ con[w].at < Len(Spans[m])
          \/ con' = [con EXCEPT ![w].pc = "remember", ![w].at = 1]
      BY <2>3 DEF CountEdge, Advance
    <3>2. QED
      BY <1>2, <1>3, <3>1 DEF Others
  <2>4. QED
    BY <2>1, <2>2, <2>3 DEF Counts
<1>5. /\ DOMAIN db' = DOMAIN db /\ Waiting /\ Stored
  <2>1. CASE ReadStats(w)
    BY <2>1 DEF ReadStats, Waiting, Stored
  <2>2. CASE SaveStats(w)
    <3>1. PICK e, h : db' = [db EXCEPT !.requests[e] = @ + 1, !.hist[e] = h]
      BY <2>2 DEF SaveStats, Write
    <3>2. QED
      BY <3>1 DEF Shape, StoreOK, Waiting, Stored
  <2>3. CASE CountEdge(w)
    <3>1. PICK c : db' = [db EXCEPT !.calls = c]
      BY <2>3 DEF CountEdge, Write
    <3>2. QED
      BY <3>1 DEF Shape, StoreOK, Waiting, Stored
  <2>4. QED
    BY <2>1, <2>2, <2>3 DEF Counts
<1>6. /\ UNCHANGED era /\ History /\ ghost'.crossed = ghost.crossed /\ DOMAIN ghost' = DOMAIN ghost
  BY DEF Counts, ReadStats, SaveStats, CountEdge, Only, History, Shape, StoreOK
<1>7. StoreOK'
  BY <1>5, <1>6 DEF Shape, StoreOK, Stored, Waiting
<1>8. con'[w].pc \in ConsumerLabel /\ con'[w].batch \subseteq Message
      /\ con'[w].m \in Message \union {None}
  BY <1>4 DEF Shape, ConsumerLabel
<1>9. Shape'
  BY <1>4, <1>6, <1>7, <1>8 DEF Shape, Others
<1>10. QED
  BY <1>1, <1>4, <1>5, <1>6, <1>9

LEMMA RememberEffect ==
  ASSUME Shape, NEW w \in Consumer, ConsumerOK(w), Remember(w)
  PROVE  /\ Shape' /\ UNCHANGED <<era, ghost>> /\ Others(w) /\ Stored
         /\ con[w].pc = "remember"
         /\ con'[w].pc = "next" /\ con'[w].batch = con[w].batch
         /\ con'[w].todo = con[w].todo /\ con'[w].m = None
         /\ db'.queue = db.queue /\ db'.dedup = db.dedup \union {con[w].m}
BY InHand DEF Remember, At, Only, Write, Shape, StoreOK, Others, Stored, ConsumerLabel, Busy

LEMMA ThrowsEffect ==
  ASSUME Shape, NEW w \in Consumer, Throws(w)
  PROVE  /\ Shape' /\ UNCHANGED <<era, ghost>> /\ Others(w) /\ Stored
         /\ con'[w] = Free
         /\ db'.queue = db.queue \union con[w].batch /\ db'.dedup = db.dedup
BY DEF Throws, At, Write, Shape, StoreOK, Others, Stored, ConsumerLabel, Free

\* The steps of an eraser.
OtherErasers(e) == \A f \in Eraser \ {e} : era'[f] = era[f]

LEMMA ListEffect ==
  ASSUME Shape, NEW e \in Eraser, NEW t \in TraceId, ListTrace(e, t)
  PROVE  /\ Shape' /\ UNCHANGED <<db, con>> /\ OtherErasers(e) /\ History
         /\ era[e].pc = "idle" /\ db.rows[t] # NoRow
         /\ era'[e] = [pc |-> "object", trace |-> t, day |-> db.rows[t].day]
         /\ ghost.crossed \subseteq ghost'.crossed
         /\ t \notin ghost'.crossed => Touching(t) = {}
BY DEF ListTrace, ErasingAt, Shape, StoreOK, OtherErasers, History, EraserLabel

LEMMA DeleteObjectEffect ==
  ASSUME Shape, NEW e \in Eraser, EraserOK(e), DeleteObject(e)
  PROVE  /\ Shape' /\ UNCHANGED <<con, ghost>> /\ OtherErasers(e) /\ Waiting
         /\ era[e].pc = "object" /\ era'[e].pc = "spans"
         /\ era'[e].trace = era[e].trace /\ era'[e].day = era[e].day
         /\ db'.rows = db.rows /\ db'.index = db.index
         /\ db'.objects = [db.objects EXCEPT ![era[e].trace] =
              [db.objects[era[e].trace] EXCEPT ![era[e].day] = {}]]
<1>1. era[e].pc = "object" /\ era[e].trace \in TraceId /\ era[e].day \in Days
  BY DEF DeleteObject, ErasingAt, EraserOK
<1>2. UNCHANGED <<con, ghost>> /\ era' = [era EXCEPT ![e].pc = "spans"]
  BY DEF DeleteObject, OnlyErase
<1>3. db' = [db EXCEPT !.objects[era[e].trace][era[e].day] = {}]
  BY DEF DeleteObject, Write
<1>4. /\ era'[e].pc = "spans" /\ era'[e].trace = era[e].trace /\ era'[e].day = era[e].day
      /\ OtherErasers(e)
  BY <1>2 DEF Shape, OtherErasers
<1>5. era' \in [Eraser -> [pc : EraserLabel, trace : TraceId \union {None}, day : Days \union {None}]]
  BY <1>2 DEF Shape, EraserLabel
<1>6. StoreOK' /\ Waiting /\ db'.rows = db.rows /\ db'.index = db.index
  BY <1>1, <1>2, <1>3 DEF Shape, StoreOK, Waiting
<1>7. Shape'
  BY <1>2, <1>5, <1>6 DEF Shape
<1>8. QED
  BY <1>1, <1>2, <1>3, <1>4, <1>6, <1>7 DEF Shape, StoreOK

LEMMA DeleteSpansEffect ==
  ASSUME Shape, NEW e \in Eraser, EraserOK(e), DeleteSpans(e)
  PROVE  /\ Shape' /\ UNCHANGED <<con, ghost>> /\ OtherErasers(e) /\ Waiting
         /\ era[e].pc = "spans" /\ era'[e].pc = "row"
         /\ era'[e].trace = era[e].trace /\ era'[e].day = era[e].day
         /\ db'.rows = db.rows /\ db'.objects = db.objects
         /\ db'.index = [db.index EXCEPT ![era[e].trace] = {}]
<1>1. era[e].pc = "spans" /\ era[e].trace \in TraceId /\ era[e].day \in Days
  BY DEF DeleteSpans, ErasingAt, EraserOK
<1>2. UNCHANGED <<con, ghost>> /\ era' = [era EXCEPT ![e].pc = "row"]
  BY DEF DeleteSpans, OnlyErase
<1>3. db' = [db EXCEPT !.index[era[e].trace] = {}]
  BY DEF DeleteSpans, Write
<1>4. /\ era'[e].pc = "row" /\ era'[e].trace = era[e].trace /\ era'[e].day = era[e].day
      /\ OtherErasers(e)
  BY <1>2 DEF Shape, OtherErasers
<1>5. era' \in [Eraser -> [pc : EraserLabel, trace : TraceId \union {None}, day : Days \union {None}]]
  BY <1>2 DEF Shape, EraserLabel
<1>6. StoreOK' /\ Waiting /\ db'.rows = db.rows /\ db'.objects = db.objects
  BY <1>1, <1>2, <1>3 DEF Shape, StoreOK, Waiting
<1>7. Shape'
  BY <1>2, <1>5, <1>6 DEF Shape
<1>8. QED
  BY <1>1, <1>2, <1>3, <1>4, <1>6, <1>7 DEF Shape, StoreOK

LEMMA DeleteRowEffect ==
  ASSUME Shape, NEW e \in Eraser, EraserOK(e), DeleteRow(e)
  PROVE  /\ Shape' /\ UNCHANGED con /\ OtherErasers(e) /\ Waiting
         /\ era[e].pc = "row" /\ era'[e] = Resting
         /\ db'.index = db.index /\ db'.objects = db.objects
         /\ db'.rows = [db.rows EXCEPT ![era[e].trace] = NoRow]
         /\ ghost'.sent = ghost.sent /\ ghost'.crossed = ghost.crossed
         /\ ghost'.half = ghost.half \ {era[e].trace}
BY DEF DeleteRow, ErasingAt, Write, Shape, StoreOK, OtherErasers, Waiting,
   EraserLabel, EraserOK, Resting, NoRow

LEMMA EraseThrowsEffect ==
  ASSUME Shape, NEW e \in Eraser, EraserOK(e), EraseThrows(e)
  PROVE  /\ Shape' /\ UNCHANGED <<db, con>> /\ OtherErasers(e)
         /\ era[e].pc # "idle" /\ era'[e] = Resting
         /\ ghost'.sent = ghost.sent /\ ghost'.crossed = ghost.crossed
         /\ ghost'.half = ghost.half \union {era[e].trace}
BY DEF EraseThrows, ErasingAt, Shape, StoreOK, OtherErasers, EraserLabel, EraserOK, Resting

-----------------------------------------------------------------------------
(* The processes and the place of each message.                            *)

\* A consumer that does not move, of whose batch nothing new is remembered.
LEMMA ConsumerKept ==
  ASSUME NEW w \in Consumer, ConsumerOK(w), con'[w] = con[w],
         con[w].batch \intersect db'.dedup \subseteq db.dedup
  PROVE  ConsumerOK(w)'
BY DEF ConsumerOK, Busy

LEMMA ConsumersKept ==
  ASSUME NEW w \in Consumer, \A v \in Consumer : ConsumerOK(v), Others(w), db'.dedup = db.dedup,
         ConsumerOK(w)'
  PROVE  \A v \in Consumer : ConsumerOK(v)'
<1> SUFFICES ASSUME NEW v \in Consumer, v # w PROVE ConsumerOK(v)'
  OBVIOUS
<1>1. con'[v] = con[v]
  BY DEF Others
<1>2. QED
  BY <1>1, ConsumerKept

\* The place of the messages when a consumer moves within its batch.
LEMMA PlacedKept ==
  ASSUME NEW w \in Consumer, Placed, Others(w), con'[w].batch = con[w].batch,
         db'.queue = db.queue, ghost'.sent = ghost.sent
  PROVE  Placed'
<1>1. \A v \in Consumer : con'[v].batch = con[v].batch
  BY DEF Others
<1>2. QED
  BY <1>1 DEF Placed

LEMMA ProcessesOnPublish ==
  ASSUME Shape, ProcessesOK, NEW m \in Message, Publish(m)
  PROVE  ProcessesOK'
<1>1. \A w \in Consumer : ConsumerOK(w)'
  BY PublishEffect, ConsumerKept DEF ProcessesOK
<1>2. \A e \in Eraser : EraserOK(e)'
  BY PublishEffect DEF ProcessesOK, EraserOK
<1>3. Placed'
  BY PublishEffect DEF ProcessesOK, Placed
<1>4. QED
  BY <1>1, <1>2, <1>3 DEF ProcessesOK

LEMMA ProcessesOnReceive ==
  ASSUME Shape, ProcessesOK, NEW w \in Consumer, NEW B \in SUBSET db.queue, Receive(w, B)
  PROVE  ProcessesOK'
<1>1. con[w] = Free
  BY ReceiveEffect DEF ProcessesOK, ConsumerOK
<1>2. /\ con'[w].pc = "filter" /\ con'[w].batch = B /\ con'[w].todo = {} /\ con'[w].m = None
  BY <1>1, ReceiveEffect DEF Free
<1>3. ConsumerOK(w)'
  BY <1>2 DEF ConsumerOK, Busy, Numbered
<1>4. \A v \in Consumer : ConsumerOK(v)'
  BY <1>3, ReceiveEffect, ConsumersKept DEF ProcessesOK
<1>5. \A e \in Eraser : EraserOK(e)'
  BY ReceiveEffect DEF ProcessesOK, EraserOK
<1>6. Placed'
  <2>1. db'.queue = db.queue \ B /\ UNCHANGED ghost /\ Others(w)
    BY ReceiveEffect
  <2>2. Placed
    BY DEF ProcessesOK
  <2>3. QED
    BY <1>2, <2>1, <2>2 DEF Placed, Others
<1>7. QED
  BY <1>4, <1>5, <1>6 DEF ProcessesOK

\* The steps of a consumer within its batch.
LEMMA ProcessesOnBatch ==
  ASSUME Shape, ProcessesOK, NEW w \in Consumer,
         \/ FilterUnseen(w) \/ (\E m \in Message : Take(w, m)) \/ PutTrace(w) \/ SaveTrace(w)
         \/ IndexSpan(w) \/ Counts(w) \/ Remember(w)
  PROVE  ProcessesOK'
<1>1. ConsumerOK(w) /\ Placed
  BY DEF ProcessesOK
<1>2. ASSUME ConsumerOK(w)', Others(w), UNCHANGED era, con'[w].batch = con[w].batch, Waiting,
             ghost'.sent = ghost.sent
      PROVE  ProcessesOK'
  <2>1. \A v \in Consumer : ConsumerOK(v)'
    BY <1>2, ConsumersKept DEF ProcessesOK, Waiting
  <2>2. Placed'
    BY <1>1, <1>2, PlacedKept DEF Waiting
  <2>3. \A e \in Eraser : EraserOK(e)'
    BY <1>2 DEF ProcessesOK, EraserOK
  <2>4. QED
    BY <2>1, <2>2, <2>3 DEF ProcessesOK
<1>3. CASE FilterUnseen(w)
  <2>1. /\ con'[w].pc = "next" /\ con'[w].batch = con[w].batch
        /\ con'[w].todo = con[w].batch \ db.dedup /\ con'[w].m = con[w].m
    BY <1>3, FilterEffect
  <2>2. con[w].m = None
    BY <1>1, <1>3, FilterEffect DEF ConsumerOK, Busy
  <2>3. ConsumerOK(w)'
    BY <1>3, <2>1, <2>2, FilterEffect DEF ConsumerOK, Busy, Numbered
  <2>4. QED
    BY <1>2, <1>3, <2>1, <2>3, FilterEffect DEF Waiting
<1>4. ASSUME NEW m \in Message, Take(w, m) PROVE ProcessesOK'
  <2>1. /\ con'[w].pc = "put" /\ con'[w].batch = con[w].batch
        /\ con'[w].todo = con[w].todo \ {m} /\ con'[w].m = m
    BY <1>4, TakeEffect
  <2>2. m \in con[w].todo /\ m # None
    BY <1>4, TakeEffect, TracesAssumption
  <2>3. ConsumerOK(w)'
    BY <1>1, <1>4, <2>1, <2>2, TakeEffect DEF ConsumerOK, Busy, Numbered
  <2>4. QED
    BY <1>2, <1>4, <2>1, <2>3, TakeEffect DEF Waiting, History
<1>5. CASE PutTrace(w)
  <2>1. /\ con'[w].pc = "save" /\ con'[w].batch = con[w].batch
        /\ con'[w].todo = con[w].todo /\ con'[w].m = con[w].m
    BY <1>1, <1>5, PutEffect
  <2>2. ConsumerOK(w)'
    BY <1>1, <1>5, <2>1, PutEffect DEF ConsumerOK, Busy, Numbered, Waiting
  <2>3. QED
    BY <1>1, <1>2, <1>5, <2>1, <2>2, PutEffect
<1>6. CASE SaveTrace(w)
  <2>1. /\ con'[w].pc = "index" /\ con'[w].batch = con[w].batch /\ con'[w].at = 1
        /\ con'[w].todo = con[w].todo /\ con'[w].m = con[w].m
    BY <1>1, <1>6, SaveEffect
  <2>2. con[w].pc = "save" /\ con[w].pc \in Busy
    BY <1>1, <1>6, SaveEffect DEF Busy
  <2>3. 1 \in 1 .. Len(Spans[con[w].m])
    BY <1>1, <2>2, InHand
  <2>4. ConsumerOK(w)'
    BY <1>1, <1>6, <2>1, <2>2, <2>3, SaveEffect DEF ConsumerOK, Busy, Numbered, Waiting
  <2>5. QED
    BY <1>1, <1>2, <1>6, <2>1, <2>4, SaveEffect DEF History
<1>7. CASE IndexSpan(w)
  <2>1. con[w].pc = "index" /\ con[w].pc \in Busy /\ con[w].pc \in Numbered
    BY <1>1, <1>7, IndexEffect DEF Busy, Numbered
  <2>2. con[w].at \in 1 .. Len(Spans[con[w].m]) /\ Len(Spans[con[w].m]) \in Nat \ {0}
    BY <1>1, <2>1, InHand DEF ConsumerOK
  <2>3. con'[w].pc \in {"index", "apm"} /\ con'[w].at \in 1 .. Len(Spans[con[w].m])
    <3>1. \/ con'[w].pc = "index" /\ con'[w].at = con[w].at + 1 /\ con[w].at < Len(Spans[con[w].m])
          \/ con'[w].pc = "apm" /\ con'[w].at = 1
      BY <1>1, <1>7, IndexEffect
    <3>2. QED
      BY <2>2, <3>1
  <2>4. /\ con'[w].batch = con[w].batch /\ con'[w].todo = con[w].todo /\ con'[w].m = con[w].m
        /\ Waiting /\ Others(w) /\ UNCHANGED <<era, ghost>>
    BY <1>1, <1>7, IndexEffect
  <2>5. ConsumerOK(w)'
    BY <1>1, <2>1, <2>3, <2>4 DEF ConsumerOK, Busy, Numbered, Waiting
  <2>6. QED
    BY <1>2, <2>4, <2>5
<1>8. CASE Counts(w)
  <2>1. con[w].pc \in Busy
    BY <1>1, <1>8, CountEffect DEF Busy
  <2>2. /\ con'[w].batch = con[w].batch /\ con'[w].todo = con[w].todo /\ con'[w].m = con[w].m
        /\ Waiting /\ Others(w) /\ UNCHANGED era /\ History
    BY <1>1, <1>8, CountEffect
  <2>3. /\ con'[w].pc \in {"apm", "count", "edge", "remember"}
        /\ con'[w].pc # "remember" => con'[w].at \in 1 .. Len(Spans[con[w].m])
    BY <1>1, <1>8, CountEffect
  <2>4. ConsumerOK(w)'
    BY <1>1, <2>1, <2>2, <2>3 DEF ConsumerOK, Busy, Numbered, Waiting
  <2>5. QED
    BY <1>2, <2>2, <2>4 DEF History
<1>9. CASE Remember(w)
  <2>1. con[w].pc = "remember" /\ con[w].pc \in Busy
    BY <1>1, <1>9, RememberEffect DEF Busy
  <2>2. /\ con'[w].pc = "next" /\ con'[w].batch = con[w].batch
        /\ con'[w].todo = con[w].todo /\ con'[w].m = None
    BY <1>1, <1>9, RememberEffect
  <2>3. /\ db'.queue = db.queue /\ db'.dedup = db.dedup \union {con[w].m}
        /\ UNCHANGED <<era, ghost>> /\ Others(w)
    BY <1>1, <1>9, RememberEffect
  <2>4. con[w].m \in con[w].batch \ con[w].todo
    BY <1>1, <2>1 DEF ConsumerOK
  <2>5. ConsumerOK(w)'
    BY <1>1, <2>2, <2>3, <2>4 DEF ConsumerOK, Busy, Numbered
  <2>6. ASSUME NEW v \in Consumer, v # w PROVE ConsumerOK(v)'
    <3>1. con[v].batch \intersect db'.dedup \subseteq db.dedup
      BY <1>1, <2>3, <2>4, <2>6 DEF Placed
    <3>2. QED
      BY <2>3, <2>6, <3>1, ConsumerKept DEF Others, ProcessesOK
  <2>7. Placed'
    BY <1>1, <2>2, <2>3, PlacedKept
  <2>8. \A e \in Eraser : EraserOK(e)'
    BY <2>3 DEF ProcessesOK, EraserOK
  <2>9. QED
    BY <2>5, <2>6, <2>7, <2>8 DEF ProcessesOK
<1>10. QED
  BY <1>3, <1>4, <1>5, <1>6, <1>7, <1>8, <1>9

\* The steps that end a batch.
LEMMA ProcessesOnEnd ==
  ASSUME Shape, ProcessesOK, NEW w \in Consumer, Acknowledge(w) \/ Throws(w)
  PROVE  ProcessesOK'
<1>1. /\ con'[w] = Free /\ Others(w) /\ UNCHANGED <<era, ghost>>
      /\ db'.queue \subseteq db.queue \union con[w].batch /\ db'.dedup = db.dedup
  BY AcknowledgeEffect, ThrowsEffect
<1>2. ConsumerOK(w)'
  BY <1>1 DEF ConsumerOK, Free, Busy, Numbered
<1>3. \A v \in Consumer : ConsumerOK(v)'
  BY <1>1, <1>2, ConsumersKept DEF ProcessesOK
<1>4. con'[w].batch = {}
  BY <1>1 DEF Free
<1>5. Placed'
  BY <1>1, <1>4 DEF ProcessesOK, Placed, Others
<1>6. \A e \in Eraser : EraserOK(e)'
  BY <1>1 DEF ProcessesOK, EraserOK
<1>7. QED
  BY <1>3, <1>5, <1>6 DEF ProcessesOK

LEMMA ProcessesOnErase ==
  ASSUME Shape, ProcessesOK, NEW e \in Eraser, Erase(e) \/ EraseThrows(e)
  PROVE  ProcessesOK'
<1>1. EraserOK(e)
  BY DEF ProcessesOK
<1>2. /\ UNCHANGED con /\ OtherErasers(e) /\ Waiting /\ ghost'.sent = ghost.sent /\ EraserOK(e)'
  <2>1. ASSUME NEW t \in TraceId, ListTrace(e, t) PROVE <1>2
    <3>1. db.rows[t].day \in Days
      BY <2>1, ListEffect DEF Shape, StoreOK
    <3>2. EraserOK(e)'
      <4>1. era'[e] = [pc |-> "object", trace |-> t, day |-> db.rows[t].day]
        BY <2>1, ListEffect
      <4>2. era'[e].pc = "object" /\ era'[e].trace = t /\ era'[e].day \in Days
        BY <3>1, <4>1
      <4>3. QED
        BY <4>2 DEF EraserOK
    <3>3. QED
      BY <2>1, <3>2, ListEffect DEF Waiting, History
  <2>2. CASE DeleteObject(e)
    <3>1. era'[e].pc = "spans" /\ era'[e].trace = era[e].trace /\ era'[e].day = era[e].day
      BY <1>1, <2>2, DeleteObjectEffect
    <3>2. EraserOK(e)'
      BY <1>1, <2>2, <3>1, DeleteObjectEffect DEF EraserOK
    <3>3. QED
      BY <1>1, <2>2, <3>2, DeleteObjectEffect
  <2>3. CASE DeleteSpans(e)
    <3>1. era'[e].pc = "row" /\ era'[e].trace = era[e].trace /\ era'[e].day = era[e].day
      BY <1>1, <2>3, DeleteSpansEffect
    <3>2. EraserOK(e)'
      BY <1>1, <2>3, <3>1, DeleteSpansEffect DEF EraserOK
    <3>3. QED
      BY <1>1, <2>3, <3>2, DeleteSpansEffect
  <2>4. CASE DeleteRow(e)
    <3>1. era'[e] = Resting /\ UNCHANGED con /\ OtherErasers(e) /\ Waiting /\ ghost'.sent = ghost.sent
      BY <1>1, <2>4, DeleteRowEffect
    <3>2. EraserOK(e)'
      BY <3>1 DEF EraserOK, Resting
    <3>3. QED
      BY <3>1, <3>2
  <2>5. CASE EraseThrows(e)
    <3>1. era'[e] = Resting /\ UNCHANGED <<db, con>> /\ OtherErasers(e) /\ ghost'.sent = ghost.sent
      BY <1>1, <2>5, EraseThrowsEffect
    <3>2. EraserOK(e)'
      BY <3>1 DEF EraserOK, Resting
    <3>3. QED
      BY <3>1, <3>2 DEF Waiting
  <2>6. QED
    BY <2>1, <2>2, <2>3, <2>4, <2>5 DEF Erase
<1>3. \A f \in Eraser : EraserOK(f)'
  BY <1>2 DEF ProcessesOK, EraserOK, OtherErasers
<1>4. \A w \in Consumer : ConsumerOK(w)'
  BY <1>2, ConsumerKept DEF ProcessesOK, Waiting
<1>5. Placed'
  BY <1>2 DEF ProcessesOK, Placed, Waiting
<1>6. QED
  BY <1>3, <1>4, <1>5 DEF ProcessesOK

-----------------------------------------------------------------------------
(* What is due stays due, until it is remembered.                          *)

LEMMA DueOnPublish ==
  ASSUME Shape, NEW m \in Message, Publish(m), NEW n \in Message, Due(n)
  PROVE  Due(n)'
BY PublishEffect DEF Due, DueAt

LEMMA DueOnReceive ==
  ASSUME Shape, ProcessesOK, NEW w \in Consumer, NEW B \in SUBSET db.queue, Receive(w, B),
         NEW n \in Message, Due(n)
  PROVE  Due(n)'
<1>1. con[w] = Free /\ n # None
  BY ReceiveEffect, TracesAssumption DEF ProcessesOK, ConsumerOK
<1>2. ~DueAt(w, n)
  BY <1>1 DEF DueAt, Free
<1>3. \A v \in Consumer : DueAt(v, n) => DueAt(v, n)'
  BY <1>2, ReceiveEffect DEF DueAt, Others
<1>4. CASE n \in db.queue \ db.dedup
  BY <1>4, ReceiveEffect DEF Due, DueAt
<1>5. QED
  BY <1>3, <1>4 DEF Due

\* Steps of a consumer within its batch, before it remembers a message.
Stays(w) ==
  \/ FilterUnseen(w) \/ (\E m \in Message : Take(w, m)) \/ PutTrace(w) \/ SaveTrace(w)
  \/ IndexSpan(w) \/ Counts(w)

LEMMA DueOnStays ==
  ASSUME Shape, ProcessesOK, NEW w \in Consumer, Stays(w), NEW n \in Message, Due(n)
  PROVE  Due(n)'
<1>1. ConsumerOK(w) /\ n # None
  BY TracesAssumption DEF ProcessesOK
<1>2. Waiting /\ Others(w)
  BY <1>1, FilterEffect, TakeEffect, PutEffect, SaveEffect, IndexEffect, CountEffect DEF Stays, Waiting
<1>3. ASSUME DueAt(w, n) PROVE DueAt(w, n)'
  <2>1. CASE FilterUnseen(w)
    BY <1>1, <1>3, <2>1, FilterEffect DEF DueAt, ConsumerOK
  <2>2. ASSUME NEW m \in Message, Take(w, m) PROVE DueAt(w, n)'
    <3>1. con[w].m = None /\ con[w].pc = "next"
      BY <1>1, <2>2, TakeEffect DEF ConsumerOK, Busy
    <3>2. QED
      BY <1>1, <1>3, <2>2, <3>1, TakeEffect DEF DueAt
  <2>3. CASE ~FilterUnseen(w) /\ ~(\E m \in Message : Take(w, m))
    <3>1. con[w].pc # "filter" /\ con'[w].todo = con[w].todo /\ con'[w].m = con[w].m
      BY <1>1, <2>3, PutEffect, SaveEffect, IndexEffect, CountEffect DEF Stays
    <3>2. QED
      BY <1>3, <3>1 DEF DueAt
  <2>4. QED
    BY <2>1, <2>2, <2>3
<1>4. \A v \in Consumer : DueAt(v, n) => DueAt(v, n)'
  BY <1>2, <1>3 DEF DueAt, Others, Waiting
<1>5. QED
  BY <1>2, <1>4 DEF Due, Waiting

LEMMA DueOnRemember ==
  ASSUME Shape, ProcessesOK, NEW w \in Consumer, Remember(w), NEW n \in Message, Due(n),
         n # con[w].m
  PROVE  Due(n)'
<1>1. ConsumerOK(w)
  BY DEF ProcessesOK
<1>2. /\ db'.queue = db.queue /\ db'.dedup = db.dedup \union {con[w].m} /\ Others(w)
      /\ con[w].pc = "remember" /\ con'[w].todo = con[w].todo
  BY <1>1, RememberEffect
<1>3. \A v \in Consumer : DueAt(v, n) => DueAt(v, n)'
  BY <1>2 DEF DueAt, Others
<1>4. QED
  BY <1>2, <1>3 DEF Due

\* A batch is acknowledged when nothing of it is due, and returned if it throws.
LEMMA DueOnEnd ==
  ASSUME Shape, ProcessesOK, NEW w \in Consumer, Acknowledge(w) \/ Throws(w),
         NEW n \in Message, Due(n)
  PROVE  Due(n)'
<1>1. ConsumerOK(w) /\ n # None
  BY TracesAssumption DEF ProcessesOK
<1>2. Others(w) /\ db'.dedup = db.dedup /\ db.queue \subseteq db'.queue
  BY AcknowledgeEffect, ThrowsEffect
<1>3. ASSUME DueAt(w, n) PROVE n \in db'.queue \ db'.dedup
  <2>1. CASE Acknowledge(w)
    <3>1. con[w].pc = "next" /\ con[w].todo = {}
      BY <2>1, AcknowledgeEffect
    <3>2. con[w].m = None
      BY <1>1, <3>1 DEF ConsumerOK, Busy
    <3>3. QED
      BY <1>1, <1>3, <3>1, <3>2 DEF DueAt
  <2>2. CASE Throws(w)
    <3>1. db'.queue = db.queue \union con[w].batch /\ db'.dedup = db.dedup
      BY <2>2, ThrowsEffect
    <3>2. n \in con[w].batch \ db.dedup
      BY <1>1, <1>3 DEF DueAt, ConsumerOK
    <3>3. QED
      BY <3>1, <3>2
  <2>3. QED
    BY <2>1, <2>2
<1>4. \A v \in Consumer \ {w} : DueAt(v, n) => DueAt(v, n)'
  BY <1>2 DEF DueAt, Others
<1>5. QED
  BY <1>2, <1>3, <1>4 DEF Due

LEMMA DueOnErase ==
  ASSUME UNCHANGED con, Waiting, NEW n \in Message, Due(n)
  PROVE  Due(n)'
BY DEF Due, DueAt, Waiting

-----------------------------------------------------------------------------
(* Traces a step is not about.                                             *)

LEMMA TraceKept ==
  ASSUME NEW t \in TraceId, TraceOK(t),
         db'.objects[t] = db.objects[t], db'.rows[t] = db.rows[t], db'.index[t] = db.index[t],
         \A w \in Consumer : Writes(w, t) \/ Writes(w, t)' =>
           con'[w].m = con[w].m /\ con'[w].pc = con[w].pc /\ con'[w].at = con[w].at,
         \A e \in Eraser : era[e].trace = t \/ era'[e].trace = t => era'[e] = era[e],
         t \in ghost.half => t \in ghost'.half,
         \A m \in Message : Trace[m] = t /\ Due(m) => Due(m)'
  PROVE  TraceOK(t)'
<1>1. \A w \in Consumer : Writes(w, t)' <=> Writes(w, t)
  BY DEF Writes
<1>2. \A e \in Eraser : era'[e].trace = t <=> era[e].trace = t
  OBVIOUS
<1>3. Alone(t)' /\ (Untouched(t)' <=> Untouched(t))
  BY <1>1, <1>2 DEF TraceOK, Alone, Untouched
<1>4. ASSUME NEW w \in Consumer, Writes(w, t)' PROVE Progress(w)'
  <2>1. Progress(w) /\ Trace[con[w].m] = t
    BY <1>1, <1>4 DEF TraceOK, Writes
  <2>2. con'[w].m = con[w].m /\ con'[w].pc = con[w].pc /\ con'[w].at = con[w].at
    BY <1>4
  <2>3. QED
    BY <2>1, <2>2 DEF Progress, Indexed
<1>5. ASSUME NEW e \in Eraser, era'[e].trace = t PROVE Erased(e)'
  BY <1>2, <1>5 DEF TraceOK, Erased
<1>6. Kept(t)'
  BY DEF TraceOK, Kept
<1>7. Clean(t) => Clean(t)'
  BY DEF Clean
<1>8. DueOf(t) => DueOf(t)'
  BY DEF DueOf
<1>9. QED
  BY <1>3, <1>4, <1>5, <1>6, <1>7, <1>8 DEF TraceOK

LEMMA ConsumerElsewhere ==
  ASSUME NEW t \in TraceId, TraceOK(t), NEW w \in Consumer, Others(w), UNCHANGED era,
         ghost'.half = ghost.half, ~Writes(w, t), ~Writes(w, t)',
         db'.objects[t] = db.objects[t], db'.rows[t] = db.rows[t], db'.index[t] = db.index[t],
         \A m \in Message : Trace[m] = t /\ Due(m) => Due(m)'
  PROVE  TraceOK(t)'
<1>1. \A v \in Consumer : Writes(v, t) \/ Writes(v, t)' => con'[v] = con[v]
  BY DEF Others
<1>2. QED
  BY <1>1, TraceKept

LEMMA EraserElsewhere ==
  ASSUME NEW t \in TraceId, TraceOK(t), NEW e \in Eraser, OtherErasers(e), UNCHANGED con, Waiting,
         t \in ghost.half => t \in ghost'.half, era[e].trace # t, era'[e].trace # t,
         db'.objects[t] = db.objects[t], db'.rows[t] = db.rows[t], db'.index[t] = db.index[t]
  PROVE  TraceOK(t)'
<1>1. \A f \in Eraser : era[f].trace = t \/ era'[f].trace = t => era'[f] = era[f]
  BY DEF OtherErasers
<1>2. \A m \in Message : Trace[m] = t /\ Due(m) => Due(m)'
  BY DueOnErase
<1>3. \A w \in Consumer : con'[w] = con[w]
  OBVIOUS
<1>4. QED
  BY <1>1, <1>2, <1>3, TraceKept

LEMMA TracesOnPublish ==
  ASSUME IInv, NEW m \in Message, Publish(m)
  PROVE  TracesOK'
<1> SUFFICES ASSUME NEW t \in TraceId, t \notin ghost'.crossed PROVE TraceOK(t)'
  BY DEF TracesOK
<1>1. TraceOK(t) /\ Shape
  BY PublishEffect DEF IInv, TracesOK
<1>2. Stored /\ UNCHANGED <<con, era>> /\ ghost'.half = ghost.half
  BY <1>1, PublishEffect
<1>3. \A n \in Message : Due(n) => Due(n)'
  BY <1>1, DueOnPublish
<1>4. QED
  BY <1>1, <1>2, <1>3, TraceKept DEF Stored

\* A consumer between two messages has no trace in hand.
LEMMA TracesBetween ==
  ASSUME IInv, NEW w \in Consumer,
         FilterUnseen(w) \/ Acknowledge(w) \/ (\E B \in SUBSET db.queue : Receive(w, B))
  PROVE  TracesOK'
<1>1. Shape /\ ProcessesOK /\ ConsumerOK(w)
  BY DEF IInv, ProcessesOK
<1>2. /\ Stored /\ UNCHANGED <<era, ghost>> /\ Others(w)
      /\ con[w].pc \in {"filter", "next", "idle"}
      /\ con'[w].m = con[w].m \/ con'[w].m = None
  BY <1>1, FilterEffect, AcknowledgeEffect, ReceiveEffect DEF Stored, Free
<1>3. con[w].m = None /\ con'[w].m = None
  BY <1>1, <1>2 DEF ConsumerOK, Busy
<1>4. \A n \in Message : Due(n) => Due(n)'
  BY <1>1, DueOnReceive, DueOnStays, DueOnEnd DEF Stays
<1> SUFFICES ASSUME NEW t \in TraceId, t \notin ghost'.crossed PROVE TraceOK(t)'
  BY DEF TracesOK
<1>5. TraceOK(t)
  BY <1>2 DEF IInv, TracesOK
<1>6. ~Writes(w, t) /\ ~Writes(w, t)'
  BY <1>3 DEF Writes
<1>7. QED
  BY <1>2, <1>4, <1>5, <1>6, ConsumerElsewhere DEF Stored

\* Nothing is touched is what the steps check.
LEMMA TouchingNothing ==
  ASSUME NEW t
  PROVE  Touching(t) = {} <=> Untouched(t)
BY DEF Touching, Writing, Untouched, Writes

LEMMA TracesOnTake ==
  ASSUME IInv, NEW w \in Consumer, NEW m \in Message, Take(w, m)
  PROVE  TracesOK'
<1>1. Shape /\ ProcessesOK /\ ConsumerOK(w) /\ m # None
  BY TracesAssumption DEF IInv, ProcessesOK
<1>2. /\ UNCHANGED <<db, era>> /\ Others(w) /\ History
      /\ con[w].pc = "next" /\ con'[w].pc = "put" /\ con'[w].m = m
      /\ ghost.crossed \subseteq ghost'.crossed
      /\ Trace[m] \notin ghost'.crossed => Touching(Trace[m]) = {}
  BY <1>1, TakeEffect
<1>3. con[w].m = None
  BY <1>1, <1>2 DEF ConsumerOK, Busy
<1>4. \A n \in Message : Due(n) => Due(n)'
  BY <1>1, DueOnStays DEF Stays
<1> SUFFICES ASSUME NEW t \in TraceId, t \notin ghost'.crossed PROVE TraceOK(t)'
  BY DEF TracesOK
<1>5. TraceOK(t)
  BY <1>2 DEF IInv, TracesOK
<1>6. CASE Trace[m] # t
  <2>1. ~Writes(w, t) /\ ~Writes(w, t)'
    BY <1>2, <1>3, <1>6 DEF Writes
  <2>2. QED
    BY <1>2, <1>4, <1>5, <2>1, ConsumerElsewhere DEF History
<1>7. CASE Trace[m] = t
  <2>1. Untouched(t)
    BY <1>2, <1>7, TouchingNothing
  <2>2. Writes(w, t)' /\ \A v \in Consumer : Writes(v, t)' => v = w
    BY <1>1, <1>2, <1>7, <2>1 DEF Writes, Untouched, Others
  <2>3. \A e \in Eraser : era'[e].trace # t
    BY <1>2, <2>1 DEF Untouched
  <2>4. Progress(w)'
    BY <1>2 DEF Progress
  <2>5. Kept(t)' /\ (db'.rows[t] = NoRow => db'.index[t] = {})
    BY <1>2, <1>4, <1>5 DEF TraceOK, Kept
  <2>6. QED
    BY <2>2, <2>3, <2>4, <2>5 DEF TraceOK, Alone, Untouched
<1>8. QED
  BY <1>6, <1>7

\* The trace a consumer has in hand, after a step that leaves it in hand.
LEMMA OwnTrace ==
  ASSUME NEW t \in TraceId, TraceOK(t), NEW w \in Consumer, Writes(w, t), Others(w), UNCHANGED era,
         con'[w].m = con[w].m, Progress(w)', db'.rows[t] = NoRow => db'.index[t] = {}, Kept(t)'
  PROVE  TraceOK(t)'
<1>1. \A v \in Consumer : Writes(v, t)' <=> Writes(v, t)
  BY DEF Writes, Others
<1>2. Alone(t)' /\ ~Untouched(t)'
  BY <1>1 DEF TraceOK, Alone, Untouched
<1>3. \A v \in Consumer : Writes(v, t)' => v = w
  BY <1>1 DEF TraceOK, Alone
<1>4. \A e \in Eraser : era'[e].trace # t
  BY DEF TraceOK, Alone
<1>5. QED
  BY <1>2, <1>3, <1>4 DEF TraceOK

LEMMA TracesOnPut ==
  ASSUME IInv, NEW w \in Consumer, PutTrace(w)
  PROVE  TracesOK'
<1> DEFINE m == con[w].m
<1>1. Shape /\ ProcessesOK /\ ConsumerOK(w)
  BY DEF IInv, ProcessesOK
<1>2. /\ UNCHANGED <<era, ghost>> /\ Others(w) /\ Waiting
      /\ con[w].pc = "put" /\ con'[w].pc = "save" /\ con'[w].m = m
      /\ db'.rows = db.rows /\ db'.index = db.index
      /\ db'.objects = [db.objects EXCEPT ![Trace[m]] =
           [db.objects[Trace[m]] EXCEPT ![Day[m]] = SpanSet(m)]]
  BY <1>1, PutEffect
<1>3. m \in Message /\ Trace[m] \in TraceId /\ Day[m] \in Days /\ m # None /\ m \in con[w].batch
  BY <1>1, <1>2, InHand DEF Busy, ConsumerOK
<1>4. \A n \in Message : Due(n) => Due(n)'
  BY <1>1, DueOnStays DEF Stays
<1> SUFFICES ASSUME NEW t \in TraceId, t \notin ghost'.crossed PROVE TraceOK(t)'
  BY DEF TracesOK
<1>5. TraceOK(t)
  BY <1>2 DEF IInv, TracesOK
<1>6. CASE Trace[m] # t
  <2>1. ~Writes(w, t) /\ ~Writes(w, t)'
    BY <1>2, <1>6 DEF Writes
  <2>2. db'.objects[t] = db.objects[t]
    BY <1>1, <1>2, <1>6 DEF Shape, StoreOK
  <2>3. QED
    BY <1>2, <1>4, <1>5, <2>1, <2>2, ConsumerElsewhere
<1>7. CASE Trace[m] = t
  <2>1. Writes(w, t)
    BY <1>3, <1>7 DEF Writes
  <2>2. /\ db'.objects[t][Day[m]] = SpanSet(m)
        /\ \A d \in Days \ {Day[m]} : db'.objects[t][d] = db.objects[t][d]
    BY <1>1, <1>2, <1>3, <1>7 DEF Shape, StoreOK
  <2>3. Progress(w)'
    BY <1>2, <1>7, <2>2 DEF Progress
  <2>4. ASSUME NEW n \in Message, n = m PROVE Due(n)'
    BY <1>2, <2>4 DEF Due, DueAt
  <2>5. ASSUME NEW d \in Days, db'.objects[t][d] # {}
        PROVE  d = db'.rows[t].day \/ \E n \in Message : Trace[n] = t /\ Day[n] = d /\ Due(n)'
    <3>1. CASE d = Day[m]
      BY <1>3, <1>7, <2>4, <3>1
    <3>2. CASE d # Day[m]
      BY <1>2, <1>4, <1>5, <2>2, <2>5, <3>2 DEF TraceOK, Kept
    <3>3. QED
      BY <3>1, <3>2
  <2>6. Kept(t)'
    BY <2>5 DEF Kept
  <2>7. db'.rows[t] = NoRow => db'.index[t] = {}
    BY <1>2, <1>5 DEF TraceOK
  <2>8. QED
    BY <1>2, <1>5, <2>1, <2>3, <2>6, <2>7, OwnTrace
<1>8. QED
  BY <1>6, <1>7

LEMMA TracesOnSave ==
  ASSUME IInv, NEW w \in Consumer, SaveTrace(w)
  PROVE  TracesOK'
<1> DEFINE m == con[w].m
<1>1. Shape /\ ProcessesOK /\ ConsumerOK(w)
  BY DEF IInv, ProcessesOK
<1>2. /\ UNCHANGED era /\ Others(w) /\ Waiting /\ History
      /\ con[w].pc = "save" /\ con'[w].pc = "index" /\ con'[w].at = 1 /\ con'[w].m = m
      /\ db'.objects = db.objects /\ db'.index = db.index
      /\ db'.rows = [db.rows EXCEPT ![Trace[m]] = [day |-> Day[m], count |-> Len(Spans[m])]]
      /\ ghost.crossed \subseteq ghost'.crossed
      /\ Trace[m] \notin ghost'.crossed => db.rows[Trace[m]].day \in {None, Day[m]}
  BY <1>1, SaveEffect
<1>3. m \in Message /\ Trace[m] \in TraceId /\ Day[m] \in Days /\ m # None
  BY <1>1, <1>2, InHand DEF Busy, ConsumerOK
<1>4. \A n \in Message : Due(n) => Due(n)'
  BY <1>1, DueOnStays DEF Stays
<1> SUFFICES ASSUME NEW t \in TraceId, t \notin ghost'.crossed PROVE TraceOK(t)'
  BY DEF TracesOK
<1>5. TraceOK(t)
  BY <1>2 DEF IInv, TracesOK
<1>6. CASE Trace[m] # t
  <2>1. ~Writes(w, t) /\ ~Writes(w, t)'
    BY <1>2, <1>6 DEF Writes
  <2>2. db'.rows[t] = db.rows[t]
    BY <1>1, <1>2, <1>6 DEF Shape, StoreOK
  <2>3. QED
    BY <1>2, <1>4, <1>5, <2>1, <2>2, ConsumerElsewhere DEF History
<1>7. CASE Trace[m] = t
  <2>1. Writes(w, t)
    BY <1>3, <1>7 DEF Writes
  <2>2. db'.rows[t] = [day |-> Day[m], count |-> Len(Spans[m])]
    BY <1>1, <1>2, <1>3, <1>7 DEF Shape, StoreOK
  <2>3. db'.rows[t].day = Day[m] /\ db'.rows[t] # NoRow
    <3>1. db'.rows[t].day = Day[m] /\ NoRow.day = None
      BY <2>2 DEF NoRow
    <3>2. QED
      BY <1>3, <3>1, TracesAssumption
  <2>4. Progress(w)'
    <3>1. db.objects[t][Day[m]] = SpanSet(m)
      BY <1>2, <1>5, <1>7, <2>1 DEF TraceOK, Progress
    <3>2. Indexed(w)' = 0
      BY <1>2 DEF Indexed
    <3>3. Ids(m, 0) = {}
      BY DEF Ids
    <3>4. QED
      BY <1>2, <1>7, <2>2, <3>1, <3>2, <3>3 DEF Progress
  <2>5. ASSUME NEW d \in Days, db'.objects[t][d] # {}
        PROVE  d = db'.rows[t].day \/ \E n \in Message : Trace[n] = t /\ Day[n] = d /\ Due(n)'
    <3>1. \/ d = db.rows[t].day
          \/ \E n \in Message : Trace[n] = t /\ Day[n] = d /\ Due(n)
      BY <1>2, <1>5, <2>5 DEF TraceOK, Kept
    <3>2. d = db.rows[t].day => d = Day[m]
      BY <1>2, <1>7, TracesAssumption
    <3>3. QED
      BY <1>4, <2>3, <3>1, <3>2
  <2>6. Kept(t)'
    BY <2>5 DEF Kept
  <2>7. QED
    BY <1>2, <1>5, <2>1, <2>3, <2>4, <2>6, OwnTrace
<1>8. QED
  BY <1>6, <1>7

LEMMA TracesOnIndex ==
  ASSUME IInv, NEW w \in Consumer, IndexSpan(w)
  PROVE  TracesOK'
<1> DEFINE m == con[w].m
<1>1. Shape /\ ProcessesOK /\ ConsumerOK(w)
  BY DEF IInv, ProcessesOK
<1>2. /\ UNCHANGED <<era, ghost>> /\ Others(w) /\ Waiting
      /\ con[w].pc = "index" /\ con'[w].m = m
      /\ \/ con'[w].pc = "index" /\ con'[w].at = con[w].at + 1 /\ con[w].at < Len(Spans[m])
         \/ con'[w].pc = "apm" /\ con'[w].at = 1 /\ con[w].at >= Len(Spans[m])
      /\ db'.objects = db.objects /\ db'.rows = db.rows
      /\ db'.index = [db.index EXCEPT ![Trace[m]] = db.index[Trace[m]] \union {Current(w).id}]
  BY <1>1, IndexEffect
<1>3. m \in Message /\ Trace[m] \in TraceId /\ Day[m] \in Days /\ m # None
      /\ Len(Spans[m]) \in Nat
  BY <1>1, <1>2, InHand DEF Busy, ConsumerOK
<1>4. \A n \in Message : Due(n) => Due(n)'
  BY <1>1, DueOnStays DEF Stays
<1> SUFFICES ASSUME NEW t \in TraceId, t \notin ghost'.crossed PROVE TraceOK(t)'
  BY DEF TracesOK
<1>5. TraceOK(t)
  BY <1>2 DEF IInv, TracesOK
<1>6. CASE Trace[m] # t
  <2>1. ~Writes(w, t) /\ ~Writes(w, t)'
    BY <1>2, <1>6 DEF Writes
  <2>2. db'.index[t] = db.index[t]
    BY <1>1, <1>2, <1>6 DEF Shape, StoreOK
  <2>3. QED
    BY <1>2, <1>4, <1>5, <2>1, <2>2, ConsumerElsewhere
<1>7. CASE Trace[m] = t
  <2>1. Writes(w, t)
    BY <1>3, <1>7 DEF Writes
  <2>2. db'.index[t] = db.index[t] \union {Spans[m][con[w].at].id}
    BY <1>1, <1>2, <1>3, <1>7 DEF Shape, StoreOK, Current
  <2>3. /\ db.objects[t][Day[m]] = SpanSet(m)
        /\ db.rows[t] = [day |-> Day[m], count |-> Len(Spans[m])]
        /\ Ids(m, con[w].at - 1) \subseteq db.index[t]
    BY <1>2, <1>5, <1>7, <2>1 DEF TraceOK, Progress, Indexed
  <2>4. Ids(m, con[w].at) \subseteq db'.index[t] /\ con[w].at \in 1 .. Len(Spans[m])
    <3>1. con[w].at \in 1 .. Len(Spans[m])
      BY <1>1, <1>2 DEF ConsumerOK, Numbered
    <3>2. \A i \in 1 .. con[w].at : i = con[w].at \/ i \in 1 .. (con[w].at - 1)
      BY <1>3, <3>1
    <3>3. QED
      BY <2>2, <2>3, <3>1, <3>2 DEF Ids
  <2>5. Indexed(w)' = con[w].at
    <3>1. CASE con'[w].pc = "index"
      BY <1>2, <2>4, <3>1 DEF Indexed
    <3>2. CASE con'[w].pc = "apm"
      BY <1>2, <1>3, <2>4, <3>2 DEF Indexed
    <3>3. QED
      BY <1>2, <3>1, <3>2
  <2>6. Progress(w)'
    BY <1>2, <1>7, <2>3, <2>4, <2>5 DEF Progress
  <2>7. db'.rows[t] # NoRow
    <3>1. db'.rows[t].day = Day[m] /\ NoRow.day = None
      BY <1>2, <2>3 DEF NoRow
    <3>2. QED
      BY <1>3, <3>1, TracesAssumption
  <2>8. Kept(t)'
    BY <1>2, <1>4, <1>5 DEF TraceOK, Kept
  <2>9. QED
    BY <1>2, <1>5, <2>1, <2>6, <2>7, <2>8, OwnTrace
<1>8. QED
  BY <1>6, <1>7

LEMMA TracesOnCount ==
  ASSUME IInv, NEW w \in Consumer, Counts(w)
  PROVE  TracesOK'
<1>1. Shape /\ ProcessesOK /\ ConsumerOK(w)
  BY DEF IInv, ProcessesOK
<1>2. /\ UNCHANGED era /\ Others(w) /\ Waiting /\ Stored /\ History /\ ghost'.crossed = ghost.crossed
      /\ con[w].pc \in {"apm", "count", "edge"} /\ con'[w].m = con[w].m
      /\ con'[w].pc \in {"apm", "count", "edge", "remember"}
  BY <1>1, CountEffect
<1>3. \A n \in Message : Due(n) => Due(n)'
  BY <1>1, DueOnStays DEF Stays
<1> SUFFICES ASSUME NEW t \in TraceId, t \notin ghost'.crossed PROVE TraceOK(t)'
  BY DEF TracesOK
<1>4. TraceOK(t)
  BY <1>2 DEF IInv, TracesOK
<1>5. CASE ~Writes(w, t)
  <2>1. ~Writes(w, t)'
    BY <1>2, <1>5 DEF Writes
  <2>2. QED
    BY <1>2, <1>3, <1>4, <1>5, <2>1, ConsumerElsewhere DEF History, Stored
<1>6. CASE Writes(w, t)
  <2>1. Progress(w)
    BY <1>4, <1>6 DEF TraceOK
  <2>2. Indexed(w)' = Indexed(w)
    BY <1>2 DEF Indexed
  <2>3. Progress(w)'
    BY <1>2, <2>1, <2>2 DEF Progress, Stored
  <2>4. Kept(t)' /\ (db'.rows[t] = NoRow => db'.index[t] = {})
    BY <1>2, <1>3, <1>4 DEF TraceOK, Kept, Stored
  <2>5. QED
    BY <1>2, <1>4, <1>6, <2>3, <2>4, OwnTrace
<1>7. QED
  BY <1>5, <1>6

\* No span is twice in a message: the row counts the spans of the object.
LEMMA SpansAreCounted ==
  ASSUME NEW m \in Message
  PROVE  Cardinality(SpanSet(m)) = Len(Spans[m])
<1> DEFINE n == Len(Spans[m])
           f == [i \in 1 .. n |-> Spans[m][i]]
<1>1. n \in Nat
  BY TracesAssumption
<1>2. f \in Bijection(1 .. n, SpanSet(m))
  <2>1. f \in [1 .. n -> SpanSet(m)]
    BY DEF SpanSet
  <2>2. \A i, j \in 1 .. n : f[i] = f[j] => i = j
    BY SpansAssumption
  <2>3. \A s \in SpanSet(m) : \E i \in 1 .. n : f[i] = s
    BY DEF SpanSet
  <2> HIDE DEF f, n
  <2>4. f \in Injection(1 .. n, SpanSet(m)) /\ f \in Surjection(1 .. n, SpanSet(m))
    BY <2>1, <2>2, <2>3 DEF Injection, IsInjective, Surjection
  <2>5. QED
    BY <2>4 DEF Bijection
<1>3. ExistsBijection(1 .. n, SpanSet(m))
  BY <1>2 DEF ExistsBijection
<1>4. Cardinality(1 .. n) = n /\ IsFiniteSet(1 .. n)
  BY <1>1, FS_Interval
<1>5. Cardinality(SpanSet(m)) = Cardinality(1 .. n)
  BY <1>3, <1>4, FS_Bijection
<1>6. QED
  BY <1>4, <1>5

LEMMA TracesOnRemember ==
  ASSUME IInv, NEW w \in Consumer, Remember(w)
  PROVE  TracesOK'
<1> DEFINE m == con[w].m
<1>1. Shape /\ ProcessesOK /\ ConsumerOK(w)
  BY DEF IInv, ProcessesOK
<1>2. /\ UNCHANGED <<era, ghost>> /\ Others(w) /\ Stored
      /\ con[w].pc = "remember" /\ con'[w].m = None
  BY <1>1, RememberEffect
<1>3. m \in Message /\ Trace[m] \in TraceId /\ Day[m] \in Days /\ m # None
  BY <1>1, <1>2, InHand DEF Busy, ConsumerOK
<1>4. \A n \in Message \ {m} : Due(n) => Due(n)'
  BY <1>1, DueOnRemember
<1> SUFFICES ASSUME NEW t \in TraceId, t \notin ghost'.crossed PROVE TraceOK(t)'
  BY DEF TracesOK
<1>5. TraceOK(t)
  BY <1>2 DEF IInv, TracesOK
<1>6. ~Writes(w, t)'
  BY <1>2 DEF Writes
<1>7. CASE Trace[m] # t
  <2>1. ~Writes(w, t)
    BY <1>7 DEF Writes
  <2>2. \A n \in Message : Trace[n] = t /\ Due(n) => Due(n)'
    BY <1>4, <1>7
  <2>3. QED
    BY <1>2, <1>5, <1>6, <2>1, <2>2, ConsumerElsewhere DEF Stored
<1>8. CASE Trace[m] = t
  <2>1. Writes(w, t)
    BY <1>3, <1>8 DEF Writes
  <2>2. \A v \in Consumer : ~Writes(v, t)'
    BY <1>2, <1>5, <1>6, <2>1 DEF TraceOK, Alone, Writes, Others
  <2>3. \A e \in Eraser : era'[e].trace # t
    BY <1>2, <1>5, <2>1 DEF TraceOK, Alone
  <2>4. /\ db.objects[t][Day[m]] = SpanSet(m)
        /\ db.rows[t] = [day |-> Day[m], count |-> Len(Spans[m])]
        /\ Ids(m, Len(Spans[m])) \subseteq db.index[t]
    BY <1>2, <1>5, <1>8, <2>1 DEF TraceOK, Progress, Indexed
  <2>5. db.rows[t].day = Day[m] /\ db.rows[t].count = Len(Spans[m])
    BY <2>4
  <2>6. db.rows[t] # NoRow
    <3>1. NoRow.day = None
      BY DEF NoRow
    <3>2. QED
      BY <1>3, <2>5, <3>1, TracesAssumption
  <2>7. Clean(t)
    <3>1. Cardinality(SpanSet(m)) = Len(Spans[m])
      BY <1>3, SpansAreCounted
    <3>2. {s.id : s \in SpanSet(m)} \subseteq db.index[t]
      BY <2>4 DEF SpanSet, Ids
    <3>3. QED
      BY <2>4, <2>5, <2>6, <3>1, <3>2 DEF Clean
  <2>8. Clean(t)'
    BY <1>2, <2>7 DEF Clean, Stored
  <2>9. Kept(t)'
    <3>1. ASSUME NEW d \in Days, db.objects[t][d] # {}
          PROVE  d = db.rows[t].day \/ \E n \in Message : Trace[n] = t /\ Day[n] = d /\ Due(n)'
      <4>1. \/ d = db.rows[t].day
            \/ \E n \in Message : Trace[n] = t /\ Day[n] = d /\ Due(n)
        BY <1>5, <3>1 DEF TraceOK, Kept
      <4>2. QED
        BY <1>4, <2>5, <4>1
    <3>2. QED
      BY <1>2, <3>1 DEF Kept, Stored
  <2>10. db'.rows[t] # NoRow
    BY <1>2, <2>6 DEF Stored
  <2>11. QED
    BY <2>2, <2>3, <2>8, <2>9, <2>10 DEF TraceOK, Alone
<1>9. QED
  BY <1>7, <1>8

\* A step that throws leaves its message due, and its trace with nobody.
LEMMA TracesOnThrow ==
  ASSUME IInv, NEW w \in Consumer, Throws(w)
  PROVE  TracesOK'
<1> DEFINE m == con[w].m
<1>1. Shape /\ ProcessesOK /\ ConsumerOK(w)
  BY DEF IInv, ProcessesOK
<1>2. /\ UNCHANGED <<era, ghost>> /\ Others(w) /\ Stored /\ con'[w] = Free
  BY <1>1, ThrowsEffect
<1>3. \A n \in Message : Due(n) => Due(n)'
  BY <1>1, DueOnEnd
<1> SUFFICES ASSUME NEW t \in TraceId, t \notin ghost'.crossed PROVE TraceOK(t)'
  BY DEF TracesOK
<1>4. TraceOK(t)
  BY <1>2 DEF IInv, TracesOK
<1>5. ~Writes(w, t)'
  BY <1>2 DEF Writes, Free
<1>6. CASE ~Writes(w, t)
  BY <1>2, <1>3, <1>4, <1>5, <1>6, ConsumerElsewhere DEF Stored
<1>7. CASE Writes(w, t)
  <2>1. \A v \in Consumer : ~Writes(v, t)'
    BY <1>2, <1>4, <1>5, <1>7 DEF TraceOK, Alone, Writes, Others
  <2>2. \A e \in Eraser : era'[e].trace # t
    BY <1>2, <1>4, <1>7 DEF TraceOK, Alone
  <2>3. m \in Message /\ Trace[m] = t /\ Due(m)
    BY <1>1, <1>7 DEF Writes, Due, DueAt, Shape
  <2>4. DueOf(t)'
    BY <1>3, <2>3 DEF DueOf
  <2>5. Kept(t)' /\ (db'.rows[t] = NoRow => db'.index[t] = {})
    BY <1>2, <1>3, <1>4 DEF TraceOK, Kept, Stored
  <2>6. QED
    BY <2>1, <2>2, <2>4, <2>5 DEF TraceOK, Alone
<1>8. QED
  BY <1>6, <1>7

-----------------------------------------------------------------------------
(* The steps of an eraser.                                                 *)

LEMMA TracesOnList ==
  ASSUME IInv, NEW e \in Eraser, NEW u \in TraceId, ListTrace(e, u)
  PROVE  TracesOK'
<1>1. Shape /\ EraserOK(e)
  BY DEF IInv, ProcessesOK
<1>2. /\ UNCHANGED <<db, con>> /\ OtherErasers(e) /\ History
      /\ era[e].pc = "idle" /\ db.rows[u] # NoRow
      /\ ghost.crossed \subseteq ghost'.crossed
      /\ u \notin ghost'.crossed => Touching(u) = {}
  BY <1>1, ListEffect
<1>3. era'[e].pc = "object" /\ era'[e].trace = u /\ era'[e].day = db.rows[u].day
  <2>1. era'[e] = [pc |-> "object", trace |-> u, day |-> db.rows[u].day]
    BY <1>1, ListEffect
  <2>2. QED
    BY <2>1
<1>4. era[e].trace = None
  BY <1>1, <1>2 DEF EraserOK, Resting
<1> SUFFICES ASSUME NEW t \in TraceId, t \notin ghost'.crossed PROVE TraceOK(t)'
  BY DEF TracesOK
<1>5. TraceOK(t)
  BY <1>2 DEF IInv, TracesOK
<1>6. CASE t # u
  <2>1. era[e].trace # t /\ era'[e].trace # t
    BY <1>3, <1>4, <1>6, TracesAssumption
  <2>2. QED
    BY <1>2, <1>5, <2>1, EraserElsewhere DEF History, Waiting
<1>7. CASE t = u
  <2>1. Untouched(t)
    BY <1>2, <1>7, TouchingNothing
  <2>2. \A w \in Consumer : ~Writes(w, t)'
    BY <1>2, <2>1 DEF Untouched, Writes
  <2>3. era'[e].trace = t /\ \A f \in Eraser : era'[f].trace = t => f = e
    BY <1>2, <1>3, <1>7, <2>1 DEF Untouched, OtherErasers
  <2>4. Erased(e)'
    BY <1>2, <1>3, <1>7 DEF Erased
  <2>5. Kept(t)' /\ (db'.rows[t] = NoRow => db'.index[t] = {})
    <3>1. \A n \in Message : Due(n) => Due(n)'
      BY <1>2, DueOnErase DEF Waiting
    <3>2. QED
      BY <1>2, <1>5, <3>1 DEF TraceOK, Kept
  <2>6. QED
    BY <2>2, <2>3, <2>4, <2>5 DEF TraceOK, Alone, Untouched
<1>8. QED
  BY <1>6, <1>7

\* The trace an eraser has in hand, after a step that leaves it in hand.
LEMMA OwnErasure ==
  ASSUME NEW t \in TraceId, TraceOK(t), NEW e \in Eraser, era[e].trace = t, OtherErasers(e),
         UNCHANGED con, era'[e].trace = t, Erased(e)', db'.rows[t] = NoRow => db'.index[t] = {},
         Kept(t)'
  PROVE  TraceOK(t)'
<1>1. \A f \in Eraser : era'[f].trace = t => f = e
  BY DEF OtherErasers, TraceOK, Alone
<1>2. \A w \in Consumer : ~Writes(w, t)'
  BY DEF TraceOK, Alone, Writes
<1>3. QED
  BY <1>1, <1>2 DEF TraceOK, Alone, Untouched

LEMMA TracesOnDeleteObject ==
  ASSUME IInv, NEW e \in Eraser, DeleteObject(e)
  PROVE  TracesOK'
<1>1. Shape /\ EraserOK(e)
  BY DEF IInv, ProcessesOK
<1>2. /\ UNCHANGED <<con, ghost>> /\ OtherErasers(e) /\ Waiting
      /\ era[e].pc = "object" /\ era'[e].pc = "spans"
      /\ era'[e].trace = era[e].trace /\ era'[e].day = era[e].day
      /\ db'.rows = db.rows /\ db'.index = db.index
      /\ db'.objects = [db.objects EXCEPT ![era[e].trace] =
           [db.objects[era[e].trace] EXCEPT ![era[e].day] = {}]]
  BY <1>1, DeleteObjectEffect
<1>3. era[e].trace \in TraceId /\ era[e].day \in Days
  BY <1>1, <1>2 DEF EraserOK
<1> SUFFICES ASSUME NEW t \in TraceId, t \notin ghost'.crossed PROVE TraceOK(t)'
  BY DEF TracesOK
<1>4. TraceOK(t)
  BY <1>2 DEF IInv, TracesOK
<1>5. CASE era[e].trace # t
  <2>1. db'.objects[t] = db.objects[t]
    BY <1>1, <1>2, <1>5 DEF Shape, StoreOK
  <2>2. QED
    BY <1>2, <1>4, <1>5, <2>1, EraserElsewhere
<1>6. CASE era[e].trace = t
  <2>1. /\ db'.objects[t][era[e].day] = {}
        /\ \A d \in Days \ {era[e].day} : db'.objects[t][d] = db.objects[t][d]
    BY <1>1, <1>2, <1>3, <1>6 DEF Shape, StoreOK
  <2>2. Erased(e)'
    BY <1>2, <1>4, <1>6, <2>1 DEF TraceOK, Erased
  <2>3. \A n \in Message : Due(n) => Due(n)'
    BY <1>2, DueOnErase
  <2>4. Kept(t)'
    <3>1. \A d \in Days : db'.objects[t][d] # {} => db.objects[t][d] # {}
      BY <2>1
    <3>2. QED
      BY <1>2, <1>4, <2>3, <3>1 DEF TraceOK, Kept
  <2>5. db'.rows[t] = NoRow => db'.index[t] = {}
    BY <1>2, <1>4 DEF TraceOK
  <2>6. QED
    BY <1>2, <1>4, <1>6, <2>2, <2>4, <2>5, OwnErasure
<1>7. QED
  BY <1>5, <1>6

LEMMA TracesOnDeleteSpans ==
  ASSUME IInv, NEW e \in Eraser, DeleteSpans(e)
  PROVE  TracesOK'
<1>1. Shape /\ EraserOK(e)
  BY DEF IInv, ProcessesOK
<1>2. /\ UNCHANGED <<con, ghost>> /\ OtherErasers(e) /\ Waiting
      /\ era[e].pc = "spans" /\ era'[e].pc = "row"
      /\ era'[e].trace = era[e].trace /\ era'[e].day = era[e].day
      /\ db'.rows = db.rows /\ db'.objects = db.objects
      /\ db'.index = [db.index EXCEPT ![era[e].trace] = {}]
  BY <1>1, DeleteSpansEffect
<1>3. era[e].trace \in TraceId
  BY <1>1, <1>2 DEF EraserOK
<1> SUFFICES ASSUME NEW t \in TraceId, t \notin ghost'.crossed PROVE TraceOK(t)'
  BY DEF TracesOK
<1>4. TraceOK(t)
  BY <1>2 DEF IInv, TracesOK
<1>5. CASE era[e].trace # t
  <2>1. db'.index[t] = db.index[t]
    BY <1>1, <1>2, <1>5 DEF Shape, StoreOK
  <2>2. QED
    BY <1>2, <1>4, <1>5, <2>1, EraserElsewhere
<1>6. CASE era[e].trace = t
  <2>1. db'.index[t] = {}
    BY <1>1, <1>2, <1>3, <1>6 DEF Shape, StoreOK
  <2>2. Erased(e)'
    BY <1>2, <1>4, <1>6, <2>1 DEF TraceOK, Erased
  <2>3. \A n \in Message : Due(n) => Due(n)'
    BY <1>2, DueOnErase
  <2>4. Kept(t)'
    BY <1>2, <1>4, <2>3 DEF TraceOK, Kept
  <2>5. QED
    BY <1>2, <1>4, <1>6, <2>1, <2>2, <2>4, OwnErasure
<1>7. QED
  BY <1>5, <1>6

\* The row goes last: no object is left but of a message that is due.
LEMMA TracesOnDeleteRow ==
  ASSUME IInv, NEW e \in Eraser, DeleteRow(e)
  PROVE  TracesOK'
<1>1. Shape /\ EraserOK(e)
  BY DEF IInv, ProcessesOK
<1>2. /\ UNCHANGED con /\ OtherErasers(e) /\ Waiting
      /\ era[e].pc = "row" /\ era'[e] = Resting
      /\ db'.index = db.index /\ db'.objects = db.objects
      /\ db'.rows = [db.rows EXCEPT ![era[e].trace] = NoRow]
      /\ ghost'.crossed = ghost.crossed /\ ghost'.half = ghost.half \ {era[e].trace}
  BY <1>1, DeleteRowEffect
<1>3. era[e].trace \in TraceId /\ era'[e].trace = None
  BY <1>1, <1>2 DEF EraserOK, Resting
<1>4. \A n \in Message : Due(n) => Due(n)'
  BY <1>2, DueOnErase
<1> SUFFICES ASSUME NEW t \in TraceId, t \notin ghost'.crossed PROVE TraceOK(t)'
  BY DEF TracesOK
<1>5. TraceOK(t) /\ t # None
  BY <1>2, TracesAssumption DEF IInv, TracesOK
<1>6. CASE era[e].trace # t
  <2>1. db'.rows[t] = db.rows[t]
    BY <1>1, <1>2, <1>6 DEF Shape, StoreOK
  <2>2. t \in ghost.half => t \in ghost'.half
    BY <1>2, <1>6
  <2>3. era'[e].trace # t
    BY <1>3, <1>5
  <2>4. QED
    BY <1>2, <1>5, <1>6, <2>1, <2>2, <2>3, EraserElsewhere
<1>7. CASE era[e].trace = t
  <2>1. db'.rows[t] = NoRow
    BY <1>1, <1>2, <1>3, <1>7 DEF Shape, StoreOK
  <2>2. \A w \in Consumer : ~Writes(w, t)'
    BY <1>2, <1>5, <1>7 DEF TraceOK, Alone, Writes
  <2>3. \A f \in Eraser : era'[f].trace # t
    BY <1>2, <1>3, <1>5, <1>7 DEF TraceOK, Alone, OtherErasers
  <2>4. db.index[t] = {} /\ db.objects[t][db.rows[t].day] = {}
    BY <1>2, <1>5, <1>7 DEF TraceOK, Erased
  <2>5. ASSUME NEW d \in Days, db.objects[t][d] # {}
        PROVE  \E n \in Message : Trace[n] = t /\ Day[n] = d /\ Due(n)'
    BY <1>4, <1>5, <2>4, <2>5 DEF TraceOK, Kept
  <2>6. Kept(t)'
    BY <1>2, <2>5 DEF Kept
  <2>7. Clean(t)' \/ DueOf(t)'
    <3>1. CASE \A d \in Days : db.objects[t][d] = {}
      BY <1>2, <2>1, <2>4, <3>1 DEF Clean
    <3>2. CASE \E d \in Days : db.objects[t][d] # {}
      BY <2>5, <3>2 DEF DueOf
    <3>3. QED
      BY <3>1, <3>2
  <2>8. QED
    BY <1>2, <2>1, <2>2, <2>3, <2>4, <2>6, <2>7 DEF TraceOK, Alone
<1>8. QED
  BY <1>6, <1>7

LEMMA TracesOnEraseThrow ==
  ASSUME IInv, NEW e \in Eraser, EraseThrows(e)
  PROVE  TracesOK'
<1>1. Shape /\ EraserOK(e)
  BY DEF IInv, ProcessesOK
<1>2. /\ UNCHANGED <<db, con>> /\ OtherErasers(e) /\ era'[e] = Resting
      /\ ghost'.crossed = ghost.crossed /\ ghost'.half = ghost.half \union {era[e].trace}
  BY <1>1, EraseThrowsEffect
<1>3. era'[e].trace = None
  BY <1>2 DEF Resting
<1>4. \A n \in Message : Due(n) => Due(n)'
  BY <1>2, DueOnErase DEF Waiting
<1> SUFFICES ASSUME NEW t \in TraceId, t \notin ghost'.crossed PROVE TraceOK(t)'
  BY DEF TracesOK
<1>5. TraceOK(t) /\ era'[e].trace # t
  BY <1>2, <1>3, TracesAssumption DEF IInv, TracesOK
<1>6. CASE era[e].trace # t
  <2>1. t \in ghost.half => t \in ghost'.half
    BY <1>2
  <2>2. QED
    BY <1>2, <1>5, <1>6, <2>1, EraserElsewhere DEF Waiting
<1>7. CASE era[e].trace = t
  <2>1. t \in ghost'.half
    BY <1>2, <1>7
  <2>2. \A w \in Consumer : ~Writes(w, t)'
    BY <1>2, <1>5, <1>7 DEF TraceOK, Alone, Writes
  <2>3. \A f \in Eraser : era'[f].trace # t
    BY <1>2, <1>5, <1>7 DEF TraceOK, Alone, OtherErasers
  <2>4. Kept(t)' /\ (db'.rows[t] = NoRow => db'.index[t] = {})
    BY <1>2, <1>4, <1>5 DEF TraceOK, Kept
  <2>5. QED
    BY <2>1, <2>2, <2>3, <2>4 DEF TraceOK, Alone
<1>8. QED
  BY <1>6, <1>7

-----------------------------------------------------------------------------
(* The invariant, and what it says of a trace nothing is under way for.    *)

LEMMA InitIInv == Init => IInv
<1> SUFFICES ASSUME Init PROVE IInv
  OBVIOUS
<1>1. /\ db.queue = {} /\ db.dedup = {}
      /\ db.objects = [t \in TraceId |-> [d \in Days |-> {}]]
      /\ db.rows = [t \in TraceId |-> NoRow] /\ db.index = [t \in TraceId |-> {}]
      /\ DOMAIN db = {"queue", "dedup", "objects", "rows", "index", "requests", "hist", "calls"}
      /\ DOMAIN ghost = {"sent", "raced", "crossed", "half"} /\ ghost.sent = {}
  BY DEF Init
<1>2. con = [w \in Consumer |-> Free] /\ era = [e \in Eraser |-> Resting]
  BY DEF Init
<1>3. NoRow \in [day : Days \union {None}, count : Nat]
  BY DEF NoRow
<1>4. StoreOK
  BY <1>1, <1>3 DEF StoreOK
<1>5. Shape
  BY <1>2, <1>4 DEF Shape, Free, Resting, ConsumerLabel, EraserLabel
<1>6. /\ \A w \in Consumer : con[w] = Free /\ con[w].pc = "idle" /\ con[w].m = None
           /\ con[w].batch = {} /\ con[w].todo = {}
      /\ \A e \in Eraser : era[e] = Resting /\ era[e].pc = "idle" /\ era[e].trace = None
  BY <1>2 DEF Free, Resting
<1>7. ProcessesOK
  BY <1>1, <1>6 DEF ProcessesOK, ConsumerOK, EraserOK, Placed, Busy, Numbered
<1>8. ASSUME NEW t \in TraceId PROVE TraceOK(t)
  <2>1. (\A w \in Consumer : ~Writes(w, t)) /\ \A e \in Eraser : era[e].trace # t
    BY <1>6, TracesAssumption DEF Writes
  <2>2. db.rows[t] = NoRow /\ db.index[t] = {} /\ \A d \in Days : db.objects[t][d] = {}
    BY <1>1
  <2>3. QED
    BY <2>1, <2>2 DEF TraceOK, Alone, Kept, Clean
<1>9. QED
  BY <1>5, <1>7, <1>8 DEF IInv, TracesOK

\* Every action of a consumer and of an eraser keeps the three parts.
LEMMA StepIInv == IInv /\ [Next]_vars => IInv'
<1> SUFFICES ASSUME IInv, [Next]_vars PROVE IInv'
  OBVIOUS
<1>1. Shape /\ ProcessesOK /\ \A w \in Consumer : ConsumerOK(w)
  BY DEF IInv, ProcessesOK
<1>2. \A e \in Eraser : EraserOK(e)
  BY <1>1 DEF ProcessesOK
<1>3. ASSUME NEW m \in Message, Publish(m) PROVE IInv'
  BY <1>1, <1>3, PublishEffect, ProcessesOnPublish, TracesOnPublish DEF IInv
<1>4. ASSUME NEW w \in Consumer, Consume(w) \/ Throws(w) PROVE IInv'
  <2>1. CASE FilterUnseen(w)
    BY <1>1, <2>1, FilterEffect, ProcessesOnBatch, TracesBetween DEF IInv
  <2>2. ASSUME NEW m \in Message, Take(w, m) PROVE IInv'
    BY <1>1, <2>2, TakeEffect, ProcessesOnBatch, TracesOnTake DEF IInv
  <2>3. CASE Acknowledge(w)
    BY <1>1, <2>3, AcknowledgeEffect, ProcessesOnEnd, TracesBetween DEF IInv
  <2>4. CASE PutTrace(w)
    BY <1>1, <2>4, PutEffect, ProcessesOnBatch, TracesOnPut DEF IInv
  <2>5. CASE SaveTrace(w)
    BY <1>1, <2>5, SaveEffect, ProcessesOnBatch, TracesOnSave DEF IInv
  <2>6. CASE IndexSpan(w)
    BY <1>1, <2>6, IndexEffect, ProcessesOnBatch, TracesOnIndex DEF IInv
  <2>7. CASE ReadStats(w) \/ SaveStats(w) \/ CountEdge(w)
    <3>1. Counts(w)
      BY <2>7 DEF Counts
    <3>2. QED
      BY <1>1, <3>1, CountEffect, ProcessesOnBatch, TracesOnCount DEF IInv
  <2>8. CASE Remember(w)
    BY <1>1, <2>8, RememberEffect, ProcessesOnBatch, TracesOnRemember DEF IInv
  <2>9. ASSUME NEW B \in SUBSET db.queue, Receive(w, B) PROVE IInv'
    BY <1>1, <2>9, ReceiveEffect, ProcessesOnReceive, TracesBetween DEF IInv
  <2>10. CASE Throws(w)
    BY <1>1, <2>10, ThrowsEffect, ProcessesOnEnd, TracesOnThrow DEF IInv
  <2>11. QED
    BY <1>4, <2>1, <2>2, <2>3, <2>4, <2>5, <2>6, <2>7, <2>8, <2>9, <2>10 DEF Consume
<1>5. ASSUME NEW e \in Eraser, Erase(e) \/ EraseThrows(e) PROVE IInv'
  <2>1. ProcessesOK'
    BY <1>1, <1>5, ProcessesOnErase
  <2>2. ASSUME NEW t \in TraceId, ListTrace(e, t) PROVE IInv'
    BY <1>1, <2>1, <2>2, ListEffect, TracesOnList DEF IInv
  <2>3. CASE DeleteObject(e)
    BY <1>1, <1>2, <2>1, <2>3, DeleteObjectEffect, TracesOnDeleteObject DEF IInv
  <2>4. CASE DeleteSpans(e)
    BY <1>1, <1>2, <2>1, <2>4, DeleteSpansEffect, TracesOnDeleteSpans DEF IInv
  <2>5. CASE DeleteRow(e)
    BY <1>1, <1>2, <2>1, <2>5, DeleteRowEffect, TracesOnDeleteRow DEF IInv
  <2>6. CASE EraseThrows(e)
    BY <1>1, <1>2, <2>1, <2>6, EraseThrowsEffect, TracesOnEraseThrow DEF IInv
  <2>7. QED
    BY <1>5, <2>2, <2>3, <2>4, <2>5, <2>6 DEF Erase
<1>6. CASE UNCHANGED vars
  <2>1. UNCHANGED <<db, con, era, ghost>>
    BY <1>6 DEF vars
  <2>2. Shape'
    BY <1>1, <2>1 DEF Shape, StoreOK
  <2>3. ProcessesOK'
    BY <1>1, <2>1 DEF ProcessesOK, ConsumerOK, EraserOK, Placed
  <2>4. ASSUME NEW t \in TraceId, t \notin ghost'.crossed PROVE TraceOK(t)'
    <3>1. \A n \in Message : Due(n) => Due(n)'
      BY <2>1, DueOnErase DEF Waiting
    <3>2. TraceOK(t)
      BY <2>1, <2>4 DEF IInv, TracesOK
    <3>3. QED
      BY <2>1, <3>1, <3>2, TraceKept
  <2>5. QED
    BY <2>2, <2>3, <2>4 DEF IInv, TracesOK
<1>7. QED
  BY <1>3, <1>4, <1>5, <1>6 DEF Next

\* What the consumers and the erasers of traces keep, whatever they interleave:
\* the place of each message, what each has written or deleted of its trace, and
\* what a trace in nobody's hand is worth (consumeTrace, the trace block of deletePage).
THEOREM TracesInvariant == Spec => []IInv
BY InitIInv, StepIInv, PTL DEF Spec

LEMMA IInvImplies == IInv => SettledTraceIsStored
<1> SUFFICES ASSUME IInv, NEW t \in TraceId, Settled(t), t \notin ghost.crossed PROVE Clean(t)
  BY DEF SettledTraceIsStored, Clean
<1>1. Untouched(t) /\ t \notin ghost.half
  BY TouchingNothing DEF Settled
<1>2. ASSUME NEW m \in Message, Trace[m] = t, Due(m) PROVE FALSE
  <2>1. m # None /\ \A w \in Consumer : ConsumerOK(w)
    BY TracesAssumption DEF IInv, ProcessesOK
  <2>2. CASE m \in db.queue
    BY <1>2, <2>2 DEF Settled, Pending
  <2>3. ASSUME NEW w \in Consumer, DueAt(w, m) PROVE FALSE
    <3>1. m \in con[w].batch
      BY <2>1, <2>3 DEF DueAt, ConsumerOK
    <3>2. m \in Pending(t)
      BY <1>2, <3>1 DEF Pending
    <3>3. QED
      BY <3>2 DEF Settled
  <2>4. QED
    BY <1>2, <2>2, <2>3 DEF Due
<1>3. QED
  BY <1>1, <1>2 DEF IInv, TracesOK, TraceOK, DueOf

\* A trace that no two consumers or erasers had in hand together is, when nothing is
\* under way for it, stored with its row, its object and its index, or gone with all three:
\* redelivered batches and erasures that throw midway leave no other state behind
\* (consumeTrace in consume.ts, the trace block of deletePage in process.ts).
THEOREM SettledTracesAreStored == Spec => []SettledTraceIsStored
BY TracesInvariant, IInvImplies, PTL


-----------------------------------------------------------------------------
(* The counters of the APM views.  A counter is compared with what the      *)
(* remembered messages stand for together with what the consumers have      *)
(* counted so far of the messages they have in hand.                        *)

\* The spans of a set whose numbers are below n, and how many they are.
Before(S, n) == {i \in S : i < n}
NumberBefore(S, n) == Cardinality(Before(S, n))

LEMMA BeforeFacts ==
  ASSUME NEW L \in Nat, NEW S \in SUBSET (1 .. L), NEW n \in Nat
  PROVE  /\ IsFiniteSet(S) /\ Cardinality(S) \in Nat
         /\ NumberBefore(S, n) \in Nat /\ NumberBefore(S, 1) = 0
         /\ NumberBefore(S, L + 1) = Cardinality(S)
         /\ n \in S => NumberBefore(S, n + 1) = NumberBefore(S, n) + 1
         /\ n \notin S => NumberBefore(S, n + 1) = NumberBefore(S, n)
<1>1. IsFiniteSet(S) /\ IsFiniteSet(Before(S, n))
  <2>1. IsFiniteSet(1 .. L)
    BY FS_Interval
  <2>2. Before(S, n) \subseteq S
    BY DEF Before
  <2>3. QED
    BY <2>1, <2>2, FS_Subset
<1> DEFINE Numbers == \A i \in S : i \in Nat /\ 1 <= i /\ i <= L
<1>0. Numbers
  OBVIOUS
<1>2. Before(S, 1) = {} /\ Before(S, L + 1) = S
  <2>1. \A i \in S : ~(i < 1) /\ i < L + 1
    BY <1>0
  <2>2. QED
    BY <2>1 DEF Before
<1>3. n \in S => Before(S, n + 1) = Before(S, n) \union {n} /\ n \notin Before(S, n)
  <2>1. \A i \in S : (i < n + 1 <=> i < n \/ i = n)
    BY <1>0
  <2>2. ~(n < n)
    OBVIOUS
  <2>3. QED
    BY <2>1, <2>2, Zenon DEF Before
<1>4. n \notin S => Before(S, n + 1) = Before(S, n)
  <2>1. \A i \in S : n \notin S => (i < n + 1 <=> i < n)
    BY <1>0
  <2>2. QED
    BY <2>1, Zenon DEF Before
<1>5. n \in S => Cardinality(Before(S, n) \union {n}) = Cardinality(Before(S, n)) + 1
  BY <1>1, <1>3, FS_AddElement
<1>6. QED
  BY <1>1, <1>2, <1>3, <1>4, <1>5, FS_CardinalityType, FS_EmptySet DEF NumberBefore

\* Labels at which a consumer counts, and the first span it has not counted as
\* a request, or as a call.
Counting == {"apm", "count", "edge", "remember"}
RequestsFrom(w) ==
  IF con[w].pc = "remember" THEN Len(Spans[con[w].m]) + 1
  ELSE IF con[w].pc = "edge" THEN con[w].at + 1 ELSE con[w].at
CallsFrom(w) == IF con[w].pc = "remember" THEN Len(Spans[con[w].m]) + 1 ELSE con[w].at

RequestsDone(e) == [w \in Consumer |->
  IF con[w].pc \in Counting THEN NumberBefore(Roots(con[w].m, e), RequestsFrom(w)) ELSE 0]
CallsDone(e) == [w \in Consumer |->
  IF con[w].pc \in Counting THEN NumberBefore(Calls(con[w].m, e), CallsFrom(w)) ELSE 0]

RootsOf(e) == [m \in Message |-> Cardinality(Roots(m, e))]
CallsOf(e) == [m \in Message |-> Cardinality(Calls(m, e))]

CountersTyped ==
  /\ db.requests \in [Endpoint -> Nat] /\ db.calls \in [Edge -> Nat]
  /\ db.hist \in [Endpoint -> [Bucket -> Nat]]
  /\ IsFiniteSet(db.dedup)
  /\ \A w \in Consumer : con[w].pc = "count" => Current(w).parent = None

Sum(g, S) == SumFunctionOnSet(g, S)

TalliesOK ==
  /\ \A e \in Endpoint :
       db.requests[e] >= Sum(RootsOf(e), db.dedup) + Sum(RequestsDone(e), Consumer)
  /\ \A e \in Edge :
       db.calls[e] >= Sum(CallsOf(e), db.dedup) + Sum(CallsDone(e), Consumer)

\* A histogram that was read holds no more than was counted when it was read.
HistogramsOK ==
  /\ \A e \in Endpoint :
       /\ Sum(db.hist[e], Bucket) <= db.requests[e]
       /\ e \in ghost.raced \/ Sum(db.hist[e], Bucket) = db.requests[e]
  /\ \A w \in Consumer : con[w].pc = "count" =>
       /\ con[w].hist \in [Bucket -> Nat]
       /\ Sum(con[w].hist, Bucket) <= db.requests[EndpointOf(w)]

-----------------------------------------------------------------------------
(* What each step does to the counters.                                     *)

CountersKept == db'.requests = db.requests /\ db'.hist = db.hist /\ db'.calls = db.calls

\* The step is of no consumer, or of one that is not counting afterwards or is
\* about to begin.
Apart ==
  /\ CountersKept /\ db'.dedup = db.dedup /\ ghost'.raced = ghost.raced
  /\ \/ con' = con
     \/ \E w \in Consumer : Others(w) /\ (con'[w].pc \notin Counting \/ (con'[w].pc = "apm" /\ con'[w].at = 1))

LEMMA TakeApart ==
  ASSUME Shape, NEW w \in Consumer, NEW m \in Message, Take(w, m)
  PROVE  Apart
<1>1. db' = db /\ Others(w) /\ con'[w].pc = "put"
  BY TakeEffect
<1>2. ghost'.raced = ghost.raced
  BY DEF Take, Shape, StoreOK
<1>3. QED
  BY <1>1, <1>2 DEF Apart, CountersKept, Counting

LEMMA ConsumersApart ==
  ASSUME Shape, NEW w \in Consumer, ConsumerOK(w),
         \/ FilterUnseen(w) \/ (\E m \in Message : Take(w, m)) \/ Acknowledge(w)
         \/ PutTrace(w) \/ SaveTrace(w) \/ IndexSpan(w) \/ Throws(w)
         \/ \E B \in SUBSET db.queue : Receive(w, B)
  PROVE  Apart
<1> DEFINE Off == Others(w) /\ (con'[w].pc \notin Counting \/ (con'[w].pc = "apm" /\ con'[w].at = 1))
           Rest == CountersKept /\ db'.dedup = db.dedup /\ ghost'.raced = ghost.raced
<1>1. CASE FilterUnseen(w)
  <2>1. Off
    BY <1>1, FilterEffect DEF Counting
  <2>2. Rest
    BY <1>1 DEF FilterUnseen, Only, CountersKept
  <2>3. QED
    BY <2>1, <2>2 DEF Apart
<1>2. ASSUME NEW m \in Message, Take(w, m) PROVE Apart
  BY <1>2, TakeApart
<1>3. CASE Acknowledge(w)
  <2>1. Off
    BY <1>3, AcknowledgeEffect DEF Counting, Free
  <2>2. Rest
    BY <1>3 DEF Acknowledge, Only, CountersKept
  <2>3. QED
    BY <2>1, <2>2 DEF Apart
<1>4. CASE PutTrace(w)
  <2>1. Off
    BY <1>4, PutEffect DEF Counting
  <2>2. Rest
    BY <1>4 DEF PutTrace, Write, Only, CountersKept, Shape, StoreOK
  <2>3. QED
    BY <2>1, <2>2 DEF Apart
<1>5. CASE SaveTrace(w)
  <2>1. Off
    BY <1>5, SaveEffect DEF Counting
  <2>2. Rest
    BY <1>5 DEF SaveTrace, Write, CountersKept, Shape, StoreOK
  <2>3. QED
    BY <2>1, <2>2 DEF Apart
<1>6. CASE IndexSpan(w)
  <2>1. Off
    BY <1>6, IndexEffect DEF Counting
  <2>2. Rest
    BY <1>6 DEF IndexSpan, Write, Only, CountersKept, Shape, StoreOK
  <2>3. QED
    BY <2>1, <2>2 DEF Apart
<1>7. CASE Throws(w)
  <2>1. Off
    BY <1>7, ThrowsEffect DEF Counting, Free
  <2>2. Rest
    BY <1>7 DEF Throws, Write, CountersKept, Shape, StoreOK
  <2>3. QED
    BY <2>1, <2>2 DEF Apart
<1>8. ASSUME NEW B \in SUBSET db.queue, Receive(w, B) PROVE Apart
  <2>1. Off
    BY <1>8, ReceiveEffect DEF Counting
  <2>2. Rest
    <3>1. ghost' = ghost
      BY <1>8 DEF Receive, Only
    <3>2. PICK x : db' = [db EXCEPT !.queue = x]
      BY <1>8 DEF Receive, Write
    <3>3. QED
      BY <3>1, <3>2 DEF CountersKept, Shape, StoreOK
  <2>3. QED
    BY <2>1, <2>2 DEF Apart
<1>9. QED
  BY <1>1, <1>2, <1>3, <1>4, <1>5, <1>6, <1>7, <1>8

LEMMA ErasersApart ==
  ASSUME Shape, NEW e \in Eraser, Erase(e) \/ EraseThrows(e)
  PROVE  Apart
<1>1. con' = con
  BY DEF Erase, DeleteObject, DeleteSpans, DeleteRow, ListTrace, EraseThrows, OnlyErase
<1>2. ghost'.raced = ghost.raced
  BY DEF Erase, DeleteObject, DeleteSpans, DeleteRow, ListTrace, EraseThrows, OnlyErase, Shape, StoreOK
<1>3. CountersKept /\ db'.dedup = db.dedup
  BY DEF Erase, DeleteObject, DeleteSpans, DeleteRow, ListTrace, EraseThrows, Write, CountersKept, Shape, StoreOK
<1>4. QED
  BY <1>1, <1>2, <1>3 DEF Apart

LEMMA PublishApart ==
  ASSUME Shape, NEW m \in Message, Publish(m)
  PROVE  Apart
BY DEF Publish, Write, Apart, CountersKept, Shape, StoreOK

LEMMA ReadStatsEffect ==
  ASSUME Shape, NEW w \in Consumer, ReadStats(w)
  PROVE  /\ UNCHANGED <<db, ghost>> /\ Others(w)
         /\ con[w].pc = "apm" /\ con'[w].m = con[w].m /\ con'[w].at = con[w].at
         /\ \/ Current(w).parent = None /\ con'[w].pc = "count" /\ con'[w].hist = db.hist[EndpointOf(w)]
            \/ Current(w).parent # None /\ con'[w].pc = "edge"
BY DEF ReadStats, At, Only, Goto, Others, Shape

LEMMA SaveStatsEffect ==
  ASSUME Shape, NEW w \in Consumer, SaveStats(w)
  PROVE  /\ Others(w) /\ db'.dedup = db.dedup /\ db'.calls = db.calls
         /\ con[w].pc = "count" /\ con'[w].pc = "edge"
         /\ con'[w].m = con[w].m /\ con'[w].at = con[w].at
         /\ db'.requests = [db.requests EXCEPT ![EndpointOf(w)] = db.requests[EndpointOf(w)] + 1]
         /\ db'.hist = [db.hist EXCEPT ![EndpointOf(w)] = Observed(con[w].hist, Current(w).bucket)]
         /\ ghost.raced \subseteq ghost'.raced
         /\ EndpointOf(w) \in ghost'.raced \/ db.hist[EndpointOf(w)] = con[w].hist
<1>1. Others(w) /\ con[w].pc = "count" /\ con'[w].pc = "edge"
      /\ con'[w].m = con[w].m /\ con'[w].at = con[w].at
  BY DEF SaveStats, At, Goto, Others, Shape
<1>2. /\ db'.dedup = db.dedup /\ db'.calls = db.calls
      /\ db'.requests = [db.requests EXCEPT ![EndpointOf(w)] = db.requests[EndpointOf(w)] + 1]
      /\ db'.hist = [db.hist EXCEPT ![EndpointOf(w)] = Observed(con[w].hist, Current(w).bucket)]
  BY DEF SaveStats, Write, Shape, StoreOK
<1>3. /\ ghost.raced \subseteq ghost'.raced
      /\ EndpointOf(w) \in ghost'.raced \/ db.hist[EndpointOf(w)] = con[w].hist
  BY DEF SaveStats, Shape, StoreOK
<1>4. QED
  BY <1>1, <1>2, <1>3

LEMMA CountEdgeEffect ==
  ASSUME Shape, NEW w \in Consumer, CountEdge(w)
  PROVE  /\ Others(w) /\ db'.dedup = db.dedup /\ ghost' = ghost
         /\ db'.requests = db.requests /\ db'.hist = db.hist
         /\ con[w].pc = "edge" /\ con'[w].m = con[w].m
         /\ \/ con[w].at < Len(Spans[con[w].m]) /\ con'[w].pc = "apm" /\ con'[w].at = con[w].at + 1
            \/ ~(con[w].at < Len(Spans[con[w].m])) /\ con'[w].pc = "remember"
         /\ db'.calls = [e \in Edge |-> IF e \in EdgeOf(con[w].m, Current(w))
                                        THEN db.calls[e] + 1 ELSE db.calls[e]]
<1>1. con[w].pc = "edge" /\ ghost' = ghost
  BY DEF CountEdge, At, Only
<1>2. /\ db'.dedup = db.dedup /\ db'.requests = db.requests /\ db'.hist = db.hist
      /\ db'.calls = [e \in Edge |-> IF e \in EdgeOf(con[w].m, Current(w))
                                     THEN db.calls[e] + 1 ELSE db.calls[e]]
  BY DEF CountEdge, Write, Shape, StoreOK
<1>3. /\ Others(w) /\ con'[w].m = con[w].m
      /\ \/ con[w].at < Len(Spans[con[w].m]) /\ con'[w].pc = "apm" /\ con'[w].at = con[w].at + 1
         \/ ~(con[w].at < Len(Spans[con[w].m])) /\ con'[w].pc = "remember"
  BY DEF CountEdge, Advance, Others, Shape
<1>4. QED
  BY <1>1, <1>2, <1>3

LEMMA RememberCounters ==
  ASSUME Shape, NEW w \in Consumer, ConsumerOK(w), Remember(w)
  PROVE  /\ CountersKept /\ ghost' = ghost /\ Others(w)
         /\ con[w].pc = "remember" /\ con'[w].pc = "next"
         /\ db'.dedup = db.dedup \union {con[w].m}
         /\ con[w].m \in Message \ db.dedup
<1>1. CountersKept /\ ghost' = ghost
  BY DEF Remember, Write, Only, CountersKept, Shape, StoreOK
<1>2. con[w].pc \in Busy /\ con[w].pc = "remember"
  BY DEF Remember, At, Busy
<1>3. QED
  BY <1>1, <1>2, RememberEffect, InHand DEF ConsumerOK

-----------------------------------------------------------------------------
(* How the tallies of the consumers move.                                   *)

LEMMA Marks ==
  ASSUME NEW m \in Message, NEW e
  PROVE  /\ Len(Spans[m]) \in Nat
         /\ Roots(m, e) \in SUBSET (1 .. Len(Spans[m])) /\ Calls(m, e) \in SUBSET (1 .. Len(Spans[m]))
         /\ Cardinality(Roots(m, e)) \in Nat /\ Cardinality(Calls(m, e)) \in Nat
<1>1. /\ Len(Spans[m]) \in Nat
      /\ Roots(m, e) \in SUBSET (1 .. Len(Spans[m])) /\ Calls(m, e) \in SUBSET (1 .. Len(Spans[m]))
  BY TracesAssumption DEF Roots, Calls
<1>2. QED
  BY <1>1, BeforeFacts

LEMMA MarksBefore ==
  ASSUME NEW m \in Message, NEW e, NEW n \in Nat
  PROVE  /\ NumberBefore(Roots(m, e), n) \in Nat /\ NumberBefore(Roots(m, e), 1) = 0
         /\ NumberBefore(Roots(m, e), Len(Spans[m]) + 1) = Cardinality(Roots(m, e))
         /\ n \in Roots(m, e) => NumberBefore(Roots(m, e), n + 1) = NumberBefore(Roots(m, e), n) + 1
         /\ n \notin Roots(m, e) => NumberBefore(Roots(m, e), n + 1) = NumberBefore(Roots(m, e), n)
         /\ NumberBefore(Calls(m, e), n) \in Nat /\ NumberBefore(Calls(m, e), 1) = 0
         /\ NumberBefore(Calls(m, e), Len(Spans[m]) + 1) = Cardinality(Calls(m, e))
         /\ n \in Calls(m, e) => NumberBefore(Calls(m, e), n + 1) = NumberBefore(Calls(m, e), n) + 1
         /\ n \notin Calls(m, e) => NumberBefore(Calls(m, e), n + 1) = NumberBefore(Calls(m, e), n)
<1>1. PICK L \in Nat : L = Len(Spans[m])
  BY Marks
<1>2. PICK R \in SUBSET (1 .. L) : R = Roots(m, e)
  BY <1>1, Marks
<1>3. PICK C \in SUBSET (1 .. L) : C = Calls(m, e)
  BY <1>1, Marks
<1>4. /\ NumberBefore(R, n) \in Nat /\ NumberBefore(R, 1) = 0 /\ NumberBefore(R, L + 1) = Cardinality(R)
      /\ n \in R => NumberBefore(R, n + 1) = NumberBefore(R, n) + 1
      /\ n \notin R => NumberBefore(R, n + 1) = NumberBefore(R, n)
  BY BeforeFacts
<1>5. /\ NumberBefore(C, n) \in Nat /\ NumberBefore(C, 1) = 0 /\ NumberBefore(C, L + 1) = Cardinality(C)
      /\ n \in C => NumberBefore(C, n + 1) = NumberBefore(C, n) + 1
      /\ n \notin C => NumberBefore(C, n + 1) = NumberBefore(C, n)
  BY BeforeFacts
<1>6. QED
  BY <1>1, <1>2, <1>3, <1>4, <1>5

\* What a consumer that counts has counted.
LEMMA DoneAt ==
  ASSUME Shape, NEW w \in Consumer, ConsumerOK(w), con[w].pc \in Counting
  PROVE  /\ con[w].m \in Message /\ Len(Spans[con[w].m]) \in Nat /\ con[w].at \in Nat
         /\ con[w].pc # "remember" => con[w].at \in 1 .. Len(Spans[con[w].m])
         /\ \A e : RequestsDone(e)[w] = NumberBefore(Roots(con[w].m, e), RequestsFrom(w))
         /\ \A e : CallsDone(e)[w] = NumberBefore(Calls(con[w].m, e), CallsFrom(w))
         /\ RequestsFrom(w) \in Nat /\ CallsFrom(w) \in Nat
<1>1. con[w].pc \in Busy
  BY DEF Counting, Busy
<1>2. /\ con[w].m \in Message /\ Len(Spans[con[w].m]) \in Nat /\ con[w].at \in Nat
      /\ con[w].pc # "remember" => con[w].at \in 1 .. Len(Spans[con[w].m])
  BY <1>1, InHand DEF Shape, ConsumerOK, Counting, Numbered
<1>3. RequestsFrom(w) \in Nat /\ CallsFrom(w) \in Nat
  BY <1>2 DEF RequestsFrom, CallsFrom
<1>4. QED
  BY <1>2, <1>3 DEF RequestsDone, CallsDone

LEMMA DoneTyped ==
  ASSUME Shape, \A w \in Consumer : ConsumerOK(w), NEW e
  PROVE  RequestsDone(e) \in [Consumer -> Nat] /\ CallsDone(e) \in [Consumer -> Nat]
<1>1. ASSUME NEW w \in Consumer PROVE RequestsDone(e)[w] \in Nat /\ CallsDone(e)[w] \in Nat
  <2>1. CASE con[w].pc \in Counting
    <3>1. /\ con[w].m \in Message /\ Len(Spans[con[w].m]) \in Nat
          /\ RequestsDone(e)[w] = NumberBefore(Roots(con[w].m, e), RequestsFrom(w))
          /\ CallsDone(e)[w] = NumberBefore(Calls(con[w].m, e), CallsFrom(w))
          /\ RequestsFrom(w) \in Nat /\ CallsFrom(w) \in Nat
      BY <2>1, DoneAt
    <3>2. QED
      BY <3>1, MarksBefore
  <2>2. CASE con[w].pc \notin Counting
    BY <2>2 DEF RequestsDone, CallsDone
  <2>3. QED
    BY <2>1, <2>2
<1>2. /\ RequestsDone(e) = [w \in Consumer |-> RequestsDone(e)[w]]
      /\ CallsDone(e) = [w \in Consumer |-> CallsDone(e)[w]]
  BY DEF RequestsDone, CallsDone
<1>3. QED
  BY <1>1, <1>2

LEMMA DoneTypedAlways ==
  Shape /\ (\A w \in Consumer : ConsumerOK(w)) =>
    \A e : RequestsDone(e) \in [Consumer -> Nat] /\ CallsDone(e) \in [Consumer -> Nat]
BY DoneTyped

LEMMA DoneTypedNext ==
  (Shape /\ (\A w \in Consumer : ConsumerOK(w)) =>
    \A e : RequestsDone(e) \in [Consumer -> Nat] /\ CallsDone(e) \in [Consumer -> Nat])'
BY DoneTypedAlways, PTL

LEMMA DoneElsewhere ==
  ASSUME NEW w, Others(w), NEW v \in Consumer \ {w}, NEW e
  PROVE  RequestsDone(e)'[v] = RequestsDone(e)[v] /\ CallsDone(e)'[v] = CallsDone(e)[v]
BY DEF Others, RequestsDone, CallsDone, RequestsFrom, CallsFrom

\* A consumer that is not counting, or is about to begin, has counted nothing.
LEMMA DoneApart ==
  ASSUME Shape', NEW w \in Consumer, ConsumerOK(w)', NEW e,
         con'[w].pc \notin Counting \/ (con'[w].pc = "apm" /\ con'[w].at = 1)
  PROVE  RequestsDone(e)'[w] = 0 /\ CallsDone(e)'[w] = 0
<1>1. CASE con'[w].pc \notin Counting
  BY <1>1 DEF RequestsDone, CallsDone
<1>2. CASE con'[w].pc = "apm" /\ con'[w].at = 1
  <2>1. con'[w].pc \in Counting /\ RequestsFrom(w)' = 1 /\ CallsFrom(w)' = 1
    BY <1>2 DEF Counting, RequestsFrom, CallsFrom
  <2>2. con'[w].m \in Message
    BY <2>1 DEF Shape, ConsumerOK, Busy, Counting
  <2>3. /\ RequestsDone(e)'[w] = NumberBefore(Roots(con'[w].m, e), 1)
        /\ CallsDone(e)'[w] = NumberBefore(Calls(con'[w].m, e), 1)
    BY <2>1 DEF RequestsDone, CallsDone
  <2>4. QED
    BY <2>2, <2>3, MarksBefore
<1>3. QED
  BY <1>1, <1>2

\* The number of the span a consumer is at.
LEMMA AtRoot ==
  ASSUME Shape, NEW w \in Consumer, ConsumerOK(w), con[w].pc \in {"apm", "count", "edge"}
  PROVE  /\ con[w].m \in Message /\ con[w].at \in 1 .. Len(Spans[con[w].m])
         /\ EndpointOf(w) \in Endpoint /\ Current(w).bucket \in Bucket
         /\ \A e : con[w].at \in Roots(con[w].m, e) <=> Current(w).parent = None /\ e = EndpointOf(w)
         /\ \A e : con[w].at \in Calls(con[w].m, e) <=> e \in EdgeOf(con[w].m, Current(w))
<1>1. con[w].m \in Message /\ con[w].at \in 1 .. Len(Spans[con[w].m])
  BY DoneAt DEF Counting
<1>2. Current(w) \in Span /\ Day[con[w].m] \in Days
  BY <1>1, TracesAssumption DEF Current, Days
<1>3. EndpointOf(w) \in Endpoint /\ Current(w).bucket \in Bucket
  BY <1>2 DEF EndpointOf, Endpoint, Service, Bucket
<1>4. \A e : con[w].at \in Roots(con[w].m, e) <=> Current(w).parent = None /\ e = EndpointOf(w)
  BY <1>1 DEF Roots, Current, EndpointOf
<1>5. \A e : con[w].at \in Calls(con[w].m, e) <=> e \in EdgeOf(con[w].m, Current(w))
  BY <1>1 DEF Calls, Current
<1>6. QED
  BY <1>1, <1>3, <1>4, <1>5

LEMMA ReadStatsDone ==
  ASSUME Shape, Shape', NEW w \in Consumer, ConsumerOK(w), ReadStats(w), NEW e
  PROVE  RequestsDone(e)'[w] = RequestsDone(e)[w] /\ CallsDone(e)'[w] = CallsDone(e)[w]
<1> DEFINE m == con[w].m
           n == con[w].at
<1>1. /\ con[w].pc = "apm" /\ con'[w].m = m /\ con'[w].at = n
      /\ \/ Current(w).parent = None /\ con'[w].pc = "count"
         \/ Current(w).parent # None /\ con'[w].pc = "edge"
  BY ReadStatsEffect
<1>2. con[w].pc \in Counting /\ con'[w].pc \in Counting
  BY <1>1 DEF Counting
<1>3. /\ RequestsDone(e)[w] = NumberBefore(Roots(m, e), n)
      /\ CallsDone(e)[w] = NumberBefore(Calls(m, e), n)
      /\ CallsDone(e)'[w] = NumberBefore(Calls(m, e), n)
      /\ con'[w].pc = "count" => RequestsDone(e)'[w] = NumberBefore(Roots(m, e), n)
      /\ con'[w].pc = "edge" => RequestsDone(e)'[w] = NumberBefore(Roots(m, e), n + 1)
  BY <1>1, <1>2 DEF RequestsDone, CallsDone, RequestsFrom, CallsFrom
<1>4. con'[w].pc = "edge" => n \notin Roots(m, e)
  BY <1>1, AtRoot
<1>5. m \in Message /\ n \in Nat
  BY <1>2, DoneAt
<1>6. n \notin Roots(m, e) => NumberBefore(Roots(m, e), n + 1) = NumberBefore(Roots(m, e), n)
  <2> HIDE DEF m, n
  <2>1. QED
    BY <1>5, MarksBefore
<1>7. QED
  BY <1>1, <1>3, <1>4, <1>6

LEMMA SaveStatsDone ==
  ASSUME Shape, NEW w \in Consumer, ConsumerOK(w), SaveStats(w), Current(w).parent = None, NEW e
  PROVE  /\ RequestsDone(e)'[w] = IF e = EndpointOf(w) THEN RequestsDone(e)[w] + 1 ELSE RequestsDone(e)[w]
         /\ CallsDone(e)'[w] = CallsDone(e)[w]
<1> DEFINE m == con[w].m
           n == con[w].at
<1>1. con[w].pc = "count" /\ con'[w].pc = "edge" /\ con'[w].m = m /\ con'[w].at = n
  BY SaveStatsEffect
<1>2. con[w].pc \in Counting /\ con'[w].pc \in Counting
  BY <1>1 DEF Counting
<1>3. /\ RequestsDone(e)[w] = NumberBefore(Roots(m, e), n)
      /\ RequestsDone(e)'[w] = NumberBefore(Roots(m, e), n + 1)
      /\ CallsDone(e)[w] = NumberBefore(Calls(m, e), n)
      /\ CallsDone(e)'[w] = NumberBefore(Calls(m, e), n)
  BY <1>1, <1>2 DEF RequestsDone, CallsDone, RequestsFrom, CallsFrom
<1>4. n \in Roots(m, e) <=> e = EndpointOf(w)
  BY <1>1, AtRoot
<1>5. m \in Message /\ n \in Nat
  BY <1>2, DoneAt
<1>6. /\ n \in Roots(m, e) => NumberBefore(Roots(m, e), n + 1) = NumberBefore(Roots(m, e), n) + 1
      /\ n \notin Roots(m, e) => NumberBefore(Roots(m, e), n + 1) = NumberBefore(Roots(m, e), n)
  <2> HIDE DEF m, n
  <2>1. QED
    BY <1>5, MarksBefore
<1>7. QED
  BY <1>3, <1>4, <1>6

LEMMA CountEdgeDone ==
  ASSUME Shape, NEW w \in Consumer, ConsumerOK(w), CountEdge(w), NEW e
  PROVE  /\ RequestsDone(e)'[w] = RequestsDone(e)[w]
         /\ CallsDone(e)'[w] = IF e \in EdgeOf(con[w].m, Current(w))
                               THEN CallsDone(e)[w] + 1 ELSE CallsDone(e)[w]
<1> DEFINE m == con[w].m
           n == con[w].at
           L == Len(Spans[m])
<1>1. /\ con[w].pc = "edge" /\ con'[w].m = m
      /\ \/ n < L /\ con'[w].pc = "apm" /\ con'[w].at = n + 1
         \/ ~(n < L) /\ con'[w].pc = "remember"
  BY CountEdgeEffect
<1>2. con[w].pc \in Counting /\ con'[w].pc \in Counting
  BY <1>1 DEF Counting
<1>3. m \in Message /\ n \in 1 .. L /\ L \in Nat /\ n \in Nat
  BY <1>1, <1>2, DoneAt
<1>4. con'[w].pc = "remember" => L = n
  BY <1>1, <1>3
<1>5. /\ RequestsDone(e)[w] = NumberBefore(Roots(m, e), n + 1)
      /\ RequestsDone(e)'[w] = NumberBefore(Roots(m, e), n + 1)
      /\ CallsDone(e)[w] = NumberBefore(Calls(m, e), n)
      /\ CallsDone(e)'[w] = NumberBefore(Calls(m, e), n + 1)
  BY <1>1, <1>2, <1>4 DEF RequestsDone, CallsDone, RequestsFrom, CallsFrom
<1>6. n \in Calls(m, e) <=> e \in EdgeOf(m, Current(w))
  BY <1>1, AtRoot
<1>7. QED
  <2>1. /\ n \in Calls(m, e) => NumberBefore(Calls(m, e), n + 1) = NumberBefore(Calls(m, e), n) + 1
        /\ n \notin Calls(m, e) => NumberBefore(Calls(m, e), n + 1) = NumberBefore(Calls(m, e), n)
    <3> HIDE DEF m, n
    <3>1. QED
      BY <1>3, MarksBefore
  <2>2. QED
    BY <1>5, <1>6, <2>1

LEMMA RememberDone ==
  ASSUME Shape, NEW w \in Consumer, ConsumerOK(w), Remember(w), NEW e
  PROVE  /\ RequestsDone(e)[w] = RootsOf(e)[con[w].m] /\ RequestsDone(e)'[w] = 0
         /\ CallsDone(e)[w] = CallsOf(e)[con[w].m] /\ CallsDone(e)'[w] = 0
<1> DEFINE m == con[w].m
<1>1. con[w].pc = "remember" /\ con'[w].pc = "next" /\ m \in Message
  BY RememberCounters
<1>2. con[w].pc \in Counting /\ con'[w].pc \notin Counting
  BY <1>1 DEF Counting
<1>3. /\ RequestsDone(e)[w] = NumberBefore(Roots(m, e), Len(Spans[m]) + 1) /\ RequestsDone(e)'[w] = 0
      /\ CallsDone(e)[w] = NumberBefore(Calls(m, e), Len(Spans[m]) + 1) /\ CallsDone(e)'[w] = 0
  BY <1>1, <1>2 DEF RequestsDone, CallsDone, RequestsFrom, CallsFrom
<1>4. RootsOf(e)[m] = Cardinality(Roots(m, e)) /\ CallsOf(e)[m] = Cardinality(Calls(m, e))
  BY <1>1 DEF RootsOf, CallsOf
<1>5. /\ NumberBefore(Roots(m, e), Len(Spans[m]) + 1) = Cardinality(Roots(m, e))
      /\ NumberBefore(Calls(m, e), Len(Spans[m]) + 1) = Cardinality(Calls(m, e))
  <2>1. PICK n \in Nat : n = 1
    OBVIOUS
  <2>2. QED
    BY <1>1, <2>1, MarksBefore
<1>6. QED
  BY <1>3, <1>4, <1>5

-----------------------------------------------------------------------------
(* The tallies and the histograms are kept.                                 *)

Counted == CountersTyped /\ TalliesOK /\ HistogramsOK

\* What the sum of the tallies owes to a change of one.
LEMMA TallyStep ==
  ASSUME IsFiniteSet(Consumer), NEW w \in Consumer,
         NEW f \in [Consumer -> Nat], NEW g \in [Consumer -> Nat], \A v \in Consumer \ {w} : g[v] = f[v]
  PROVE  /\ Sum(g, Consumer) + f[w] = Sum(f, Consumer) + g[w]
         /\ Sum(g, Consumer) \in Nat /\ Sum(f, Consumer) \in Nat /\ f[w] \in Nat /\ g[w] \in Nat
<1>1. Sum(g, Consumer) + f[w] = Sum(f, Consumer) + g[w]
  BY SumChanged DEF Sum
<1>2. QED
  BY <1>1, SumType DEF Sum

LEMMA RemembersTyped ==
  ASSUME Shape, CountersTyped, NEW e
  PROVE  /\ IsFiniteSet(db.dedup) /\ db.dedup \subseteq Message
         /\ \A m \in Message : RootsOf(e)[m] \in Nat /\ CallsOf(e)[m] \in Nat
         /\ Sum(RootsOf(e), db.dedup) \in Nat /\ Sum(CallsOf(e), db.dedup) \in Nat
<1>1. \A m \in Message : RootsOf(e)[m] \in Nat /\ CallsOf(e)[m] \in Nat
  BY Marks DEF RootsOf, CallsOf
<1>2. IsFiniteSet(db.dedup) /\ db.dedup \subseteq Message
  BY DEF Shape, StoreOK, CountersTyped
<1>3. QED
  BY <1>1, <1>2, SumType DEF Sum

\* The tallies after a step that changes one consumer, each counter having
\* grown as much as its tally.
Grows(w) ==
  /\ \A e \in Endpoint :
       db.requests[e] + RequestsDone(e)'[w] <= db'.requests[e] + RequestsDone(e)[w]
  /\ \A e \in Edge : db.calls[e] + CallsDone(e)'[w] <= db'.calls[e] + CallsDone(e)[w]

LEMMA TalliesGrow ==
  ASSUME Shape, Shape', ProcessesOK, ProcessesOK', CountersTyped, CountersTyped', TalliesOK,
         IsFiniteSet(Consumer), NEW w \in Consumer, Others(w), db'.dedup = db.dedup, Grows(w)
  PROVE  TalliesOK'
<1>1. ASSUME NEW e \in Endpoint
      PROVE  db'.requests[e] >= Sum(RootsOf(e), db'.dedup) + Sum(RequestsDone(e)', Consumer)
  <2>1. /\ RequestsDone(e) \in [Consumer -> Nat] /\ RequestsDone(e)' \in [Consumer -> Nat]
        /\ \A v \in Consumer \ {w} : RequestsDone(e)'[v] = RequestsDone(e)[v]
    BY DoneTyped, DoneTypedNext, DoneElsewhere DEF ProcessesOK
  <2>2. db.requests[e] \in Nat /\ db'.requests[e] \in Nat
    BY DEF CountersTyped
  <2>3. /\ Sum(RequestsDone(e)', Consumer) + RequestsDone(e)[w] = Sum(RequestsDone(e), Consumer) + RequestsDone(e)'[w]
        /\ Sum(RequestsDone(e)', Consumer) \in Nat /\ Sum(RequestsDone(e), Consumer) \in Nat
        /\ RequestsDone(e)[w] \in Nat /\ RequestsDone(e)'[w] \in Nat /\ Sum(RootsOf(e), db.dedup) \in Nat
    BY <2>1, TallyStep, RemembersTyped
  <2>4. db.requests[e] >= Sum(RootsOf(e), db.dedup) + Sum(RequestsDone(e), Consumer)
    BY DEF TalliesOK
  <2>5. db.requests[e] + RequestsDone(e)'[w] <= db'.requests[e] + RequestsDone(e)[w]
    BY DEF Grows
  <2>6. QED
    BY <2>2, <2>3, <2>4, <2>5
<1>2. ASSUME NEW e \in Edge
      PROVE  db'.calls[e] >= Sum(CallsOf(e), db'.dedup) + Sum(CallsDone(e)', Consumer)
  <2>1. /\ CallsDone(e) \in [Consumer -> Nat] /\ CallsDone(e)' \in [Consumer -> Nat]
        /\ \A v \in Consumer \ {w} : CallsDone(e)'[v] = CallsDone(e)[v]
    BY DoneTyped, DoneTypedNext, DoneElsewhere DEF ProcessesOK
  <2>2. db.calls[e] \in Nat /\ db'.calls[e] \in Nat
    BY DEF CountersTyped
  <2>3. /\ Sum(CallsDone(e)', Consumer) + CallsDone(e)[w] = Sum(CallsDone(e), Consumer) + CallsDone(e)'[w]
        /\ Sum(CallsDone(e)', Consumer) \in Nat /\ Sum(CallsDone(e), Consumer) \in Nat
        /\ CallsDone(e)[w] \in Nat /\ CallsDone(e)'[w] \in Nat /\ Sum(CallsOf(e), db.dedup) \in Nat
    BY <2>1, TallyStep, RemembersTyped
  <2>4. db.calls[e] >= Sum(CallsOf(e), db.dedup) + Sum(CallsDone(e), Consumer)
    BY DEF TalliesOK
  <2>5. db.calls[e] + CallsDone(e)'[w] <= db'.calls[e] + CallsDone(e)[w]
    BY DEF Grows
  <2>6. QED
    BY <2>2, <2>3, <2>4, <2>5
<1>3. QED
  BY <1>1, <1>2 DEF TalliesOK, Sum, RootsOf, CallsOf, RequestsDone, CallsDone

LEMMA TalliesRemembered ==
  ASSUME Shape, Shape', ProcessesOK, ProcessesOK', CountersTyped, TalliesOK,
         IsFiniteSet(Consumer), NEW w \in Consumer, Remember(w)
  PROVE  TalliesOK'
<1> DEFINE m == con[w].m
<1>1. /\ CountersKept /\ Others(w) /\ db'.dedup = db.dedup \union {m}
      /\ m \in Message /\ m \notin db.dedup /\ ConsumerOK(w)
  BY RememberCounters DEF ProcessesOK
<1>2. ASSUME NEW e \in Endpoint
      PROVE  db'.requests[e] >= Sum(RootsOf(e), db'.dedup) + Sum(RequestsDone(e)', Consumer)
  <2>1. /\ RequestsDone(e) \in [Consumer -> Nat] /\ RequestsDone(e)' \in [Consumer -> Nat]
        /\ \A v \in Consumer \ {w} : RequestsDone(e)'[v] = RequestsDone(e)[v]
    BY <1>1, DoneTyped, DoneTypedNext, DoneElsewhere DEF ProcessesOK
  <2>2. db.requests[e] \in Nat /\ db'.requests[e] = db.requests[e]
    BY <1>1 DEF CountersTyped, CountersKept
  <2>3. RequestsDone(e)[w] = RootsOf(e)[m] /\ RequestsDone(e)'[w] = 0
    BY <1>1, RememberDone
  <2>4. /\ Sum(RootsOf(e), db.dedup) \in Nat /\ RootsOf(e)[m] \in Nat
        /\ Sum(RootsOf(e), db'.dedup) = Sum(RootsOf(e), db.dedup) + RootsOf(e)[m]
    <3>1. /\ IsFiniteSet(db.dedup) /\ db.dedup \subseteq Message
          /\ \A q \in Message : RootsOf(e)[q] \in Nat
          /\ Sum(RootsOf(e), db.dedup) \in Nat
      BY RemembersTyped
    <3>2. \A q \in db.dedup \union {m} : RootsOf(e)[q] \in Nat
      BY <1>1, <3>1
    <3>3. PICK g, S, x : g = RootsOf(e) /\ S = db.dedup /\ x = m
      OBVIOUS
    <3>4. IsFiniteSet(S) /\ x \notin S /\ \A q \in S \union {x} : g[q] \in Nat
      BY <1>1, <3>1, <3>2, <3>3
    <3>5. SumFunctionOnSet(g, S \union {x}) = SumFunctionOnSet(g, S) + g[x]
      BY <3>4, SumAdd
    <3>6. QED
      BY <1>1, <3>1, <3>3, <3>5 DEF Sum
  <2>5. db.requests[e] >= Sum(RootsOf(e), db.dedup) + Sum(RequestsDone(e), Consumer)
    BY DEF TalliesOK
  <2>6. /\ Sum(RequestsDone(e)', Consumer) + RequestsDone(e)[w] = Sum(RequestsDone(e), Consumer) + RequestsDone(e)'[w]
        /\ Sum(RequestsDone(e)', Consumer) \in Nat /\ Sum(RequestsDone(e), Consumer) \in Nat
    BY <2>1, TallyStep
  <2>7. QED
    BY <2>2, <2>3, <2>4, <2>5, <2>6
<1>3. ASSUME NEW e \in Edge
      PROVE  db'.calls[e] >= Sum(CallsOf(e), db'.dedup) + Sum(CallsDone(e)', Consumer)
  <2>1. /\ CallsDone(e) \in [Consumer -> Nat] /\ CallsDone(e)' \in [Consumer -> Nat]
        /\ \A v \in Consumer \ {w} : CallsDone(e)'[v] = CallsDone(e)[v]
    BY <1>1, DoneTyped, DoneTypedNext, DoneElsewhere DEF ProcessesOK
  <2>2. db.calls[e] \in Nat /\ db'.calls[e] = db.calls[e]
    BY <1>1 DEF CountersTyped, CountersKept
  <2>3. CallsDone(e)[w] = CallsOf(e)[m] /\ CallsDone(e)'[w] = 0
    BY <1>1, RememberDone
  <2>4. /\ Sum(CallsOf(e), db.dedup) \in Nat /\ CallsOf(e)[m] \in Nat
        /\ Sum(CallsOf(e), db'.dedup) = Sum(CallsOf(e), db.dedup) + CallsOf(e)[m]
    <3>1. /\ IsFiniteSet(db.dedup) /\ db.dedup \subseteq Message
          /\ \A q \in Message : CallsOf(e)[q] \in Nat
          /\ Sum(CallsOf(e), db.dedup) \in Nat
      BY RemembersTyped
    <3>2. \A q \in db.dedup \union {m} : CallsOf(e)[q] \in Nat
      BY <1>1, <3>1
    <3>3. PICK g, S, x : g = CallsOf(e) /\ S = db.dedup /\ x = m
      OBVIOUS
    <3>4. IsFiniteSet(S) /\ x \notin S /\ \A q \in S \union {x} : g[q] \in Nat
      BY <1>1, <3>1, <3>2, <3>3
    <3>5. SumFunctionOnSet(g, S \union {x}) = SumFunctionOnSet(g, S) + g[x]
      BY <3>4, SumAdd
    <3>6. QED
      BY <1>1, <3>1, <3>3, <3>5 DEF Sum
  <2>5. db.calls[e] >= Sum(CallsOf(e), db.dedup) + Sum(CallsDone(e), Consumer)
    BY DEF TalliesOK
  <2>6. /\ Sum(CallsDone(e)', Consumer) + CallsDone(e)[w] = Sum(CallsDone(e), Consumer) + CallsDone(e)'[w]
        /\ Sum(CallsDone(e)', Consumer) \in Nat /\ Sum(CallsDone(e), Consumer) \in Nat
    BY <2>1, TallyStep
  <2>7. QED
    BY <2>2, <2>3, <2>4, <2>5, <2>6
<1>4. QED
  BY <1>2, <1>3 DEF TalliesOK, Sum, RootsOf, CallsOf, RequestsDone, CallsDone

\* A consumer that the step does not move is as it was.
LEMMA Elsewhere ==
  ASSUME NEW w, Others(w), NEW v \in Consumer \ {w}
  PROVE  /\ con'[v].pc = con[v].pc /\ con'[v].hist = con[v].hist
         /\ Current(v)' = Current(v) /\ EndpointOf(v)' = EndpointOf(v)
BY DEF Others, Current, EndpointOf

\* The endpoint of a consumer that counts a request is one.
LEMMA CountingEndpoint ==
  ASSUME Shape, ProcessesOK, NEW w \in Consumer, con[w].pc = "count"
  PROVE  EndpointOf(w) \in Endpoint
BY AtRoot DEF ProcessesOK

\* A step that lets no consumer come to count a request, and no counter fall.
LEMMA HistogramsKept ==
  ASSUME Shape, ProcessesOK, CountersTyped, HistogramsOK,
         db'.requests = db.requests, db'.hist = db.hist, ghost'.raced = ghost.raced,
         \A v \in Consumer : con'[v].pc = "count" =>
           con[v].pc = "count" /\ con'[v].hist = con[v].hist /\ EndpointOf(v)' = EndpointOf(v)
  PROVE  HistogramsOK'
BY DEF HistogramsOK, Sum

LEMMA CountedApart ==
  ASSUME Shape, Shape', ProcessesOK, ProcessesOK', Counted, IsFiniteSet(Consumer), Apart
  PROVE  Counted'
<1>1. CASE con' = con
  <2>1. \A v \in Consumer : EndpointOf(v)' = EndpointOf(v) /\ Current(v)' = Current(v)
    BY <1>1 DEF EndpointOf, Current
  <2>2. \A e : RequestsDone(e)' = RequestsDone(e) /\ CallsDone(e)' = CallsDone(e)
    BY <1>1 DEF RequestsDone, CallsDone, RequestsFrom, CallsFrom
  <2>3. HistogramsOK'
    BY <1>1, <2>1, HistogramsKept DEF Apart, CountersKept, Counted
  <2>4. CountersTyped'
    BY <1>1, <2>1 DEF Apart, CountersKept, Counted, CountersTyped
  <2>5. TalliesOK'
    <3>1. /\ \A e \in Endpoint :
               db'.requests[e] >= Sum(RootsOf(e), db'.dedup) + Sum(RequestsDone(e)', Consumer)
          /\ \A e \in Edge :
               db'.calls[e] >= Sum(CallsOf(e), db'.dedup) + Sum(CallsDone(e)', Consumer)
      BY <2>2 DEF Apart, CountersKept, Counted, TalliesOK
    <3>2. QED
      BY <3>1 DEF TalliesOK, Sum, RootsOf, CallsOf, RequestsDone, CallsDone
  <2>6. QED
    BY <2>3, <2>4, <2>5 DEF Counted
<1>2. ASSUME NEW w \in Consumer, Others(w),
             con'[w].pc \notin Counting \/ (con'[w].pc = "apm" /\ con'[w].at = 1)
      PROVE  Counted'
  <2>1. con'[w].pc # "count"
    BY <1>2 DEF Counting
  <2>2. \A v \in Consumer : con'[v].pc = "count" =>
          /\ con[v].pc = "count" /\ con'[v].hist = con[v].hist
          /\ EndpointOf(v)' = EndpointOf(v) /\ Current(v)' = Current(v)
    BY <1>2, <2>1, Elsewhere
  <2>3. CountersTyped'
    BY <2>2 DEF Apart, CountersKept, Counted, CountersTyped
  <2>4. HistogramsOK'
    BY <2>2, HistogramsKept DEF Apart, CountersKept, Counted
  <2>5. Grows(w)
    <3>1. \A e : RequestsDone(e)'[w] = 0 /\ CallsDone(e)'[w] = 0
      BY <1>2, DoneApart DEF ProcessesOK
    <3>2. \A e : RequestsDone(e)[w] \in Nat /\ CallsDone(e)[w] \in Nat
      BY DoneTyped DEF ProcessesOK
    <3>3. /\ \A e \in Endpoint : db.requests[e] \in Nat /\ db'.requests[e] = db.requests[e]
          /\ \A e \in Edge : db.calls[e] \in Nat /\ db'.calls[e] = db.calls[e]
      BY DEF Apart, CountersKept, Counted, CountersTyped
    <3>4. QED
      BY <3>1, <3>2, <3>3 DEF Grows
  <2>6. TalliesOK'
    BY <1>2, <2>3, <2>5, TalliesGrow DEF Apart, Counted
  <2>7. QED
    BY <2>3, <2>4, <2>6 DEF Counted
<1>3. QED
  BY <1>1, <1>2 DEF Apart

LEMMA CountedRead ==
  ASSUME Shape, Shape', ProcessesOK, ProcessesOK', Counted, IsFiniteSet(Consumer),
         NEW w \in Consumer, ReadStats(w)
  PROVE  Counted'
<1>1. /\ db' = db /\ ghost' = ghost /\ Others(w)
      /\ con[w].pc = "apm" /\ con'[w].m = con[w].m /\ con'[w].at = con[w].at
      /\ \/ Current(w).parent = None /\ con'[w].pc = "count" /\ con'[w].hist = db.hist[EndpointOf(w)]
         \/ Current(w).parent # None /\ con'[w].pc = "edge"
  BY ReadStatsEffect
<1>2. Current(w)' = Current(w) /\ EndpointOf(w)' = EndpointOf(w) /\ EndpointOf(w) \in Endpoint
  <2>1. Current(w)' = Current(w) /\ EndpointOf(w)' = EndpointOf(w)
    BY <1>1 DEF Current, EndpointOf
  <2>2. QED
    BY <1>1, <2>1, AtRoot DEF ProcessesOK
<1>3. CountersTyped'
  BY <1>1, <1>2, Elsewhere DEF Counted, CountersTyped
<1>4. HistogramsOK'
  <2>1. ASSUME NEW v \in Consumer, con'[v].pc = "count"
        PROVE  /\ con'[v].hist \in [Bucket -> Nat]
               /\ Sum(con'[v].hist, Bucket) <= db'.requests[EndpointOf(v)']
    <3>1. CASE v = w
      BY <1>1, <1>2, <2>1, <3>1 DEF Counted, CountersTyped, HistogramsOK
    <3>2. CASE v # w
      BY <1>1, <2>1, <3>2, Elsewhere DEF Counted, HistogramsOK
    <3>3. QED
      BY <3>1, <3>2
  <2>2. QED
    BY <1>1, <2>1 DEF Counted, HistogramsOK, Sum
<1>5. Grows(w)
  <2>1. \A e : RequestsDone(e)'[w] = RequestsDone(e)[w] /\ CallsDone(e)'[w] = CallsDone(e)[w]
    BY ReadStatsDone DEF ProcessesOK
  <2>2. \A e : RequestsDone(e)[w] \in Nat /\ CallsDone(e)[w] \in Nat
    BY DoneTyped DEF ProcessesOK
  <2>3. QED
    BY <1>1, <2>1, <2>2 DEF Grows, Counted, CountersTyped
<1>6. TalliesOK'
  BY <1>1, <1>3, <1>5, TalliesGrow DEF Counted
<1>7. QED
  BY <1>3, <1>4, <1>6 DEF Counted

\* One observation more is one more in the sum of the buckets.
LEMMA ObservedOne ==
  ASSUME IsFiniteSet(Bucket), NEW h \in [Bucket -> Nat], NEW b \in Bucket
  PROVE  /\ Observed(h, b) \in [Bucket -> Nat]
         /\ Sum(h, Bucket) \in Nat /\ Sum(Observed(h, b), Bucket) = Sum(h, Bucket) + 1
<1> DEFINE n == h[b] + 1
           g == [h EXCEPT ![b] = n]
<1>1. n \in Nat /\ h[b] \in Nat
  OBVIOUS
<1>2. Observed(h, b) = g
  BY DEF Observed
<1> HIDE DEF n
<1>3. g \in [Bucket -> Nat] /\ g[b] = n /\ \A c \in Bucket \ {b} : g[c] = h[c]
  BY <1>1
<1> HIDE DEF g
<1>4. SumFunctionOnSet(g, Bucket) + h[b] = SumFunctionOnSet(h, Bucket) + g[b]
  BY <1>3, SumChanged
<1>5. SumFunctionOnSet(g, Bucket) \in Nat /\ SumFunctionOnSet(h, Bucket) \in Nat
  BY <1>3, SumType
<1>6. n = h[b] + 1
  BY DEF n
<1>7. QED
  BY <1>1, <1>2, <1>3, <1>4, <1>5, <1>6 DEF Sum

LEMMA CountedSave ==
  ASSUME Shape, Shape', ProcessesOK, ProcessesOK', Counted, IsFiniteSet(Consumer), IsFiniteSet(Bucket),
         NEW w \in Consumer, SaveStats(w)
  PROVE  Counted'
<1> DEFINE E == EndpointOf(w)
           old == con[w].hist
           new == Observed(old, Current(w).bucket)
<1>1. /\ Others(w) /\ db'.dedup = db.dedup /\ db'.calls = db.calls
      /\ con[w].pc = "count" /\ con'[w].pc = "edge"
      /\ db'.requests = [db.requests EXCEPT ![E] = db.requests[E] + 1]
      /\ db'.hist = [db.hist EXCEPT ![E] = new]
      /\ ghost.raced \subseteq ghost'.raced
      /\ E \in ghost'.raced \/ db.hist[E] = old
  BY SaveStatsEffect
<1>2. E \in Endpoint /\ Current(w).bucket \in Bucket /\ Current(w).parent = None
  BY <1>1, AtRoot DEF ProcessesOK, Counted, CountersTyped
<1>3. old \in [Bucket -> Nat] /\ Sum(old, Bucket) <= db.requests[E]
  BY <1>1 DEF Counted, HistogramsOK
<1>4. new \in [Bucket -> Nat] /\ Sum(old, Bucket) \in Nat /\ Sum(new, Bucket) = Sum(old, Bucket) + 1
  BY <1>2, <1>3, ObservedOne
<1> HIDE DEF E, new, old
<1>5. /\ db.requests \in [Endpoint -> Nat] /\ db.hist \in [Endpoint -> [Bucket -> Nat]]
  BY DEF Counted, CountersTyped
<1>6. /\ db'.requests \in [Endpoint -> Nat] /\ db'.hist \in [Endpoint -> [Bucket -> Nat]]
      /\ db'.requests[E] = db.requests[E] + 1 /\ db'.hist[E] = new
      /\ \A e \in Endpoint \ {E} : db'.requests[e] = db.requests[e] /\ db'.hist[e] = db.hist[e]
      /\ \A e \in Endpoint : db.requests[e] <= db'.requests[e]
  <2>1. db.requests[E] + 1 \in Nat /\ \A e \in Endpoint : db.requests[e] \in Nat
    BY <1>2, <1>5
  <2>2. QED
    BY <1>1, <1>2, <1>4, <1>5, <2>1
<1>7. CountersTyped'
  <2>1. ASSUME NEW v \in Consumer, con'[v].pc = "count" PROVE Current(v)'.parent = None
    <3>1. v \in Consumer \ {w}
      BY <1>1, <2>1
    <3>2. con[v].pc = "count" /\ Current(v)' = Current(v)
      BY <1>1, <2>1, <3>1, Elsewhere
    <3>3. QED
      BY <3>2 DEF Counted, CountersTyped
  <2>2. QED
    BY <1>1, <1>6, <2>1 DEF Counted, CountersTyped
<1>8. HistogramsOK'
  <2>1. ASSUME NEW e \in Endpoint
        PROVE  /\ Sum(db'.hist[e], Bucket) <= db'.requests[e]
               /\ e \in ghost'.raced \/ Sum(db'.hist[e], Bucket) = db'.requests[e]
    <3>1. CASE e = E
      <4>1. db.requests[E] \in Nat
        BY <1>2, <1>5
      <4>2. E \in ghost'.raced \/ Sum(old, Bucket) = db.requests[E]
        BY <1>1, <1>2 DEF Counted, HistogramsOK
      <4>3. QED
        BY <1>3, <1>4, <1>6, <3>1, <4>1, <4>2
    <3>2. CASE e # E
      BY <1>1, <1>6, <3>2 DEF Counted, HistogramsOK
    <3>3. QED
      BY <3>1, <3>2
  <2>2. ASSUME NEW v \in Consumer, con'[v].pc = "count"
        PROVE  /\ con'[v].hist \in [Bucket -> Nat]
               /\ Sum(con'[v].hist, Bucket) <= db'.requests[EndpointOf(v)']
    <3>1. v # w /\ v \in Consumer \ {w}
      BY <1>1, <2>2
    <3>2. con[v].pc = "count" /\ con'[v].hist = con[v].hist /\ EndpointOf(v)' = EndpointOf(v)
      BY <1>1, <2>2, <3>1, Elsewhere
    <3>3. con[v].hist \in [Bucket -> Nat] /\ Sum(con[v].hist, Bucket) <= db.requests[EndpointOf(v)]
      BY <3>2 DEF Counted, HistogramsOK
    <3>4. EndpointOf(v) \in Endpoint
      BY <3>2, CountingEndpoint
    <3>5. Sum(con[v].hist, Bucket) \in Nat
      BY <3>3, SumType DEF Sum
    <3>6. db.requests[EndpointOf(v)] \in Nat /\ db'.requests[EndpointOf(v)] \in Nat
          /\ db.requests[EndpointOf(v)] <= db'.requests[EndpointOf(v)]
      BY <1>5, <1>6, <3>4
    <3>7. QED
      BY <3>2, <3>3, <3>5, <3>6
  <2>3. QED
    BY <2>1, <2>2 DEF HistogramsOK, Sum
<1>9. Grows(w)
  <2>1. \A e : /\ RequestsDone(e)'[w] = IF e = E THEN RequestsDone(e)[w] + 1 ELSE RequestsDone(e)[w]
               /\ CallsDone(e)'[w] = CallsDone(e)[w]
    BY <1>2, SaveStatsDone DEF ProcessesOK, E
  <2>2. \A e : RequestsDone(e)[w] \in Nat /\ CallsDone(e)[w] \in Nat
    BY DoneTyped DEF ProcessesOK
  <2>3. ASSUME NEW e \in Endpoint
        PROVE  db.requests[e] + RequestsDone(e)'[w] <= db'.requests[e] + RequestsDone(e)[w]
    <3>1. db.requests[e] \in Nat /\ RequestsDone(e)[w] \in Nat
      BY <1>5, <2>2
    <3>2. CASE e = E
      BY <1>6, <2>1, <3>1, <3>2
    <3>3. CASE e # E
      BY <1>6, <2>1, <3>1, <3>3
    <3>4. QED
      BY <3>2, <3>3
  <2>4. \A e \in Edge : db.calls[e] + CallsDone(e)'[w] <= db'.calls[e] + CallsDone(e)[w]
    BY <1>1, <2>1, <2>2 DEF Counted, CountersTyped
  <2>5. QED
    BY <2>3, <2>4 DEF Grows
<1>10. TalliesOK'
  BY <1>1, <1>7, <1>9, TalliesGrow DEF Counted
<1>11. QED
  BY <1>7, <1>8, <1>10 DEF Counted

LEMMA CountedEdge ==
  ASSUME Shape, Shape', ProcessesOK, ProcessesOK', Counted, IsFiniteSet(Consumer),
         NEW w \in Consumer, CountEdge(w)
  PROVE  Counted'
<1> DEFINE edges == EdgeOf(con[w].m, Current(w))
<1>1. /\ Others(w) /\ db'.dedup = db.dedup /\ ghost' = ghost
      /\ db'.requests = db.requests /\ db'.hist = db.hist
      /\ con'[w].pc # "count"
      /\ db'.calls = [e \in Edge |-> IF e \in edges THEN db.calls[e] + 1 ELSE db.calls[e]]
  BY CountEdgeEffect
<1> HIDE DEF edges
<1>2. \A v \in Consumer : con'[v].pc = "count" =>
        /\ con[v].pc = "count" /\ con'[v].hist = con[v].hist
        /\ EndpointOf(v)' = EndpointOf(v) /\ Current(v)' = Current(v)
  BY <1>1, Elsewhere
<1>3. db.calls \in [Edge -> Nat] /\ db'.calls \in [Edge -> Nat]
  BY <1>1 DEF Counted, CountersTyped
<1>4. CountersTyped'
  BY <1>1, <1>2, <1>3 DEF Counted, CountersTyped
<1>5. HistogramsOK'
  BY <1>1, <1>2, HistogramsKept DEF Counted
<1>6. Grows(w)
  <2>1. \A e : /\ RequestsDone(e)'[w] = RequestsDone(e)[w]
               /\ CallsDone(e)'[w] = IF e \in edges THEN CallsDone(e)[w] + 1 ELSE CallsDone(e)[w]
    BY CountEdgeDone DEF ProcessesOK, edges
  <2>2. \A e : RequestsDone(e)[w] \in Nat /\ CallsDone(e)[w] \in Nat
    BY DoneTyped DEF ProcessesOK
  <2>3. \A e \in Endpoint : db.requests[e] + RequestsDone(e)'[w] <= db'.requests[e] + RequestsDone(e)[w]
    BY <1>1, <2>1, <2>2 DEF Counted, CountersTyped
  <2>4. ASSUME NEW e \in Edge
        PROVE  db.calls[e] + CallsDone(e)'[w] <= db'.calls[e] + CallsDone(e)[w]
    BY <1>1, <1>3, <2>1, <2>2
  <2>5. QED
    BY <2>3, <2>4 DEF Grows
<1>7. TalliesOK'
  BY <1>1, <1>4, <1>6, TalliesGrow DEF Counted
<1>8. QED
  BY <1>4, <1>5, <1>7 DEF Counted

LEMMA CountedRemember ==
  ASSUME Shape, Shape', ProcessesOK, ProcessesOK', Counted, IsFiniteSet(Consumer),
         NEW w \in Consumer, Remember(w)
  PROVE  Counted'
<1>1. /\ CountersKept /\ ghost' = ghost /\ Others(w) /\ con'[w].pc # "count"
      /\ db'.dedup = db.dedup \union {con[w].m}
  BY RememberCounters DEF ProcessesOK
<1>2. \A v \in Consumer : con'[v].pc = "count" =>
        /\ con[v].pc = "count" /\ con'[v].hist = con[v].hist
        /\ EndpointOf(v)' = EndpointOf(v) /\ Current(v)' = Current(v)
  BY <1>1, Elsewhere
<1>3. CountersTyped'
  <2>1. IsFiniteSet(db'.dedup)
    <3>1. IsFiniteSet(db.dedup)
      BY DEF Counted, CountersTyped
    <3>2. IsFiniteSet(db.dedup \union {con[w].m})
      BY <3>1, FS_AddElement
    <3>3. QED
      BY <1>1, <3>2
  <2>2. QED
    BY <1>1, <1>2, <2>1 DEF Counted, CountersTyped, CountersKept
<1>4. HistogramsOK'
  BY <1>1, <1>2, HistogramsKept DEF Counted, CountersKept
<1>5. TalliesOK'
  BY TalliesRemembered DEF Counted
<1>6. QED
  BY <1>3, <1>4, <1>5 DEF Counted

LEMMA StepCounted ==
  ASSUME IInv, IInv', Counted, IsFiniteSet(Consumer), IsFiniteSet(Bucket), [Next]_vars
  PROVE  Counted'
<1>1. Shape /\ Shape' /\ ProcessesOK /\ ProcessesOK'
  BY DEF IInv
<1>2. ASSUME NEW w \in Consumer, Consume(w) \/ Throws(w) PROVE Counted'
  <2>1. \/ ReadStats(w) \/ SaveStats(w) \/ CountEdge(w) \/ Remember(w)
        \/ FilterUnseen(w) \/ (\E m \in Message : Take(w, m)) \/ Acknowledge(w)
        \/ PutTrace(w) \/ SaveTrace(w) \/ IndexSpan(w) \/ Throws(w)
        \/ \E B \in SUBSET db.queue : Receive(w, B)
    BY <1>2 DEF Consume
  <2>2. ConsumerOK(w)
    BY <1>1 DEF ProcessesOK
  <2>3. QED
    BY <1>1, <2>1, <2>2, CountedRead, CountedSave, CountedEdge, CountedRemember, ConsumersApart, CountedApart
<1>3. ASSUME NEW e \in Eraser, Erase(e) \/ EraseThrows(e) PROVE Counted'
  BY <1>1, <1>3, ErasersApart, CountedApart
<1>4. ASSUME NEW m \in Message, Publish(m) PROVE Counted'
  BY <1>1, <1>4, PublishApart, CountedApart
<1>5. CASE UNCHANGED vars
  <2>1. Apart
    BY <1>5 DEF vars, Apart, CountersKept
  <2>2. QED
    BY <1>1, <2>1, CountedApart
<1>6. QED
  BY <1>2, <1>3, <1>4, <1>5 DEF Next

LEMMA InitCounted == ASSUME Init, IsFiniteSet(Consumer), IsFiniteSet(Bucket) PROVE Counted
<1>1. /\ db.requests = [e \in Endpoint |-> 0] /\ db.calls = [e \in Edge |-> 0]
      /\ db.hist = [e \in Endpoint |-> [b \in Bucket |-> 0]] /\ db.dedup = {}
  BY DEF Init
<1>2. \A w \in Consumer : con[w].pc = "idle"
  BY DEF Init, Free
<1>3. CountersTyped
  BY <1>1, <1>2, FS_EmptySet DEF CountersTyped
<1>4. ASSUME NEW e
      PROVE  Sum(RootsOf(e), db.dedup) = 0 /\ Sum(CallsOf(e), db.dedup) = 0
             /\ Sum(RequestsDone(e), Consumer) = 0 /\ Sum(CallsDone(e), Consumer) = 0
  <2>1. \A w \in Consumer : RequestsDone(e)[w] = 0 /\ CallsDone(e)[w] = 0
    BY <1>2 DEF RequestsDone, CallsDone, Counting
  <2>2. QED
    BY <1>1, <2>1, SumZero, SumEmpty DEF Sum
<1>5. TalliesOK
  BY <1>1, <1>4 DEF TalliesOK
<1>6. ASSUME NEW e \in Endpoint PROVE Sum(db.hist[e], Bucket) = 0
  <2>1. \A b \in Bucket : db.hist[e][b] = 0
    BY <1>1
  <2>2. QED
    BY <2>1, SumZero DEF Sum
<1>7. HistogramsOK
  <2>1. \A e \in Endpoint : db.requests[e] = 0
    BY <1>1
  <2>2. \A e \in Endpoint : /\ Sum(db.hist[e], Bucket) <= db.requests[e]
                            /\ Sum(db.hist[e], Bucket) = db.requests[e]
    BY <1>6, <2>1
  <2>3. \A w \in Consumer : con[w].pc # "count"
    BY <1>2
  <2>4. QED
    BY <2>2, <2>3 DEF HistogramsOK
<1>8. QED
  BY <1>3, <1>5, <1>7 DEF Counted

\* The counters and the histograms keep up with what the consumers have counted.
LEMMA CountedAlways ==
  ASSUME IsFiniteSet(Consumer), IsFiniteSet(Bucket)
  PROVE  Spec => []Counted
<1>1. Init => Counted
  BY InitCounted
<1>2. IInv /\ IInv' /\ Counted /\ [Next]_vars => Counted'
  BY StepCounted
<1>3. QED
  BY <1>1, <1>2, TracesInvariant, PTL DEF Spec

\* The counters of the APM views are never below what the remembered messages
\* stand for, for any messages and any consumers that throw anywhere: a message
\* is remembered after all its spans were counted, and counted from the start
\* again when it was not.
THEOREM CountersNeverUndercount ==
  ASSUME IsFiniteSet(Consumer), IsFiniteSet(Bucket)
  PROVE  Spec => []NeverUndercounted
<1>1. ASSUME IInv, Counted PROVE NeverUndercounted
  <2>1. ASSUME NEW e \in Endpoint
        PROVE  db.requests[e] >= SumFunctionOnSet([m \in Message |-> Cardinality(Roots(m, e))], db.dedup)
    <3>1. Sum(RootsOf(e), db.dedup) \in Nat /\ db.requests[e] \in Nat
          /\ Sum(RequestsDone(e), Consumer) \in Nat
      <4>1. RequestsDone(e) \in [Consumer -> Nat]
        BY <1>1, DoneTyped DEF IInv, ProcessesOK
      <4>2. QED
        BY <1>1, <4>1, RemembersTyped, SumType DEF IInv, Counted, CountersTyped, Sum
    <3>2. db.requests[e] >= Sum(RootsOf(e), db.dedup) + Sum(RequestsDone(e), Consumer)
      BY <1>1 DEF Counted, TalliesOK
    <3>3. db.requests[e] >= Sum(RootsOf(e), db.dedup)
      BY <3>1, <3>2
    <3>4. QED
      BY <3>3 DEF Sum, RootsOf
  <2>2. ASSUME NEW e \in Edge
        PROVE  db.calls[e] >= SumFunctionOnSet([m \in Message |-> Cardinality(Calls(m, e))], db.dedup)
    <3>1. Sum(CallsOf(e), db.dedup) \in Nat /\ db.calls[e] \in Nat
          /\ Sum(CallsDone(e), Consumer) \in Nat
      <4>1. CallsDone(e) \in [Consumer -> Nat]
        BY <1>1, DoneTyped DEF IInv, ProcessesOK
      <4>2. QED
        BY <1>1, <4>1, RemembersTyped, SumType DEF IInv, Counted, CountersTyped, Sum
    <3>2. db.calls[e] >= Sum(CallsOf(e), db.dedup) + Sum(CallsDone(e), Consumer)
      BY <1>1 DEF Counted, TalliesOK
    <3>3. db.calls[e] >= Sum(CallsOf(e), db.dedup)
      BY <3>1, <3>2
    <3>4. QED
      BY <3>3 DEF Sum, CallsOf
  <2>3. QED
    BY <2>1, <2>2 DEF NeverUndercounted
<1>2. QED
  BY <1>1, TracesInvariant, CountedAlways, PTL

\* A histogram holds an observation for every counted request, and fewer only
\* where two consumers merged into the histogram that one of them had read.
THEOREM HistogramsLoseOnlyToRaces ==
  ASSUME IsFiniteSet(Consumer), IsFiniteSet(Bucket)
  PROVE  Spec => []HistogramLosesOnlyToRaces
<1>1. Counted => HistogramLosesOnlyToRaces
  BY DEF Counted, HistogramsOK, HistogramLosesOnlyToRaces, Sum
<1>2. QED
  BY <1>1, CountedAlways, PTL
=============================================================================
