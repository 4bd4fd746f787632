------------------------- MODULE RealtimeHub_proofs -------------------------
(***************************************************************************)
(* The safety properties of RealtimeHub, for any clients, lines, filters,  *)
(* limits and overlapping publish requests.                                *)
(***************************************************************************)
EXTENDS RealtimeHub, SequenceTheorems, TLAPS

Fan == [pc : {"idle", "next", "overflow", "line"}, line : Line \union {None},
        visited : SUBSET Client, at : Client \union {None}]

FanOK(p) ==
  /\ fan[p].pc = "idle" => fan[p] = Idle
  /\ fan[p].pc # "idle" => fan[p].line \in published
  /\ fan[p].pc \in {"overflow", "line"} => fan[p].at \in opened

Distinct(s) == \A i, j \in DOMAIN s : s[i] = s[j] => i = j

MapsOK ==
  /\ conns \in Seq(opened) /\ Len(conns) <= MaxConnections /\ Distinct(conns)
  /\ buffers \subseteq opened /\ opened \subseteq Client /\ gone \subseteq opened

TailsOK ==
  /\ buffer \in [Client -> Seq(Line)]
  /\ unread \in [Client -> Seq(Write)]
  /\ got \in [Client -> Seq(Chunk)]

LinesOK ==
  /\ answered \subseteq published /\ published \subseteq Line
  /\ audience \in [Line -> SUBSET Client]

FansOK == fan \in [Publisher -> Fan] /\ \A p \in Publisher : FanOK(p)

Typed == MapsOK /\ TailsOK /\ LinesOK /\ FansOK

\* The write of p's line to c has not been read.
Sent(p, c) == [chunk |-> fan[p].line, by |-> p] \in ToSet(unread[c])

\* What the fanout of p owes to tail c: nothing, or it comes to it or is at it.
Due(p, c) ==
  \/ c \in gone \/ fan[p].line \in ToSet(got[c])
  \/ c \in ToSet(conns) \ fan[p].visited
  \/ fan[p].at = c /\ fan[p].pc = "overflow"
  \/ fan[p].at = c /\ fan[p].pc = "line" /\ Sent(p, c)

Owed(p) ==
  fan[p].pc # "idle" =>
    \A c \in audience[fan[p].line] : <<c, fan[p].line>> \in Wants => Due(p, c)

\* A fanout has set the buffer of c again after a close, and is still at c,
\* where its write is to fail.
Left(p, c) == fan[p].pc = "line" /\ fan[p].at = c /\ Waiting(p, c)

Mapped ==
  /\ opened \ gone \subseteq ToSet(conns)
  /\ ToSet(conns) \subseteq buffers
  /\ \A c \in buffers \ ToSet(conns) : c \in gone /\ \E p \in Publisher : Left(p, c)

IInv == Typed /\ (\A p \in Publisher : Owed(p)) /\ Mapped /\ AnsweredIsRead

LEMMA Limits == MaxConnections \in Nat \ {0} /\ BufferSize \in Nat \ {0}
BY HubAssumption

LEMMA TypedImpliesTypesOK == Typed => TypesOK
<1> SUFFICES ASSUME Typed PROVE TypesOK
  OBVIOUS
<1>1. ASSUME NEW p \in Publisher
      PROVE /\ fan[p].pc \in {"idle", "next", "overflow", "line"}
            /\ fan[p].line \in Line \union {None} /\ fan[p].at \in Client \union {None}
            /\ fan[p].visited \subseteq Client
  BY DEF Typed, FansOK, Fan
<1>2. QED
  BY <1>1 DEF TypesOK, Typed, MapsOK, TailsOK, LinesOK, Distinct

-----------------------------------------------------------------------------
(* Sequences.                                                              *)

LEMMA Appended ==
  ASSUME NEW S, NEW s \in Seq(S), NEW x \in S
  PROVE  /\ Append(s, x) \in Seq(S) /\ Len(Append(s, x)) = Len(s) + 1
         /\ ToSet(Append(s, x)) = ToSet(s) \union {x}
         /\ Distinct(s) /\ x \notin ToSet(s) => Distinct(Append(s, x))
<1>1. /\ Append(s, x) \in Seq(S) /\ Len(s) \in Nat /\ Len(Append(s, x)) = Len(s) + 1
      /\ DOMAIN s = 1 .. Len(s) /\ DOMAIN Append(s, x) = 1 .. (Len(s) + 1)
      /\ \A i \in 1 .. Len(s) : Append(s, x)[i] = s[i]
      /\ Append(s, x)[Len(s) + 1] = x
  OBVIOUS
<1> DEFINE t == Append(s, x)
<1> HIDE DEF t
<1>2. ToSet(t) = ToSet(s) \union {x}
  <2>1. ASSUME NEW y \in ToSet(t) PROVE y \in ToSet(s) \union {x}
    BY <1>1, <2>1 DEF ToSet, t
  <2>2. ASSUME NEW i \in DOMAIN s PROVE s[i] \in ToSet(t)
    BY <1>1 DEF ToSet, t
  <2>3. x \in ToSet(t)
    BY <1>1 DEF ToSet, t
  <2>4. QED
    BY <2>1, <2>2, <2>3 DEF ToSet
<1>3. Distinct(s) /\ x \notin ToSet(s) => Distinct(t)
  BY <1>1 DEF Distinct, ToSet, t
<1>4. QED
  BY <1>1, <1>2, <1>3 DEF t

LEMMA Beheaded ==
  ASSUME NEW S, NEW s \in Seq(S), s # <<>>
  PROVE  /\ Tail(s) \in Seq(S) /\ Head(s) \in S
         /\ ToSet(s) \subseteq ToSet(Tail(s)) \union {Head(s)}
<1>1. /\ Tail(s) \in Seq(S) /\ Head(s) \in S /\ Head(s) = s[1] /\ Len(s) \in Nat /\ Len(s) # 0
      /\ Len(Tail(s)) = Len(s) - 1 /\ \A i \in 1 .. Len(s) - 1 : Tail(s)[i] = s[i + 1]
  BY HeadTailProperties, EmptySeq
<1> DEFINE t == Tail(s)
<1>2. DOMAIN s = 1 .. Len(s) /\ DOMAIN t = 1 .. Len(s) - 1
  BY <1>1
<1> HIDE DEF t
<1>3. ASSUME NEW i \in DOMAIN s, i # 1 PROVE s[i] \in ToSet(t)
  <2>1. i - 1 \in DOMAIN t /\ t[i - 1] = s[i]
    BY <1>1, <1>2, <1>3 DEF t
  <2>2. QED
    BY <2>1 DEF ToSet
<1>4. QED
  BY <1>1, <1>3 DEF ToSet, t

LEMMA RemoveAtProperties ==
  ASSUME NEW S, NEW s \in Seq(S), NEW i \in 1 .. Len(s)
  PROVE  /\ RemoveAt(s, i) \in Seq(S)
         /\ Len(RemoveAt(s, i)) = Len(s) - 1
         /\ \A j \in 1 .. Len(s) - 1 : RemoveAt(s, i)[j] = IF j < i THEN s[j] ELSE s[j + 1]
<1> DEFINE a == SubSeq(s, 1, i - 1)
           b == SubSeq(s, i + 1, Len(s))
           c == a \o b
<1>1. Len(s) \in Nat
  OBVIOUS
<1>2. a \in Seq(S) /\ Len(a) = i - 1 /\ \A j \in 1 .. i - 1 : a[j] = s[j]
  BY <1>1, SubSeqProperties
<1>3. b \in Seq(S) /\ Len(b) = Len(s) - i /\ \A j \in 1 .. Len(s) - i : b[j] = s[i + j]
  BY <1>1, SubSeqProperties
<1> HIDE DEF a, b
<1>4. /\ c \in Seq(S) /\ Len(c) = Len(a) + Len(b)
      /\ \A j \in 1 .. Len(a) + Len(b) : c[j] = IF j <= Len(a) THEN a[j] ELSE b[j - Len(a)]
  BY <1>2, <1>3, ConcatProperties
<1> HIDE DEF c
<1>5. ASSUME NEW j \in 1 .. Len(s) - 1 PROVE c[j] = IF j < i THEN s[j] ELSE s[j + 1]
  <2>1. j \in 1 .. Len(a) + Len(b) /\ Len(a) = i - 1 /\ i \in Nat /\ j \in Nat
    BY <1>1, <1>2, <1>3
  <2>2. CASE j < i
    <3>1. j \in 1 .. i - 1 /\ j <= Len(a)
      BY <1>1, <2>1, <2>2
    <3>2. QED
      BY <1>2, <1>4, <2>1, <2>2, <3>1
  <2>3. CASE ~(j < i)
    <3>1. /\ ~(j <= Len(a)) /\ j - Len(a) \in 1 .. Len(s) - i
          /\ i + (j - Len(a)) = j + 1
      BY <1>1, <2>1, <2>3
    <3>2. c[j] = b[j - Len(a)]
      BY <1>4, <2>1, <3>1
    <3>3. b[j - Len(a)] = s[j + 1]
      BY <1>3, <3>1
    <3>4. QED
      BY <2>3, <3>2, <3>3
  <2>4. QED
    BY <2>2, <2>3
<1>6. Len(c) = Len(s) - 1
  BY <1>1, <1>2, <1>3, <1>4
<1>7. RemoveAt(s, i) = c
  BY DEF RemoveAt, a, b, c
<1>8. QED
  BY <1>4, <1>5, <1>6, <1>7

\* Removing one element keeps the others and their order.
LEMMA Removed ==
  ASSUME NEW S, NEW s \in Seq(S), NEW i \in DOMAIN s
  PROVE  /\ RemoveAt(s, i) \in Seq(S) /\ Len(RemoveAt(s, i)) <= Len(s)
         /\ ToSet(s) \subseteq ToSet(RemoveAt(s, i)) \union {s[i]}
         /\ Distinct(s) => /\ Distinct(RemoveAt(s, i))
                           /\ ToSet(RemoveAt(s, i)) = ToSet(s) \ {s[i]}
<1>1. Len(s) \in Nat /\ DOMAIN s = 1 .. Len(s) /\ i \in 1 .. Len(s)
  OBVIOUS
<1> DEFINE t == RemoveAt(s, i)
<1>2. /\ t \in Seq(S) /\ Len(t) = Len(s) - 1
      /\ \A j \in 1 .. Len(s) - 1 : t[j] = IF j < i THEN s[j] ELSE s[j + 1]
  BY <1>1, RemoveAtProperties
<1> HIDE DEF t
<1>3. DOMAIN t = 1 .. Len(s) - 1
  BY <1>1, <1>2
<1>4. ASSUME NEW j \in DOMAIN s, j # i PROVE s[j] \in ToSet(t)
  <2>1. CASE j < i
    <3>1. j \in DOMAIN t /\ t[j] = s[j]
      BY <1>1, <1>2, <1>3, <2>1
    <3>2. QED
      BY <3>1 DEF ToSet
  <2>2. CASE j > i
    <3>1. j - 1 \in DOMAIN t /\ t[j - 1] = s[j]
      BY <1>1, <1>2, <1>3, <2>2
    <3>2. QED
      BY <3>1 DEF ToSet
  <2>3. QED
    BY <1>1, <1>4, <2>1, <2>2
<1>5. ASSUME Distinct(s)
      PROVE  Distinct(t) /\ ToSet(t) \subseteq ToSet(s) \ {s[i]}
  <2> DEFINE o(j) == IF j < i THEN j ELSE j + 1
  <2>a. \A j \in DOMAIN t : o(j) \in DOMAIN s /\ t[j] = s[o(j)]
    BY <1>1, <1>2, <1>3
  <2>b. \A j, k \in DOMAIN t : o(j) = o(k) => j = k
    BY <1>1, <1>3
  <2>1. Distinct(t)
    <3> HIDE DEF o
    <3>1. QED
      BY <1>5, <2>a, <2>b DEF Distinct
  <2>2. ASSUME NEW j \in DOMAIN t PROVE t[j] \in ToSet(s) \ {s[i]}
    <3>1. CASE j < i
      <4>1. j \in DOMAIN s /\ t[j] = s[j] /\ j # i
        BY <1>1, <1>2, <1>3, <3>1
      <4>2. QED
        BY <1>5, <4>1 DEF Distinct, ToSet
    <3>2. CASE ~(j < i)
      <4>1. j + 1 \in DOMAIN s /\ t[j] = s[j + 1] /\ j + 1 # i
        BY <1>1, <1>2, <1>3, <3>2
      <4>2. QED
        BY <1>5, <4>1 DEF Distinct, ToSet
    <3>3. QED
      BY <3>1, <3>2
  <2>3. QED
    BY <2>1, <2>2 DEF ToSet
<1>6. Len(t) <= Len(s)
  BY <1>1, <1>2
<1>7. ToSet(s) \subseteq ToSet(t) \union {s[i]}
  BY <1>4 DEF ToSet
<1>8. QED
  BY <1>2, <1>5, <1>6, <1>7 DEF t

-----------------------------------------------------------------------------
(* The helpers of the model.                                               *)

LEMMA WithoutType ==
  ASSUME Typed, NEW c
  PROVE  /\ Without(c) \in Seq(opened) /\ Len(Without(c)) <= MaxConnections
         /\ Distinct(Without(c)) /\ ToSet(Without(c)) = ToSet(conns) \ {c}
<1>1. conns \in Seq(opened) /\ Len(conns) <= MaxConnections /\ Distinct(conns)
  BY DEF Typed, MapsOK
<1>2. CASE c \in ToSet(conns)
  <2> DEFINE i == CHOOSE k \in DOMAIN conns : conns[k] = c
  <2>1. i \in DOMAIN conns /\ conns[i] = c
    BY <1>2 DEF ToSet
  <2>2. Without(c) = RemoveAt(conns, i)
    BY <1>2 DEF Without
  <2> HIDE DEF i
  <2>3. /\ RemoveAt(conns, i) \in Seq(opened) /\ Len(RemoveAt(conns, i)) <= Len(conns)
        /\ Distinct(RemoveAt(conns, i)) /\ ToSet(RemoveAt(conns, i)) = ToSet(conns) \ {conns[i]}
    BY <1>1, <2>1, Removed
  <2>4. Len(conns) \in Nat /\ Len(RemoveAt(conns, i)) \in Nat /\ MaxConnections \in Nat
    BY <1>1, <2>3, Limits, LenProperties
  <2>5. Len(RemoveAt(conns, i)) <= MaxConnections
    BY <1>1, <2>3, <2>4
  <2>6. QED
    BY <2>1, <2>2, <2>3, <2>5
<1>3. CASE c \notin ToSet(conns)
  <2>1. Without(c) = conns
    BY <1>3 DEF Without
  <2>2. QED
    BY <1>1, <1>3, <2>1
<1>4. QED
  BY <1>2, <1>3

LEMMA DroppedType ==
  ASSUME Typed, NEW p \in Publisher, NEW c \in Client
  PROVE  /\ Dropped(p, c) \in Seq(Write)
         /\ \A w \in ToSet(unread[c]) : w.by # p => w \in ToSet(Dropped(p, c))
<1>1. unread[c] \in Seq(Write)
  BY DEF Typed, TailsOK
<1>2. CASE Waiting(p, c)
  <2> DEFINE i == CHOOSE k \in DOMAIN unread[c] : unread[c][k].by = p
  <2>1. i \in DOMAIN unread[c] /\ unread[c][i].by = p
    BY <1>2 DEF Waiting
  <2>2. Dropped(p, c) = RemoveAt(unread[c], i)
    BY <1>2 DEF Dropped
  <2> HIDE DEF i
  <2>3. QED
    BY <1>1, <2>1, <2>2, Removed
<1>3. CASE ~Waiting(p, c)
  BY <1>1, <1>3 DEF Dropped
<1>4. QED
  BY <1>2, <1>3

\* What is to be waited for is in the queue of writes.
LEMMA WaitingIs ==
  ASSUME NEW p, NEW c
  PROVE  Waiting(p, c) <=> \E w \in ToSet(unread[c]) : w.by = p
BY DEF Waiting, ToSet

LEMMA LineWrite ==
  ASSUME NEW p \in Publisher, NEW x \in Chunk
  PROVE  [chunk |-> x, by |-> p] \in Write /\ [chunk |-> x, by |-> p].by = p
BY DEF Write

-----------------------------------------------------------------------------
(* Frames.                                                                 *)

LEMMA FanFrame ==
  ASSUME NEW p \in Publisher, FanOK(p), fan'[p] = fan[p], published \subseteq published',
         opened \subseteq opened'
  PROVE  FanOK(p)'
BY DEF FanOK

\* A step of the fanout of p that sets its locals to r.
LEMMA FanStep ==
  ASSUME FansOK, NEW p \in Publisher, NEW r \in Fan, fan' = [fan EXCEPT ![p] = r],
         published \subseteq published', opened \subseteq opened',
         r.pc = "idle" => r = Idle,
         r.pc # "idle" => r.line \in published',
         r.pc \in {"overflow", "line"} => r.at \in opened'
  PROVE  /\ FansOK' /\ fan'[p] = r
         /\ \A q \in Publisher \ {p} : fan'[q] = fan[q]
<1>1. /\ fan' \in [Publisher -> Fan] /\ fan'[p] = r
      /\ \A q \in Publisher \ {p} : fan'[q] = fan[q]
  BY DEF FansOK
<1>2. FanOK(p)'
  BY <1>1 DEF FanOK
<1>3. ASSUME NEW q \in Publisher \ {p} PROVE FanOK(q)'
  BY <1>1, FanFrame DEF FansOK
<1>4. QED
  BY <1>1, <1>2, <1>3 DEF FansOK

\* A fanout that does nothing still owes no more than it comes to.
LEMMA OwedFrame ==
  ASSUME Typed, NEW p \in Publisher, Owed(p), fan'[p] = fan[p], gone \subseteq gone',
         \A l \in published : audience'[l] = audience[l],
         \A c \in Client : ToSet(got[c]) \subseteq ToSet(got'[c]),
         ToSet(conns) \subseteq ToSet(conns') \union gone',
         \A c \in Client : Sent(p, c) =>
           Sent(p, c)' \/ c \in gone' \/ fan[p].line \in ToSet(got'[c])
  PROVE  Owed(p)'
<1>1. SUFFICES ASSUME fan[p].pc # "idle", NEW c \in audience[fan[p].line],
                      <<c, fan[p].line>> \in Wants
               PROVE  Due(p, c)'
  BY DEF Owed, Typed, FansOK, FanOK
<1>2. Due(p, c)
  BY <1>1 DEF Owed
<1>3. c \in Client
  BY <1>1 DEF Typed, FansOK, FanOK, LinesOK
<1>4. QED
  BY <1>2, <1>3 DEF Due

\* What was read stays read.
LEMMA ReadFrame ==
  ASSUME Typed, AnsweredIsRead, answered' = answered, gone \subseteq gone',
         \A l \in published : audience'[l] = audience[l],
         \A c \in Client : ToSet(got[c]) \subseteq ToSet(got'[c])
  PROVE  AnsweredIsRead'
BY DEF AnsweredIsRead, Typed, LinesOK

\* Buffers left behind stay with the fanouts that left them.
LEMMA MappedFrame ==
  ASSUME Mapped, UNCHANGED <<opened, gone>>, ToSet(conns') = ToSet(conns), buffers' = buffers,
         \A p \in Publisher, c \in Client : c \in gone /\ Left(p, c) => Left(p, c)',
         opened \subseteq Client, buffers \subseteq opened
  PROVE  Mapped'
BY DEF Mapped

LEMMA InitIInv == Init => IInv
<1> SUFFICES ASSUME Init PROVE IInv
  OBVIOUS
<1>1. <<>> \in Seq(opened) /\ Len(<<>>) = 0 /\ ToSet(<<>>) = {} /\ Distinct(<<>>)
  BY DEF ToSet, Distinct
<1>2. MapsOK
  BY <1>1, Limits DEF Init, MapsOK
<1>3. TailsOK /\ LinesOK
  BY DEF Init, TailsOK, LinesOK
<1>4. FansOK /\ \A p \in Publisher : Owed(p)
  BY DEF Init, FansOK, FanOK, Fan, Idle, Owed
<1>5. Mapped /\ AnsweredIsRead
  BY <1>1 DEF Init, Mapped, AnsweredIsRead
<1>6. QED
  BY <1>2, <1>3, <1>4, <1>5 DEF IInv, Typed

-----------------------------------------------------------------------------
(* The clients.                                                            *)

LEMMA OpenTailStep ==
  ASSUME IInv, NEW c \in Client, OpenTail(c)
  PROVE  IInv'
<1>a. Typed /\ conns \in Seq(opened) /\ Len(conns) \in Nat /\ MaxConnections \in Nat
  BY Limits DEF IInv, Typed, MapsOK
<1>b. /\ c \notin opened /\ Len(conns) < MaxConnections /\ opened' = opened \union {c}
      /\ conns' = Append(conns, c) /\ buffers' = buffers \union {c}
      /\ UNCHANGED <<gone, buffer, unread, got, fan, published, answered, audience>>
  BY DEF OpenTail, lineVars
<1>c. ToSet(conns) \subseteq opened
  BY <1>a DEF ToSet
<1>d. conns \in Seq(opened')
  BY <1>a, <1>b
<1>1. /\ conns' \in Seq(opened') /\ Len(conns') = Len(conns) + 1
      /\ ToSet(conns') = ToSet(conns) \union {c} /\ Distinct(conns')
  BY <1>a, <1>b, <1>c, <1>d, Appended DEF Typed, MapsOK
<1>2. MapsOK'
  BY <1>a, <1>b, <1>1 DEF Typed, MapsOK
<1>3. TailsOK' /\ LinesOK'
  BY <1>a, <1>b DEF Typed, TailsOK, LinesOK
<1>4. FansOK'
  BY <1>a, <1>b DEF Typed, FansOK, FanOK
<1>5. \A p \in Publisher : Owed(p)'
  BY <1>a, <1>b, <1>1, OwedFrame DEF IInv, Sent
<1>6. Mapped'
  BY <1>b, <1>1 DEF IInv, Mapped, Left, Waiting
<1>7. AnsweredIsRead'
  BY <1>a, <1>b, ReadFrame DEF IInv
<1>8. QED
  BY <1>2, <1>3, <1>4, <1>5, <1>6, <1>7 DEF IInv, Typed

LEMMA DisconnectStep ==
  ASSUME IInv, NEW c \in Client, Disconnect(c)
  PROVE  IInv'
<1>a. Typed
  BY DEF IInv
<1>b. /\ c \in opened /\ gone' = gone \union {c}
      /\ UNCHANGED <<conns, buffers, opened, buffer, unread, got, fan, published, answered, audience>>
  BY DEF Disconnect, lineVars
<1>1. MapsOK' /\ TailsOK' /\ LinesOK' /\ FansOK'
  BY <1>a, <1>b DEF Typed, MapsOK, TailsOK, LinesOK, FansOK, FanOK
<1>2. \A p \in Publisher : Owed(p)'
  BY <1>a, <1>b, OwedFrame DEF IInv, Sent
<1>3. Mapped'
  BY <1>b DEF IInv, Mapped, Left, Waiting
<1>4. AnsweredIsRead'
  BY <1>a, <1>b, ReadFrame DEF IInv
<1>5. QED
  BY <1>1, <1>2, <1>3, <1>4 DEF IInv, Typed

LEMMA HeartbeatStep ==
  ASSUME IInv, NEW c \in Client, Heartbeat(c)
  PROVE  IInv'
<1>a. Typed
  BY DEF IInv
<1>b. /\ c \in gone /\ conns' = Without(c) /\ buffers' = buffers \ {c}
      /\ UNCHANGED <<opened, gone, buffer, unread, got, fan, published, answered, audience>>
  BY DEF Heartbeat, Close, lineVars
<1>c. /\ conns' \in Seq(opened') /\ Len(conns') <= MaxConnections
      /\ Distinct(conns') /\ ToSet(conns') = ToSet(conns) \ {c}
  BY <1>a, <1>b, WithoutType
<1>1. MapsOK' /\ TailsOK' /\ LinesOK' /\ FansOK'
  BY <1>a, <1>b, <1>c DEF Typed, MapsOK, TailsOK, LinesOK, FansOK, FanOK
<1>2. \A p \in Publisher : Owed(p)'
  BY <1>a, <1>b, <1>c, OwedFrame DEF IInv, Sent
<1>3. Mapped'
  BY <1>b, <1>c DEF IInv, Mapped, Left, Waiting
<1>4. AnsweredIsRead'
  BY <1>a, <1>b, ReadFrame DEF IInv
<1>5. QED
  BY <1>1, <1>2, <1>3, <1>4 DEF IInv, Typed

LEMMA ReadStep ==
  ASSUME IInv, NEW c \in Client, Read(c)
  PROVE  IInv'
<1>a. Typed /\ unread[c] \in Seq(Write) /\ got[c] \in Seq(Chunk) /\ unread[c] # <<>> /\ c \notin gone
  BY DEF IInv, Typed, TailsOK, Read
<1> DEFINE h == Head(unread[c])
<1>b. /\ got' = [got EXCEPT ![c] = Append(@, h.chunk)]
      /\ unread' = [unread EXCEPT ![c] = Tail(@)]
      /\ UNCHANGED <<conns, buffers, opened, gone, buffer, fan, published, answered, audience>>
  BY DEF Read, connVars, lineVars
<1>c. /\ Tail(unread[c]) \in Seq(Write) /\ h \in Write
      /\ ToSet(unread[c]) \subseteq ToSet(Tail(unread[c])) \union {h}
  BY <1>a, Beheaded
<1>d. h.chunk \in Chunk
  BY <1>c DEF Write
<1>e. /\ Append(got[c], h.chunk) \in Seq(Chunk)
      /\ ToSet(Append(got[c], h.chunk)) = ToSet(got[c]) \union {h.chunk}
  BY <1>a, <1>d, Appended
<1> HIDE DEF h
<1>f. /\ got'[c] = Append(got[c], h.chunk) /\ unread'[c] = Tail(unread[c])
      /\ \A d \in Client \ {c} : got'[d] = got[d] /\ unread'[d] = unread[d]
  BY <1>a, <1>b DEF Typed, TailsOK
<1>1. TailsOK'
  BY <1>a, <1>b, <1>c, <1>e DEF Typed, TailsOK
<1>2. MapsOK' /\ LinesOK' /\ FansOK'
  BY <1>a, <1>b DEF Typed, MapsOK, LinesOK, FansOK, FanOK
<1>3. \A d \in Client : ToSet(got[d]) \subseteq ToSet(got'[d])
  BY <1>e, <1>f
<1>4. ASSUME NEW p \in Publisher PROVE Owed(p)'
  <2>1. ASSUME NEW d \in Client, Sent(p, d)
        PROVE  Sent(p, d)' \/ fan[p].line \in ToSet(got'[d])
    <3>1. CASE d # c
      BY <1>b, <1>f, <2>1, <3>1 DEF Sent
    <3>2. CASE d = c
      <4> DEFINE w == [chunk |-> fan[p].line, by |-> p]
      <4>1. w \in ToSet(Tail(unread[c])) \/ w = h
        BY <1>c, <2>1, <3>2 DEF Sent
      <4>2. w.chunk = fan[p].line
        OBVIOUS
      <4>3. QED
        BY <1>b, <1>e, <1>f, <3>2, <4>1, <4>2 DEF Sent
    <3>3. QED
      BY <3>1, <3>2
  <2>2. QED
    BY <1>a, <1>b, <1>3, <2>1, OwedFrame DEF IInv
<1>5. Mapped'
  <2>1. ASSUME NEW p \in Publisher, NEW d \in Client, d \in gone, Left(p, d) PROVE Left(p, d)'
    BY <1>a, <1>b, <1>f, <2>1 DEF Left, Waiting
  <2>2. QED
    BY <1>a, <1>b, <2>1, MappedFrame DEF IInv, Typed, MapsOK
<1>6. AnsweredIsRead'
  BY <1>a, <1>b, <1>3, ReadFrame DEF IInv
<1>7. QED
  BY <1>1, <1>2, <1>4, <1>5, <1>6 DEF IInv, Typed

-----------------------------------------------------------------------------
(* The fanouts.                                                            *)

\* Locals of a fanout that goes on to another point.
LEMMA FanLocals ==
  ASSUME Typed, NEW p \in Publisher
  PROVE  /\ fan[p] \in Fan /\ FanOK(p)
         /\ fan[p].pc # "idle" => fan[p].line \in Line /\ fan[p].line \in published
         /\ fan[p].pc \in {"overflow", "line"} => fan[p].at \in Client
<1>1. fan[p] \in Fan /\ FanOK(p)
  BY DEF Typed, FansOK
<1>2. QED
  BY <1>1 DEF FanOK, Typed, LinesOK, MapsOK

LEMMA PublishStep ==
  ASSUME IInv, NEW p \in Publisher, NEW l \in Line, Publish(p, l)
  PROVE  IInv'
<1> DEFINE r == [pc |-> "next", line |-> l, visited |-> {}, at |-> None]
<1>a. Typed /\ l \notin published
  BY DEF IInv, Publish
<1>b. /\ fan' = [fan EXCEPT ![p] = r] /\ published' = published \union {l}
      /\ audience' = [audience EXCEPT ![l] = ToSet(conns)]
      /\ UNCHANGED <<conns, buffers, opened, gone, buffer, unread, got, answered>>
  BY DEF Publish, connVars
<1>c. r \in Fan /\ r.pc = "next" /\ r.line = l /\ r.visited = {}
  BY DEF Fan
<1> HIDE DEF r
<1>d. ToSet(conns) \subseteq Client
  BY <1>a DEF Typed, MapsOK, ToSet
<1>e. /\ audience' \in [Line -> SUBSET Client] /\ audience'[l] = ToSet(conns)
      /\ \A k \in published : audience'[k] = audience[k]
  BY <1>a, <1>b, <1>d DEF Typed, LinesOK
<1>1. /\ FansOK' /\ fan'[p] = r /\ \A q \in Publisher \ {p} : fan'[q] = fan[q]
  BY <1>a, <1>b, <1>c, FanStep DEF Typed
<1>2. MapsOK' /\ TailsOK' /\ LinesOK'
  BY <1>a, <1>b, <1>e DEF Typed, MapsOK, TailsOK, LinesOK
<1>3. ASSUME NEW q \in Publisher \ {p} PROVE Owed(q)'
  BY <1>a, <1>b, <1>e, <1>1, OwedFrame DEF IInv, Sent
<1>4. Owed(p)'
  BY <1>b, <1>c, <1>e, <1>1 DEF Owed, Due
<1>5. Mapped'
  <2>1. fan[p].pc = "idle"
    BY DEF Publish, Idle
  <2>2. ASSUME NEW q \in Publisher, NEW c \in Client, Left(q, c) PROVE Left(q, c)'
    BY <1>b, <1>1, <2>1, <2>2 DEF Left, Waiting
  <2>3. QED
    BY <1>a, <1>b, <2>2, MappedFrame DEF IInv, Typed, MapsOK
<1>6. AnsweredIsRead'
  BY <1>a, <1>b, <1>e, ReadFrame DEF IInv
<1>7. QED
  BY <1>1, <1>2, <1>3, <1>4, <1>5, <1>6 DEF IInv, Typed

\* A fanout that begins to write to c: what it writes is last in c's queue.
LEMMA BeginStep ==
  ASSUME IInv, NEW p \in Publisher, NEW c \in ToSet(conns), NEW chunk \in Chunk,
         NEW pc \in {"overflow", "line"},
         fan[p].pc = "next", Begin(p, c, chunk, pc),
         pc = "line" => chunk = fan[p].line,
         buffer' \in [Client -> Seq(Line)], buffers' \in {buffers, buffers \union {c}},
         UNCHANGED <<conns, opened, gone, got, lineVars>>
  PROVE  IInv'
<1>a. Typed /\ c \in Client /\ c \in opened /\ unread[c] \in Seq(Write) /\ c \in buffers
  BY DEF IInv, Mapped, Typed, MapsOK, TailsOK, ToSet
<1>b. UNCHANGED <<conns, opened, gone, got, published, answered, audience>>
  BY DEF lineVars
<1> DEFINE w == [chunk |-> chunk, by |-> p]
           r == [fan[p] EXCEPT !.pc = pc, !.at = c, !.visited = @ \union {c}]
<1>c. fan[p] \in Fan /\ FanOK(p)
  BY <1>a DEF Typed, FansOK
<1>d. /\ r \in Fan /\ r.pc = pc /\ r.at = c /\ r.line = fan[p].line
      /\ r.visited = fan[p].visited \union {c}
  BY <1>a, <1>c DEF Fan
<1>e. fan' = [fan EXCEPT ![p] = r] /\ unread' = [unread EXCEPT ![c] = Append(@, w)]
  BY <1>c DEF Begin
<1>f. w \in Write /\ w.by = p
  BY LineWrite
<1> HIDE DEF w, r
<1>g. /\ Append(unread[c], w) \in Seq(Write)
      /\ ToSet(Append(unread[c], w)) = ToSet(unread[c]) \union {w}
  BY <1>a, <1>f, Appended
<1>h. /\ unread' \in [Client -> Seq(Write)] /\ ToSet(unread'[c]) = ToSet(unread[c]) \union {w}
      /\ \A d \in Client \ {c} : unread'[d] = unread[d]
  BY <1>a, <1>e, <1>g DEF Typed, TailsOK
<1>1. /\ FansOK' /\ fan'[p] = r /\ \A q \in Publisher \ {p} : fan'[q] = fan[q]
  BY <1>a, <1>b, <1>c, <1>d, <1>e, FanStep DEF Typed, FanOK
<1>2. MapsOK' /\ TailsOK' /\ LinesOK'
  BY <1>a, <1>b, <1>h DEF Typed, MapsOK, TailsOK, LinesOK
<1>3. ASSUME NEW q \in Publisher \ {p} PROVE Owed(q)'
  BY <1>a, <1>b, <1>h, <1>1, OwedFrame DEF IInv, Sent
<1>4. Owed(p)'
  <2>1. SUFFICES ASSUME NEW d \in audience[fan[p].line], <<d, fan[p].line>> \in Wants
                 PROVE  Due(p, d)'
    BY <1>b, <1>d, <1>1 DEF Owed
  <2>2. d \in gone \/ fan[p].line \in ToSet(got[d]) \/ d \in ToSet(conns) \ fan[p].visited
    BY <2>1 DEF IInv, Owed, Due
  <2>3. CASE d = c
    <3>1. pc = "line" => Sent(p, c)'
      BY <1>d, <1>h, <1>1 DEF Sent, w
    <3>2. QED
      BY <1>d, <1>1, <2>3, <3>1 DEF Due
  <2>4. CASE d # c
    BY <1>b, <1>d, <1>1, <2>2, <2>4 DEF Due
  <2>5. QED
    BY <2>3, <2>4
<1>5. Mapped'
  <2>1. ASSUME NEW q \in Publisher, NEW d \in Client, Left(q, d) PROVE Left(q, d)'
    <3>1. q # p
      BY <2>1 DEF Left
    <3>2. \E x \in ToSet(unread'[d]) : x.by = q
      BY <1>h, <2>1, WaitingIs DEF Left
    <3>3. Waiting(q, d)'
      BY <3>2 DEF Waiting, ToSet
    <3>4. QED
      BY <1>1, <2>1, <3>1, <3>3 DEF Left
  <2>2. QED
    BY <1>a, <1>b, <2>1, MappedFrame DEF IInv, Typed, MapsOK
<1>6. AnsweredIsRead'
  BY <1>a, <1>b, ReadFrame DEF IInv
<1>7. QED
  BY <1>1, <1>2, <1>3, <1>4, <1>5, <1>6 DEF IInv, Typed

LEMMA VisitStep ==
  ASSUME IInv, NEW p \in Publisher, Visit(p)
  PROVE  IInv'
<1>a. Typed /\ fan[p].pc = "next" /\ UNCHANGED <<conns, opened, gone, got, lineVars>>
  BY DEF IInv, Visit
<1>b. fan[p] \in Fan /\ FanOK(p) /\ fan[p].line \in Line /\ fan[p].line \in published
  BY <1>a, FanLocals
<1>1. PICK c \in ToSet(conns) :
        \/ /\ <<c, fan[p].line>> \notin Wants
           /\ fan' = [fan EXCEPT ![p].visited = @ \union {c}]
           /\ UNCHANGED <<buffer, buffers, unread>>
        \/ /\ Len(buffer[c]) >= BufferSize
           /\ buffer' = [buffer EXCEPT ![c] = Tail(@)]
           /\ Begin(p, c, Overflow, "overflow")
           /\ UNCHANGED buffers
        \/ /\ buffer' = [buffer EXCEPT ![c] = Append(@, fan[p].line)]
           /\ buffers' = buffers \union {c}
           /\ Begin(p, c, fan[p].line, "line")
  BY DEF Visit
<1>c. c \in Client /\ buffer[c] \in Seq(Line) /\ c \in opened
  BY <1>a DEF Typed, MapsOK, TailsOK, ToSet
<1>2. CASE /\ <<c, fan[p].line>> \notin Wants
           /\ fan' = [fan EXCEPT ![p].visited = @ \union {c}]
           /\ UNCHANGED <<buffer, buffers, unread>>
  <2> DEFINE r == [fan[p] EXCEPT !.visited = @ \union {c}]
  <2>1. /\ r \in Fan /\ r.pc = "next" /\ r.at = fan[p].at /\ r.line = fan[p].line
        /\ r.visited = fan[p].visited \union {c} /\ fan' = [fan EXCEPT ![p] = r]
    BY <1>a, <1>b, <1>c, <1>2 DEF Fan
  <2> HIDE DEF r
  <2>2. UNCHANGED <<conns, opened, gone, got, buffer, buffers, unread, published, answered, audience>>
    BY <1>a, <1>2 DEF lineVars
  <2>3. /\ FansOK' /\ fan'[p] = r /\ \A q \in Publisher \ {p} : fan'[q] = fan[q]
    BY <1>a, <1>b, <2>1, <2>2, FanStep DEF Typed
  <2>4. MapsOK' /\ TailsOK' /\ LinesOK'
    BY <1>a, <2>2 DEF Typed, MapsOK, TailsOK, LinesOK
  <2>5. ASSUME NEW q \in Publisher \ {p} PROVE Owed(q)'
    BY <1>a, <2>2, <2>3, OwedFrame DEF IInv, Sent
  <2>6. Owed(p)'
    BY <1>a, <1>2, <2>1, <2>2, <2>3 DEF IInv, Owed, Due
  <2>7. Mapped'
    <3>1. ASSUME NEW q \in Publisher, NEW d \in Client, Left(q, d) PROVE Left(q, d)'
      BY <1>a, <2>2, <2>3, <3>1 DEF Left, Waiting
    <3>2. QED
      BY <1>a, <2>2, <3>1, MappedFrame DEF IInv, Typed, MapsOK
  <2>8. AnsweredIsRead'
    BY <1>a, <2>2, ReadFrame DEF IInv
  <2>9. QED
    BY <2>3, <2>4, <2>5, <2>6, <2>7, <2>8 DEF IInv, Typed
<1>3. CASE /\ Len(buffer[c]) >= BufferSize
           /\ buffer' = [buffer EXCEPT ![c] = Tail(@)]
           /\ Begin(p, c, Overflow, "overflow")
           /\ UNCHANGED buffers
  <2>1. Overflow \in Chunk
    BY DEF Chunk
  <2>2. buffer[c] # <<>>
    BY <1>c, <1>3, Limits
  <2>3. Tail(buffer[c]) \in Seq(Line)
    BY <1>c, <2>2, Beheaded
  <2>4. buffer' \in [Client -> Seq(Line)]
    BY <1>a, <1>3, <2>3 DEF Typed, TailsOK
  <2>5. QED
    BY <1>a, <1>3, <2>1, <2>4, BeginStep
<1>4. CASE /\ buffer' = [buffer EXCEPT ![c] = Append(@, fan[p].line)]
           /\ buffers' = buffers \union {c}
           /\ Begin(p, c, fan[p].line, "line")
  <2>1. fan[p].line \in Chunk
    BY <1>b DEF Chunk
  <2>2. Append(buffer[c], fan[p].line) \in Seq(Line)
    BY <1>b, <1>c
  <2>3. buffer' \in [Client -> Seq(Line)]
    BY <1>a, <1>4, <2>2 DEF Typed, TailsOK
  <2>4. QED
    BY <1>a, <1>4, <2>1, <2>3, BeginStep
<1>5. QED
  BY <1>1, <1>2, <1>3, <1>4

\* A step of the fanout of p that drops its write to c, may add one, and may
\* close c if its client has gone: the other fanouts are not concerned.
LEMMA OthersFrame ==
  ASSUME IInv, NEW p \in Publisher, NEW c \in Client, NEW q \in Publisher \ {p},
         fan'[q] = fan[q], UNCHANGED <<gone, got, audience>>,
         ToSet(conns) \subseteq ToSet(conns') \union gone,
         ToSet(Dropped(p, c)) \subseteq ToSet(unread'[c]),
         \A d \in Client \ {c} : unread'[d] = unread[d]
  PROVE  /\ Owed(q)'
         /\ \A d \in Client : Left(q, d) => Left(q, d)'
<1>a. Typed
  BY DEF IInv
<1>1. ASSUME NEW d \in Client, NEW w \in ToSet(unread[d]), w.by = q
      PROVE  w \in ToSet(unread'[d])
  <2>1. CASE d = c
    <3>1. w \in ToSet(Dropped(p, c))
      BY <1>a, <1>1, <2>1, DroppedType
    <3>2. QED
      BY <2>1, <3>1
  <2>2. CASE d # c
    BY <1>1, <2>2
  <2>3. QED
    BY <2>1, <2>2
<1>2. ASSUME NEW d \in Client, Sent(q, d) PROVE Sent(q, d)'
  <2> DEFINE w == [chunk |-> fan[q].line, by |-> q]
  <2>1. w \in ToSet(unread[d]) /\ w.by = q
    BY <1>2 DEF Sent
  <2>2. w \in ToSet(unread'[d])
    BY <1>1, <2>1
  <2>3. QED
    BY <2>2 DEF Sent
<1>3. Owed(q)'
  BY <1>a, <1>2, OwedFrame DEF IInv
<1>4. ASSUME NEW d \in Client, Left(q, d) PROVE Left(q, d)'
  <2>1. PICK w \in ToSet(unread[d]) : w.by = q
    BY <1>4, WaitingIs DEF Left
  <2>2. w \in ToSet(unread'[d])
    BY <1>1, <2>1
  <2>3. Waiting(q, d)'
    BY <2>1, <2>2 DEF Waiting, ToSet
  <2>4. QED
    BY <1>4, <2>3 DEF Left
<1>5. QED
  BY <1>3, <1>4

LEMMA AfterOverflowStep ==
  ASSUME IInv, NEW p \in Publisher, AfterOverflow(p)
  PROVE  IInv'
<1>z. PICK c : c = fan[p].at
  OBVIOUS
<1> DEFINE w == [chunk |-> fan[p].line, by |-> p]
           r == [fan[p] EXCEPT !.pc = "line"]
<1>a. /\ fan[p].pc = "overflow" /\ (~Waiting(p, c) \/ c \in gone)
      /\ buffer' = [buffer EXCEPT ![c] = Append(@, fan[p].line)]
      /\ IF Waiting(p, c) THEN conns' = Without(c) ELSE conns' = conns
      /\ buffers' = buffers \union {c}
      /\ unread' = [unread EXCEPT ![c] = Append(Dropped(p, c), w)]
      /\ UNCHANGED <<opened, gone, got, published, answered, audience>>
  BY <1>z DEF AfterOverflow, lineVars
<1>b. /\ Typed /\ fan[p] \in Fan /\ FanOK(p) /\ fan[p].line \in Line /\ fan[p].line \in published
      /\ c \in Client
  BY <1>z, <1>a, FanLocals DEF IInv
<1>c. c \in opened /\ buffer[c] \in Seq(Line)
  BY <1>z, <1>a, <1>b DEF FanOK, Typed, TailsOK
<1>d. r \in Fan /\ r.pc = "line" /\ r.at = c /\ r.line = fan[p].line /\ r.visited = fan[p].visited
  BY <1>z, <1>b DEF Fan
<1>e. fan' = [fan EXCEPT ![p] = r]
  BY <1>b DEF AfterOverflow
<1>f. w \in Write /\ w.by = p
  BY <1>b, LineWrite DEF Chunk
<1> HIDE DEF w, r
<1>g. /\ Dropped(p, c) \in Seq(Write) /\ Append(Dropped(p, c), w) \in Seq(Write)
      /\ ToSet(Append(Dropped(p, c), w)) = ToSet(Dropped(p, c)) \union {w}
  BY <1>b, <1>f, DroppedType, Appended
<1>h. /\ unread' \in [Client -> Seq(Write)]
      /\ ToSet(unread'[c]) = ToSet(Dropped(p, c)) \union {w}
      /\ \A d \in Client \ {c} : unread'[d] = unread[d]
  BY <1>a, <1>b, <1>g DEF Typed, TailsOK
<1>i. /\ conns' \in Seq(opened) /\ Len(conns') <= MaxConnections /\ Distinct(conns')
      /\ ToSet(conns') \subseteq ToSet(conns)
      /\ ToSet(conns) \subseteq ToSet(conns') \union {c}
      /\ ToSet(conns') = ToSet(conns) \/ c \in gone
  BY <1>a, <1>b, WithoutType DEF Typed, MapsOK
<1>j. ToSet(conns) \subseteq ToSet(conns') \union gone
  BY <1>i
<1>1. /\ FansOK' /\ fan'[p] = r /\ \A q \in Publisher \ {p} : fan'[q] = fan[q]
  BY <1>a, <1>b, <1>c, <1>d, <1>e, FanStep DEF Typed
<1>2. buffer' \in [Client -> Seq(Line)]
  BY <1>a, <1>b, <1>c DEF Typed, TailsOK
<1>3. MapsOK' /\ TailsOK' /\ LinesOK'
  BY <1>a, <1>b, <1>c, <1>h, <1>i, <1>2 DEF Typed, MapsOK, TailsOK, LinesOK
<1>4. ASSUME NEW q \in Publisher \ {p}
      PROVE  Owed(q)' /\ \A d \in Client : Left(q, d) => Left(q, d)'
  BY <1>a, <1>b, <1>h, <1>j, <1>1, OthersFrame
<1>5. Owed(p)'
  <2>1. SUFFICES ASSUME NEW d \in audience[fan[p].line], <<d, fan[p].line>> \in Wants
                 PROVE  Due(p, d)'
    BY <1>a, <1>d, <1>1 DEF Owed
  <2>2. Due(p, d)
    BY <1>a, <2>1 DEF IInv, Owed
  <2>3. CASE d = c
    <3>1. Sent(p, c)'
      BY <1>d, <1>h, <1>1 DEF Sent, w
    <3>2. QED
      BY <1>d, <1>1, <2>3, <3>1 DEF Due
  <2>4. CASE d # c
    BY <1>z, <1>a, <1>d, <1>i, <1>1, <2>2, <2>4 DEF Due
  <2>5. QED
    BY <2>3, <2>4
<1>6. Mapped'
  <2>1. opened' \ gone' \subseteq ToSet(conns')
    BY <1>a, <1>j DEF IInv, Mapped
  <2>2. ToSet(conns') \subseteq buffers'
    BY <1>a, <1>i DEF IInv, Mapped
  <2>3. Left(p, c)'
    <3>1. Waiting(p, c)'
      BY <1>f, <1>h DEF Waiting, ToSet
    <3>2. QED
      BY <1>d, <1>1, <3>1 DEF Left
  <2>4. ASSUME NEW d \in buffers' \ ToSet(conns') PROVE d \in gone' /\ \E q \in Publisher : Left(q, d)'
    <3>1. CASE d = c
      BY <1>a, <1>c, <2>1, <2>3, <2>4, <3>1
    <3>2. CASE d # c
      <4>1. d \in buffers \ ToSet(conns) /\ d \in Client
        BY <1>a, <1>b, <1>i, <2>4, <3>2 DEF Typed, MapsOK
      <4>2. PICK q \in Publisher : Left(q, d)
        BY <4>1 DEF IInv, Mapped
      <4>3. q # p
        BY <1>a, <4>2 DEF Left
      <4>4. QED
        BY <1>a, <1>4, <4>1, <4>2, <4>3 DEF IInv, Mapped
    <3>3. QED
      BY <3>1, <3>2
  <2>5. QED
    BY <2>1, <2>2, <2>4 DEF Mapped
<1>7. AnsweredIsRead'
  BY <1>a, <1>b, ReadFrame DEF IInv
<1>8. QED
  BY <1>1, <1>3, <1>4, <1>5, <1>6, <1>7 DEF IInv, Typed

LEMMA LineReadStep ==
  ASSUME IInv, NEW p \in Publisher, LineRead(p)
  PROVE  IInv'
<1> DEFINE r == [fan[p] EXCEPT !.pc = "next", !.at = None]
<1>a. /\ fan[p].pc = "line" /\ ~Waiting(p, fan[p].at)
      /\ UNCHANGED <<conns, buffers, opened, gone, buffer, unread, got, published, answered, audience>>
  BY DEF LineRead, connVars, lineVars
<1>b. Typed /\ fan[p] \in Fan /\ FanOK(p) /\ fan[p].line \in published
  BY <1>a, FanLocals DEF IInv
<1>c. /\ r \in Fan /\ r.pc = "next" /\ r.line = fan[p].line /\ r.visited = fan[p].visited
      /\ fan' = [fan EXCEPT ![p] = r]
  BY <1>b DEF Fan, LineRead
<1> HIDE DEF r
<1>1. /\ FansOK' /\ fan'[p] = r /\ \A q \in Publisher \ {p} : fan'[q] = fan[q]
  BY <1>a, <1>b, <1>c, FanStep DEF Typed
<1>2. MapsOK' /\ TailsOK' /\ LinesOK'
  BY <1>a, <1>b DEF Typed, MapsOK, TailsOK, LinesOK
<1>3. ASSUME NEW q \in Publisher \ {p} PROVE Owed(q)'
  BY <1>a, <1>b, <1>1, OwedFrame DEF IInv, Sent
<1>4. Owed(p)'
  <2>1. ~Sent(p, fan[p].at)
    BY <1>a, WaitingIs DEF Sent
  <2>2. QED
    BY <1>a, <1>c, <1>1, <2>1 DEF IInv, Owed, Due
<1>5. Mapped'
  <2>1. ASSUME NEW q \in Publisher, NEW d \in Client, Left(q, d) PROVE Left(q, d)'
    BY <1>a, <1>1, <2>1 DEF Left, Waiting
  <2>2. QED
    BY <1>a, <1>b, <2>1, MappedFrame DEF IInv, Typed, MapsOK
<1>6. AnsweredIsRead'
  BY <1>a, <1>b, ReadFrame DEF IInv
<1>7. QED
  BY <1>1, <1>2, <1>3, <1>4, <1>5, <1>6 DEF IInv, Typed

LEMMA LineFailsStep ==
  ASSUME IInv, NEW p \in Publisher, LineFails(p)
  PROVE  IInv'
<1> DEFINE c == fan[p].at
           r == [fan[p] EXCEPT !.pc = "next", !.at = None]
<1>a. /\ fan[p].pc = "line" /\ c \in gone
      /\ conns' = Without(c) /\ buffers' = buffers \ {c}
      /\ unread' = [unread EXCEPT ![c] = Dropped(p, c)]
      /\ UNCHANGED <<opened, gone, buffer, got, published, answered, audience>>
  BY DEF LineFails, Close, lineVars
<1>b. /\ Typed /\ fan[p] \in Fan /\ FanOK(p) /\ fan[p].line \in published /\ c \in Client
  BY <1>a, FanLocals DEF IInv
<1>c. /\ r \in Fan /\ r.pc = "next" /\ r.line = fan[p].line /\ r.visited = fan[p].visited
      /\ fan' = [fan EXCEPT ![p] = r]
  BY <1>b DEF Fan, LineFails
<1> HIDE DEF r, c
<1>d. Dropped(p, c) \in Seq(Write)
  BY <1>b, DroppedType
<1>e. /\ unread' \in [Client -> Seq(Write)] /\ unread'[c] = Dropped(p, c)
      /\ \A d \in Client \ {c} : unread'[d] = unread[d]
  BY <1>a, <1>b, <1>d DEF Typed, TailsOK
<1>f. /\ conns' \in Seq(opened) /\ Len(conns') <= MaxConnections /\ Distinct(conns')
      /\ ToSet(conns') = ToSet(conns) \ {c}
  BY <1>a, <1>b, WithoutType
<1>1. /\ FansOK' /\ fan'[p] = r /\ \A q \in Publisher \ {p} : fan'[q] = fan[q]
  BY <1>a, <1>b, <1>c, FanStep DEF Typed
<1>2. MapsOK' /\ TailsOK' /\ LinesOK'
  BY <1>a, <1>b, <1>e, <1>f DEF Typed, MapsOK, TailsOK, LinesOK
<1>3. ASSUME NEW q \in Publisher \ {p}
      PROVE  Owed(q)' /\ \A d \in Client : Left(q, d) => Left(q, d)'
  BY <1>a, <1>b, <1>e, <1>f, <1>1, OthersFrame
<1>4. Owed(p)'
  BY <1>a, <1>c, <1>f, <1>1 DEF IInv, Owed, Due, c
<1>5. Mapped'
  <2>1. ASSUME NEW d \in buffers' \ ToSet(conns') PROVE d \in gone' /\ \E q \in Publisher : Left(q, d)'
    <3>1. d \in buffers \ ToSet(conns) /\ d # c /\ d \in Client
      BY <1>a, <1>b, <1>f, <2>1 DEF Typed, MapsOK
    <3>2. PICK q \in Publisher : Left(q, d)
      BY <3>1 DEF IInv, Mapped
    <3>3. q # p
      BY <3>1, <3>2 DEF Left, c
    <3>4. QED
      BY <1>a, <1>3, <3>1, <3>2, <3>3 DEF IInv, Mapped
  <2>2. QED
    BY <1>a, <1>f, <2>1 DEF IInv, Mapped
<1>6. AnsweredIsRead'
  BY <1>a, <1>b, ReadFrame DEF IInv
<1>7. QED
  BY <1>1, <1>2, <1>3, <1>4, <1>5, <1>6 DEF IInv, Typed

LEMMA AnswerStep ==
  ASSUME IInv, NEW p \in Publisher, Answer(p)
  PROVE  IInv'
<1>a. /\ fan[p].pc = "next" /\ ToSet(conns) \subseteq fan[p].visited
      /\ answered' = answered \union {fan[p].line} /\ fan' = [fan EXCEPT ![p] = Idle]
      /\ UNCHANGED <<conns, buffers, opened, gone, buffer, unread, got, published, audience>>
  BY DEF Answer, connVars
<1>b. Typed /\ fan[p].line \in Line /\ fan[p].line \in published
  BY <1>a, FanLocals DEF IInv
<1>c. Idle \in Fan /\ Idle.pc = "idle"
  BY DEF Idle, Fan
<1>1. /\ FansOK' /\ fan'[p] = Idle /\ \A q \in Publisher \ {p} : fan'[q] = fan[q]
  BY <1>a, <1>b, <1>c, FanStep DEF Typed
<1>2. MapsOK' /\ TailsOK' /\ LinesOK'
  BY <1>a, <1>b DEF Typed, MapsOK, TailsOK, LinesOK
<1>3. ASSUME NEW q \in Publisher \ {p} PROVE Owed(q)'
  BY <1>a, <1>b, <1>1, OwedFrame DEF IInv, Sent
<1>4. Owed(p)'
  BY <1>c, <1>1 DEF Owed
<1>5. Mapped'
  <2>1. ASSUME NEW q \in Publisher, NEW d \in Client, Left(q, d) PROVE Left(q, d)'
    BY <1>a, <1>1, <2>1 DEF Left, Waiting
  <2>2. QED
    BY <1>a, <1>b, <2>1, MappedFrame DEF IInv, Typed, MapsOK
<1>6. AnsweredIsRead'
  <2>1. ASSUME NEW c \in audience[fan[p].line], <<c, fan[p].line>> \in Wants
        PROVE  c \in gone \/ fan[p].line \in ToSet(got[c])
    BY <1>a, <2>1 DEF IInv, Owed, Due
  <2>2. QED
    BY <1>a, <2>1 DEF IInv, AnsweredIsRead
<1>7. QED
  BY <1>1, <1>2, <1>3, <1>4, <1>5, <1>6 DEF IInv, Typed

-----------------------------------------------------------------------------
LEMMA StutterStep == IInv /\ UNCHANGED vars => IInv'
<1> SUFFICES ASSUME IInv, UNCHANGED vars PROVE IInv'
  OBVIOUS
<1>1. UNCHANGED <<conns, buffers, opened, gone, buffer, unread, got, fan, published, answered, audience>>
  BY DEF vars, connVars, lineVars
<1>2. Typed'
  BY <1>1 DEF IInv, Typed, MapsOK, TailsOK, LinesOK, FansOK, FanOK
<1>3. (\A p \in Publisher : Owed(p))'
  BY <1>1 DEF IInv, Owed, Due, Sent
<1>4. Mapped' /\ AnsweredIsRead'
  BY <1>1 DEF IInv, Mapped, Left, Waiting, AnsweredIsRead
<1>5. QED
  BY <1>2, <1>3, <1>4 DEF IInv

LEMMA StepIInv == IInv /\ [Next]_vars => IInv'
<1> SUFFICES ASSUME IInv, [Next]_vars PROVE IInv'
  OBVIOUS
<1>1. ASSUME NEW c \in Client, OpenTail(c) PROVE IInv'
  BY <1>1, OpenTailStep
<1>2. ASSUME NEW c \in Client, Disconnect(c) PROVE IInv'
  BY <1>2, DisconnectStep
<1>3. ASSUME NEW c \in Client, Heartbeat(c) PROVE IInv'
  BY <1>3, HeartbeatStep
<1>4. ASSUME NEW c \in Client, Read(c) PROVE IInv'
  BY <1>4, ReadStep
<1>5. ASSUME NEW p \in Publisher, NEW l \in Line, Publish(p, l) PROVE IInv'
  BY <1>5, PublishStep
<1>6. ASSUME NEW p \in Publisher, Visit(p) PROVE IInv'
  BY <1>6, VisitStep
<1>7. ASSUME NEW p \in Publisher, AfterOverflow(p) PROVE IInv'
  BY <1>7, AfterOverflowStep
<1>8. ASSUME NEW p \in Publisher, LineRead(p) PROVE IInv'
  BY <1>8, LineReadStep
<1>9. ASSUME NEW p \in Publisher, LineFails(p) PROVE IInv'
  BY <1>9, LineFailsStep
<1>10. ASSUME NEW p \in Publisher, Answer(p) PROVE IInv'
  BY <1>10, AnswerStep
<1>11. CASE UNCHANGED vars
  BY <1>11, StutterStep
<1>12. QED
  BY <1>1, <1>2, <1>3, <1>4, <1>5, <1>6, <1>7, <1>8, <1>9, <1>10, <1>11 DEF Next, Fanout

\* What the hub keeps, at every step: types, what each fanout still owes to
\* the tails that were open when its line was published, and which fanout
\* left each buffer that has no connection.
THEOREM HubInvariant == Spec => []IInv
BY InitIInv, StepIInv, PTL DEF Spec

\* An answered publish request means that every tail that was open before it
\* and wants the line has read it, or its client has gone, whatever tails
\* opened, closed, overflowed and failed meanwhile: fanout awaits each write
\* in a try, and iterates the live map.
THEOREM AnsweredLinesAreRead == Spec => []AnsweredIsRead
<1>1. IInv => AnsweredIsRead
  BY DEF IInv
<1>2. QED
  BY <1>1, HubInvariant, PTL

\* When no fanout runs the two maps hold the same tails: a buffer that a
\* fanout sets again after the heartbeat closed the tail is deleted when that
\* fanout's write fails.
THEOREM MapsStayTogether == Spec => []MapsAgree
<1>1. IInv => MapsAgree
  <2> SUFFICES ASSUME IInv PROVE MapsAgree
    OBVIOUS
  <2>1. TypesOK
    BY TypedImpliesTypesOK DEF IInv
  <2>2. ASSUME \A p \in Publisher : fan[p] = Idle PROVE buffers = ToSet(conns)
    <3>1. \A p \in Publisher : fan[p].pc = "idle"
      BY <2>2 DEF Idle
    <3>2. QED
      BY <3>1 DEF IInv, Mapped, Left
  <2>3. QED
    BY <2>1, <2>2 DEF MapsAgree
<1>2. QED
  BY <1>1, HubInvariant, PTL
=============================================================================
