----------------------------- MODULE RealtimeHub -----------------------------
(***************************************************************************)
(* The durable object RealtimeHub of one tenant: clients open live tails,  *)
(* consumers of the ingest queue publish lines, and each publish request   *)
(* writes its line to every tail in turn, waiting for each write.          *)
(*                                                                         *)
(* Nothing here is persistent, so handlers interleave at every await.  A   *)
(* write to a tail is done when its client has read it, and fails when its *)
(* client has gone.  Maps are iterated in insertion order, live: a tail    *)
(* opened during an iteration is visited, a closed one is not.             *)
(***************************************************************************)
EXTENDS Naturals, Sequences, FiniteSets, SequencesExt

CONSTANTS
  Client,          \* tail requests
  Line,            \* lines that are published
  Publisher,       \* publish requests that may overlap
  Wants,           \* <<client, line>>: the client's filter lets the line pass
  MaxConnections,  \* MAX_CONNECTIONS
  BufferSize,      \* BUFFER
  Reader           \* clients that never stop reading

None == "none"

ASSUME HubAssumption ==
  /\ {MaxConnections, BufferSize} \subseteq Nat \ {0}
  /\ Wants \subseteq Client \X Line /\ Reader \subseteq Client
  /\ None \notin Client \union Line

VARIABLES
  conns,     \* the map connections: its ids in insertion order
  buffers,   \* the ids in the map buffers
  buffer,    \* the array of each id; a fanout keeps it while it waits
  opened,    \* tail requests that were answered
  gone,      \* clients that have disconnected
  unread,    \* writes to each client that it has not read
  got,       \* what each client has read
  fan,       \* per publisher: the fanout it runs
  published, answered,  \* history: lines published, and those answered
  audience   \* history: the tails that were open when a line was published

connVars == <<conns, buffers, opened, gone>>
lineVars == <<published, answered, audience>>
vars == <<connVars, buffer, unread, got, fan, lineVars>>

Overflow == "overflow"
Chunk == Line \union {Overflow}
Write == [chunk : Chunk, by : Publisher]
Idle == [pc |-> "idle", line |-> None, visited |-> {}, at |-> None]

Init ==
  /\ conns = <<>> /\ buffers = {} /\ opened = {} /\ gone = {}
  /\ buffer = [c \in Client |-> <<>>]
  /\ unread = [c \in Client |-> <<>>]
  /\ got = [c \in Client |-> <<>>]
  /\ fan = [p \in Publisher |-> Idle]
  /\ published = {} /\ answered = {}
  /\ audience = [l \in Line |-> {}]

-----------------------------------------------------------------------------
\* A tail beyond the limit is refused.
OpenTail(c) ==
  /\ c \notin opened
  /\ Len(conns) < MaxConnections
  /\ opened' = opened \union {c}
  /\ conns' = Append(conns, c)
  /\ buffers' = buffers \union {c}
  /\ UNCHANGED <<gone, buffer, unread, got, fan, lineVars>>

Disconnect(c) ==
  /\ c \in opened \ gone
  /\ gone' = gone \union {c}
  /\ UNCHANGED <<conns, buffers, opened, buffer, unread, got, fan, lineVars>>

\* The map connections without c.
Without(c) ==
  IF c \in ToSet(conns)
  THEN RemoveAt(conns, CHOOSE i \in DOMAIN conns : conns[i] = c) ELSE conns

Close(c) ==
  /\ conns' = Without(c)
  /\ buffers' = buffers \ {c}

\* The heartbeat of a client that has gone, or its abort signal; to a client
\* that reads, a heartbeat is a comment.
Heartbeat(c) ==
  /\ c \in gone
  /\ c \in ToSet(conns) \union buffers
  /\ Close(c)
  /\ UNCHANGED <<opened, gone, buffer, unread, got, fan, lineVars>>

Read(c) ==
  /\ c \in opened \ gone
  /\ unread[c] # <<>>
  /\ got' = [got EXCEPT ![c] = Append(@, Head(unread[c]).chunk)]
  /\ unread' = [unread EXCEPT ![c] = Tail(@)]
  /\ UNCHANGED <<connVars, buffer, fan, lineVars>>

-----------------------------------------------------------------------------
(* fanout.                                                                 *)

Publish(p, l) ==
  /\ fan[p] = Idle
  /\ l \notin published
  /\ fan' = [fan EXCEPT ![p] = [pc |-> "next", line |-> l, visited |-> {}, at |-> None]]
  /\ published' = published \union {l}
  /\ audience' = [audience EXCEPT ![l] = ToSet(conns)]
  /\ UNCHANGED <<connVars, buffer, unread, got, answered>>

Waiting(p, c) == \E i \in DOMAIN unread[c] : unread[c][i].by = p

\* The writes to c without the one that p waits for: it begins no other before.
Dropped(p, c) ==
  IF Waiting(p, c)
  THEN RemoveAt(unread[c], CHOOSE i \in DOMAIN unread[c] : unread[c][i].by = p)
  ELSE unread[c]

Begin(p, c, chunk, pc) ==
  /\ unread' = [unread EXCEPT ![c] = Append(@, [chunk |-> chunk, by |-> p])]
  /\ fan' = [fan EXCEPT ![p].pc = pc, ![p].at = c, ![p].visited = @ \union {c}]

\* The iteration of p comes to c next.
Upcoming(p, c) ==
  \E i \in DOMAIN conns :
    /\ conns[i] = c /\ c \notin fan[p].visited
    /\ \A j \in 1..(i - 1) : conns[j] \in fan[p].visited

\* Mutant: the first tail that does not want the line ends the fanout.
Visit_Stops(p) ==
  /\ fan[p].pc = "next"
  /\ \E c \in ToSet(conns) : Upcoming(p, c) /\
     IF <<c, fan[p].line>> \notin Wants
     THEN /\ fan' = [fan EXCEPT ![p].visited = ToSet(conns)]
          /\ UNCHANGED <<buffer, buffers, unread>>
     ELSE IF Len(buffer[c]) >= BufferSize
     THEN /\ buffer' = [buffer EXCEPT ![c] = Tail(@)]
          /\ Begin(p, c, Overflow, "overflow")
          /\ UNCHANGED buffers
     ELSE /\ buffer' = [buffer EXCEPT ![c] = Append(@, fan[p].line)]
          /\ buffers' = buffers \union {c}
          /\ Begin(p, c, fan[p].line, "line")
  /\ UNCHANGED <<conns, opened, gone, got, lineVars>>

\* One tail: skipped, or told of an overflow first when its array is full,
\* or sent the line.
Visit(p) ==
  /\ fan[p].pc = "next"
  /\ \E c \in ToSet(conns) : Upcoming(p, c) /\
     IF <<c, fan[p].line>> \notin Wants
     THEN /\ fan' = [fan EXCEPT ![p].visited = @ \union {c}]
          /\ UNCHANGED <<buffer, buffers, unread>>
     ELSE IF Len(buffer[c]) >= BufferSize
     THEN /\ buffer' = [buffer EXCEPT ![c] = Tail(@)]
          /\ Begin(p, c, Overflow, "overflow")
          /\ UNCHANGED buffers
     ELSE /\ buffer' = [buffer EXCEPT ![c] = Append(@, fan[p].line)]
          /\ buffers' = buffers \union {c}
          /\ Begin(p, c, fan[p].line, "line")
  /\ UNCHANGED <<conns, opened, gone, got, lineVars>>

\* The line follows the overflow event, whether that was read or failed.
AfterOverflow(p) ==
  LET c == fan[p].at IN
  /\ fan[p].pc = "overflow"
  /\ \/ ~Waiting(p, c)
     \/ c \in gone
  /\ buffer' = [buffer EXCEPT ![c] = Append(@, fan[p].line)]
  /\ IF Waiting(p, c)
     THEN conns' = Without(c)
     ELSE UNCHANGED conns
  /\ buffers' = buffers \union {c}
  /\ unread' = [unread EXCEPT ![c] =
       Append(Dropped(p, c), [chunk |-> fan[p].line, by |-> p])]
  /\ fan' = [fan EXCEPT ![p].pc = "line"]
  /\ UNCHANGED <<opened, gone, got, lineVars>>

LineRead(p) ==
  /\ fan[p].pc = "line"
  /\ ~Waiting(p, fan[p].at)
  /\ fan' = [fan EXCEPT ![p].pc = "next", ![p].at = None]
  /\ UNCHANGED <<connVars, buffer, unread, got, lineVars>>

\* Mutant: a failed write does not close the tail.
LineFails_Open(p) ==
  LET c == fan[p].at IN
  /\ fan[p].pc = "line"
  /\ c \in gone /\ Waiting(p, c)
  /\ unread' = [unread EXCEPT ![c] = Dropped(p, c)]
  /\ fan' = [fan EXCEPT ![p].pc = "next", ![p].at = None]
  /\ UNCHANGED <<connVars, buffer, got, lineVars>>

\* Mutant: a failed write ends the publish request.
LineFails_Uncaught(p) ==
  LET c == fan[p].at IN
  /\ fan[p].pc = "line"
  /\ c \in gone /\ Waiting(p, c)
  /\ unread' = [unread EXCEPT ![c] = Dropped(p, c)]
  /\ fan' = [fan EXCEPT ![p] = Idle]
  /\ UNCHANGED <<connVars, buffer, got, lineVars>>

\* The write fails and close runs.
LineFails(p) ==
  LET c == fan[p].at IN
  /\ fan[p].pc = "line"
  /\ c \in gone /\ Waiting(p, c)
  /\ Close(c)
  /\ unread' = [unread EXCEPT ![c] = Dropped(p, c)]
  /\ fan' = [fan EXCEPT ![p].pc = "next", ![p].at = None]
  /\ UNCHANGED <<opened, gone, buffer, got, lineVars>>

Answer(p) ==
  /\ fan[p].pc = "next"
  /\ ToSet(conns) \subseteq fan[p].visited
  /\ answered' = answered \union {fan[p].line}
  /\ fan' = [fan EXCEPT ![p] = Idle]
  /\ UNCHANGED <<connVars, buffer, unread, got, published, audience>>

Fanout(p) == Visit(p) \/ AfterOverflow(p) \/ LineRead(p) \/ LineFails(p) \/ Answer(p)

Next ==
  \/ \E c \in Client : OpenTail(c) \/ Disconnect(c) \/ Heartbeat(c) \/ Read(c)
  \/ \E p \in Publisher, l \in Line : Publish(p, l)
  \/ \E p \in Publisher : Fanout(p)

Spec == Init /\ [][Next]_vars

\* Fanouts go on and heartbeats come; S are the clients that read.
Fairness(S) ==
  /\ \A p \in Publisher : WF_vars(Fanout(p))
  /\ \A c \in Client : WF_vars(Heartbeat(c))
  /\ \A c \in S : WF_vars(Read(c))

\* Every client reads.
FairSpec == Spec /\ Fairness(Client)

\* The others may stay connected and stop reading.
ReadersSpec == Spec /\ Fairness(Reader)

-----------------------------------------------------------------------------
(* Properties.                                                             *)

\* Types, and each tail once.
TypesOK ==
  /\ conns \in Seq(opened) /\ Len(conns) <= MaxConnections
  /\ \A i, j \in DOMAIN conns : conns[i] = conns[j] => i = j
  /\ buffers \subseteq opened /\ opened \subseteq Client /\ gone \subseteq opened
  /\ buffer \in [Client -> Seq(Line)]
  /\ unread \in [Client -> Seq(Write)]
  /\ got \in [Client -> Seq(Chunk)]
  /\ \A p \in Publisher :
       /\ fan[p].pc \in {"idle", "next", "overflow", "line"}
       /\ fan[p].line \in Line \union {None} /\ fan[p].at \in Client \union {None}
       /\ fan[p].visited \subseteq Client
  /\ answered \subseteq published /\ published \subseteq Line

\* When a publish request is answered, every tail that was open before it
\* and wants the line has read it, or its client has gone.
AnsweredIsRead ==
  \A l \in answered : \A c \in audience[l] :
    <<c, l>> \in Wants => c \in gone \/ l \in ToSet(got[c])

\* Between fanouts the maps hold the same tails: a buffer that a fanout set
\* again after a close does not stay.  (And the types, and each tail once.)
MapsAgree == TypesOK /\ ((\A p \in Publisher : fan[p] = Idle) => buffers = ToSet(conns))

\* Every publish request is answered.
PublishIsAnswered == \A l \in Line : l \in published ~> l \in answered

\* A tail whose client has gone is closed.
GoneIsClosed == \A c \in Client : c \in gone ~> c \notin ToSet(conns)

\* A client that goes holds nobody up for ever, and nothing for ever.
HubSettles == PublishIsAnswered /\ GoneIsClosed

\* A client that reads gets the lines it wants, whatever the others do: each
\* has its own buffer and loses its own lines (REALTIME.md).
ReaderIsServed ==
  \A c \in Reader, l \in Line :
    l \in published /\ c \in audience[l] /\ <<c, l>> \in Wants ~>
      c \in gone \/ ToSet(got[c]) \intersect {l, Overflow} # {}
=============================================================================
