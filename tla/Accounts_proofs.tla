-------------------------- MODULE Accounts_proofs --------------------------
(***************************************************************************)
(* The safety properties of Accounts, for any users, tenants, sessions,    *)
(* keys and mixes of operations, and any number of requests in flight.     *)
(***************************************************************************)
EXTENDS Accounts, FiniteSetTheorems, TLAPS

SessionRow == [tenant : Tenant, user : Email, revoked : BOOLEAN]
KeyRow == [tenant : Tenant, scopes : SUBSET Scope, revoked : BOOLEAN]
Kinds == {o.kind : o \in Operation}

DbType ==
  [users : [Email -> Nat],
   members : [Tenant -> [Email -> Role \union {"none"}]],
   tenants : [Tenant -> {"none", "active", "deleting"}],
   policies : SUBSET Tenant,
   sessions : [Session -> SessionRow \union {NoRow}],
   keys : [Key -> KeyRow \union {NoRow}],
   cache : [Key -> KeyRow \union {NoRow}],
   expired : SUBSET Credential,
   failures : [Email \X Ip -> Nat],
   jobs : [Tenant -> {"none", "saved", "queued"}],
   audit : SUBSET (Kinds \X (Tenant \union {"none"}))]

Principal ==
  [kind : {"none", "session", "key"}, user : Email \union {"none"},
   tenant : Tenant \union {"none"}, role : Role \union {"none"}, scopes : SUBSET Scope]

Label ==
  {"idle", "session", "member", "tenant", "cached", "hash", "fill", "touch", "handle",
   "count", "verify", "home", "open", "sign", "endSession", "password", "profile",
   "insertKey", "revoke", "uncache", "email", "user", "found", "join", "policy",
   "owners", "role", "remove", "close", "endSessions", "endKeys", "job", "send", "audit"}
Seen == KeyRow \union {NoRow} \union Nat
RequestType ==
  [op : Operation \union {NoOp}, with : Credential \union {"none"}, pc : Label,
   as : Principal, seen : Seen]

GhostType ==
  [closed : [Request -> SUBSET Tenant], crossed : SUBSET {"users", "members"},
   revoked : SUBSET Key, password : [Email -> Nat]]

Typed == db \in DbType /\ req \in [Request -> RequestType] /\ ghost \in GhostType

\* Where a request has no principal yet, and where it may have no tenant.
Nobody == {"session", "cached", "hash", "fill", "count", "verify", "home", "email", "found"}
Stranger == Nobody \union {"idle", "user", "audit"}

\* What a request is about and has seen, by where it is.
Fit(x) ==
  /\ x.pc = "idle" => x = Idle
  /\ x.pc # "idle" => x.op \in Operation
  /\ x.pc \in Nobody \/ (x.pc = "user" /\ x.op.kind = "bootstrap") => x.as.kind = "none"
  /\ x.pc \notin Stranger \/ (x.pc = "user" /\ x.op.kind # "bootstrap")
                         \/ (x.pc = "audit" /\ x.op.kind # "login") => x.as.tenant \in Tenant
  /\ x.pc \in {"count", "verify", "home", "open", "sign"} => x.op.kind = "login"
  /\ x.pc = "email" => x.op.kind = "bootstrap"
  /\ x.pc \in {"user", "found", "join"} => x.op.kind \in {"bootstrap", "invite"}
  /\ x.pc \in {"owners", "role"} => x.op.kind = "changeRole"
  /\ x.pc = "remove" => x.op.kind = "removeMember"
  /\ x.pc = "password" => x.op.kind = "changePassword" /\ x.as.kind = "session"
  /\ x.pc = "profile" => x.as.kind = "session" /\ x.seen \in Nat
  /\ x.pc = "member" => x.as.kind = "session"
  /\ x.pc = "session" => x.with \in Session
  /\ x.pc \in {"cached", "hash", "fill"} => x.with \in Key
  /\ x.pc \in {"fill", "touch", "revoke", "uncache"} => x.seen \in KeyRow
  /\ x.pc = "tenant" => x.as.kind = "session" \/ x.seen \in KeyRow
  /\ x.pc = "revoke" => x.op.kind \in {"revokeKey", "rotateKey"}
  /\ x.pc = "insertKey" => x.op.kind = "createKey" \/ x.seen \in KeyRow

\* Session s is one of user e in tenant t.
Row(s) == db.sessions[s]
SessionOf(s, e, t) == Row(s) # NoRow /\ Row(s).user = e /\ Row(s).tenant = t

\* A request that has found the membership of the user it is about.
Holding == {"open", "sign"} \union Editing
Holds(x, e, t) == x.pc \in Holding /\ x.op.on = e /\ x.as.tenant = t

\* What says that user e is of tenant t: a membership, a session, a request.
Tied(e, t) ==
  \/ db.members[t][e] # "none"
  \/ \E s \in Session : SessionOf(s, e, t)
  \/ \E r \in Request : Holds(req[r], e, t)

\* A request that has inserted user e and not yet its membership.
Joining(x, e) == x.pc \in {"found", "join"} /\ x.op.on = e

\* Labels at which a request has not looked at the tenant it is for.
Entered == {"member", "tenant", "open"}

\* What the rest of the state owes to request r when it is x.
Fine(r, x) ==
  /\ Fit(x)
  /\ x.pc \notin Entered => x.as.tenant \notin ghost.closed[r]
  /\ x.as.kind = "session" => \E s \in Session : SessionOf(s, x.as.user, x.as.tenant)
  /\ x.pc = "profile" => /\ x.seen # 0
                         /\ "users" \notin ghost.crossed => x.seen = db.users[x.as.user]
  /\ "members" \notin ghost.crossed =>
       /\ x.pc = "policy" => Owners(x.as.tenant) # {}
       /\ x.pc = "role" /\ x.op.to # "owner" =>
            \/ Roles(x.as.tenant)[x.op.on] # "owner"
            \/ \E e \in Owners(x.as.tenant) : e # x.op.on
       /\ x.pc = "remove" => Roles(x.as.tenant)[x.op.on] # "owner"

\* A user that is tied has its row, is not being joined, and to one tenant only.
TiesOK ==
  /\ \A e \in Email, t \in Tenant : Tied(e, t) => db.users[e] # 0
  /\ \A e \in Email, t, u \in Tenant : Tied(e, t) /\ Tied(e, u) => t = u
  /\ \A e \in Email, r \in Request : Joining(req[r], e) =>
       /\ db.users[e] # 0
       /\ \A t \in Tenant : ~Tied(e, t)
       /\ \A q \in Request : Joining(req[q], e) => q = r

ClosedOK == \A r \in Request : \A t \in ghost.closed[r] : db.tenants[t] = "deleting"

KeptOK ==
  /\ "users" \notin ghost.crossed => db.users = ghost.password
  /\ "members" \notin ghost.crossed => \A t \in db.policies : Owners(t) # {}

IInv ==
  /\ Typed
  /\ \A r \in Request : Fine(r, req[r])
  /\ TiesOK
  /\ ClosedOK
  /\ KeptOK

-----------------------------------------------------------------------------
(* One write of the tables, and one move of a request.                     *)

LEMMA NoRowFacts ==
  /\ \A row \in SessionRow \union KeyRow : row # NoRow /\ row.tenant \in Tenant
  /\ NoRow.tenant \notin Tenant /\ [NoRow EXCEPT !.revoked = TRUE] = NoRow
  /\ \A b : [NoRow EXCEPT !.revoked = b] = NoRow
BY NoneAssumption DEF SessionRow, KeyRow, NoRow

\* The fields of d2 other than one are those of d1.
Rest(f, d1, d2) ==
  /\ f # "users" => d2.users = d1.users
  /\ f # "members" => d2.members = d1.members
  /\ f # "tenants" => d2.tenants = d1.tenants
  /\ f # "policies" => d2.policies = d1.policies
  /\ f # "sessions" => d2.sessions = d1.sessions

Puts(f, d1, v, d2) == d2 \in DbType /\ d2[f] = v /\ Rest(f, d1, d2)

LEMMA PutUsers ==
  ASSUME NEW d \in DbType, NEW v \in [Email -> Nat]
  PROVE  Puts("users", d, v, [d EXCEPT !.users = v])
BY DEF DbType, Puts, Rest

LEMMA PutMembers ==
  ASSUME NEW d \in DbType, NEW v \in [Tenant -> [Email -> Role \union {"none"}]]
  PROVE  Puts("members", d, v, [d EXCEPT !.members = v])
BY DEF DbType, Puts, Rest

LEMMA PutTenants ==
  ASSUME NEW d \in DbType, NEW v \in [Tenant -> {"none", "active", "deleting"}]
  PROVE  Puts("tenants", d, v, [d EXCEPT !.tenants = v])
BY DEF DbType, Puts, Rest

LEMMA PutPolicies ==
  ASSUME NEW d \in DbType, NEW v \in SUBSET Tenant
  PROVE  Puts("policies", d, v, [d EXCEPT !.policies = v])
BY DEF DbType, Puts, Rest

LEMMA PutSessions ==
  ASSUME NEW d \in DbType, NEW v \in [Session -> SessionRow \union {NoRow}]
  PROVE  Puts("sessions", d, v, [d EXCEPT !.sessions = v])
BY DEF DbType, Puts, Rest

LEMMA PutKeys ==
  ASSUME NEW d \in DbType, NEW v \in [Key -> KeyRow \union {NoRow}]
  PROVE  Puts("keys", d, v, [d EXCEPT !.keys = v])
BY DEF DbType, Puts, Rest

LEMMA PutCache ==
  ASSUME NEW d \in DbType, NEW v \in [Key -> KeyRow \union {NoRow}]
  PROVE  Puts("cache", d, v, [d EXCEPT !.cache = v])
BY DEF DbType, Puts, Rest

LEMMA PutExpired ==
  ASSUME NEW d \in DbType, NEW v \in SUBSET Credential
  PROVE  Puts("expired", d, v, [d EXCEPT !.expired = v])
BY DEF DbType, Puts, Rest

LEMMA PutFailures ==
  ASSUME NEW d \in DbType, NEW v \in [Email \X Ip -> Nat]
  PROVE  Puts("failures", d, v, [d EXCEPT !.failures = v])
BY DEF DbType, Puts, Rest

LEMMA PutJobs ==
  ASSUME NEW d \in DbType, NEW v \in [Tenant -> {"none", "saved", "queued"}]
  PROVE  Puts("jobs", d, v, [d EXCEPT !.jobs = v])
BY DEF DbType, Puts, Rest

LEMMA PutAudit ==
  ASSUME NEW d \in DbType, NEW v \in SUBSET (Kinds \X (Tenant \union {"none"}))
  PROVE  Puts("audit", d, v, [d EXCEPT !.audit = v])
BY DEF DbType, Puts, Rest

\* Request r is now at label l, with the other fields given; the others are as
\* they were.
Moves(r, l, o, c, p, row) ==
  /\ req' \in [Request -> RequestType]
  /\ \A q \in Request \ {r} : req'[q] = req[q]
  /\ req'[r].pc = l /\ req'[r].op = o /\ req'[r].with = c /\ req'[r].as = p /\ req'[r].seen = row

LEMMA GotoMoves ==
  ASSUME req \in [Request -> RequestType], NEW r \in Request, NEW l \in Label, Goto(r, l)
  PROVE  Moves(r, l, Op(r), req[r].with, As(r), req[r].seen)
BY DEF Goto, Moves, RequestType, Op, As

LEMMA GotoWithMoves ==
  ASSUME req \in [Request -> RequestType], NEW r \in Request, NEW l \in Label,
         NEW row \in Seen, GotoWith(r, l, row)
  PROVE  Moves(r, l, Op(r), req[r].with, As(r), row)
BY DEF GotoWith, Moves, RequestType, Op, As

LEMMA IdleTyped ==
  /\ Idle \in RequestType
  /\ Idle.pc = "idle" /\ Idle.as.kind = "none" /\ Idle.as.tenant = "none"
<1>1. NoOne \in Principal /\ NoOne.kind = "none" /\ NoOne.tenant = "none"
  BY DEF NoOne, Principal
<1>2. NoRow \in Seen /\ NoOp \in Operation \union {NoOp} /\ "none" \in Credential \union {"none"}
  BY DEF Seen
<1>3. "idle" \in Label
  BY DEF Label
<1>4. Idle \in RequestType
  BY <1>1, <1>2, <1>3 DEF Idle, RequestType
<1>5. QED
  BY <1>1, <1>4 DEF Idle

LEMMA FinishMoves ==
  ASSUME req \in [Request -> RequestType], NEW r \in Request, Finish(r)
  PROVE  /\ req' \in [Request -> RequestType]
         /\ \A q \in Request \ {r} : req'[q] = req[q]
         /\ req'[r] = Idle
BY IdleTyped DEF Finish

LEMMA BeginMoves ==
  ASSUME req \in [Request -> RequestType], NEW r \in Request, NEW l \in Label,
         NEW o \in Operation, NEW c \in Credential \union {"none"},
         req' = [req EXCEPT ![r].op = o, ![r].with = c, ![r].pc = l]
  PROVE  Moves(r, l, o, c, As(r), req[r].seen)
BY DEF Moves, RequestType, As

LEMMA AsMoves ==
  ASSUME req \in [Request -> RequestType], NEW r \in Request, NEW l \in Label, NEW p \in Principal,
         req' = [req EXCEPT ![r].pc = l, ![r].as = p]
  PROVE  Moves(r, l, Op(r), req[r].with, p, req[r].seen)
BY DEF Moves, RequestType, Op

LEMMA AcceptMoves ==
  ASSUME req \in [Request -> RequestType], NEW r \in Request, NEW l \in Label, NEW p \in Principal,
         NEW row \in Seen,
         req' = [req EXCEPT ![r].pc = l, ![r].seen = row, ![r].as = p]
  PROVE  Moves(r, l, Op(r), req[r].with, p, row)
BY DEF Moves, RequestType, Op

LEMMA TenantMoves ==
  ASSUME req \in [Request -> RequestType], NEW r \in Request, NEW l \in Label, NEW t \in Tenant,
         req' = [req EXCEPT ![r].pc = l, ![r].as.tenant = t]
  PROVE  /\ Moves(r, l, Op(r), req[r].with, [As(r) EXCEPT !.tenant = t], req[r].seen)
         /\ As(r)' = [As(r) EXCEPT !.tenant = t] /\ As(r)'.tenant = t /\ As(r)'.kind = As(r).kind
<1>1. As(r) \in Principal
  BY DEF As, RequestType
<1>2. \A p \in Principal : LET n == [p EXCEPT !.tenant = t] IN
        n \in Principal /\ n.tenant = t /\ n.kind = p.kind
  BY DEF Principal
<1>3. req' = [req EXCEPT ![r].pc = l, ![r].as = [As(r) EXCEPT !.tenant = t]]
  BY DEF As
<1>4. Moves(r, l, Op(r), req[r].with, [As(r) EXCEPT !.tenant = t], req[r].seen)
  BY <1>1, <1>2, <1>3, AsMoves
<1>5. As(r)' = [As(r) EXCEPT !.tenant = t]
  BY <1>4 DEF Moves, As
<1>6. QED
  BY <1>1, <1>2, <1>4, <1>5

LEMMA RoleMoves ==
  ASSUME req \in [Request -> RequestType], NEW r \in Request, NEW l \in Label, NEW w \in Role,
         req' = [req EXCEPT ![r].pc = l, ![r].as.role = w]
  PROVE  /\ Moves(r, l, Op(r), req[r].with, [As(r) EXCEPT !.role = w], req[r].seen)
         /\ As(r)'.tenant = As(r).tenant /\ As(r)'.kind = As(r).kind /\ As(r)'.user = As(r).user
<1>1. As(r) \in Principal
  BY DEF As, RequestType
<1>2. \A p \in Principal : LET n == [p EXCEPT !.role = w] IN
        n \in Principal /\ n.tenant = p.tenant /\ n.kind = p.kind /\ n.user = p.user
  BY DEF Principal
<1>3. req' = [req EXCEPT ![r].pc = l, ![r].as = [As(r) EXCEPT !.role = w]]
  BY DEF As
<1>4. Moves(r, l, Op(r), req[r].with, [As(r) EXCEPT !.role = w], req[r].seen)
  BY <1>1, <1>2, <1>3, AsMoves
<1>5. As(r)' = [As(r) EXCEPT !.role = w]
  BY <1>4 DEF Moves, As
<1>6. QED
  BY <1>1, <1>2, <1>4, <1>5

-----------------------------------------------------------------------------
(* Most steps of a request change no user and no membership: they are      *)
(* quiet, and what they must show is only that the request fits where it   *)
(* goes.                                                                   *)

GhostKept ==
  /\ ghost' \in GhostType
  /\ ghost'.closed = ghost.closed /\ ghost'.crossed = ghost.crossed
  /\ ghost'.password = ghost.password

SessionsKept ==
  \A s \in Session : Row(s) # NoRow =>
    /\ Row(s)' # NoRow /\ Row(s)'.user = Row(s).user /\ Row(s)'.tenant = Row(s).tenant
    /\ Row(s).revoked => Row(s)'.revoked

\* No tenant that is being deleted is anything else again.
DeletionKept ==
  \A t \in Tenant : db.tenants[t] = "deleting" => db'.tenants[t] = "deleting"

OnlyRequest(r) ==
  /\ req' \in [Request -> RequestType]
  /\ \A q \in Request \ {r} : req'[q] = req[q]

\* Where the request now is it may be, and it says of no user what was not so.
Lands(r, y) ==
  /\ Fine(r, y)
  /\ y.pc \in Holding => Tied(y.op.on, y.as.tenant)
  /\ \A e \in Email : Joining(y, e) => Joining(req[r], e)

Quiet(r) ==
  /\ db' \in DbType /\ db'.users = db.users /\ db'.members = db.members
  /\ DeletionKept /\ SessionsKept /\ GhostKept
  /\ \A t \in db'.policies : t \in db.policies \/ (At(r, "policy") /\ t = As(r).tenant)
  /\ \A s \in Session : Row(s)' # NoRow => Tied(Row(s)'.user, Row(s)'.tenant)
  /\ OnlyRequest(r) /\ Lands(r, req'[r])

LEMMA QuietStep == ASSUME IInv, NEW r \in Request, Quiet(r) PROVE IInv'
<1> USE DEF OnlyRequest, GhostKept
<1>1. Typed'
  BY DEF Quiet, Typed
<1>2. ASSUME NEW e \in Email, NEW t \in Tenant, Tied(e, t)' PROVE Tied(e, t)
  <2>1. CASE db'.members[t][e] # "none"
    BY <2>1 DEF Quiet, Tied
  <2>2. CASE \E s \in Session : SessionOf(s, e, t)'
    BY <2>2 DEF Quiet, SessionOf
  <2>3. CASE \E q \in Request : Holds(req'[q], e, t)
    <3>1. PICK q \in Request : Holds(req'[q], e, t)
      BY <2>3
    <3>2. CASE q = r
      BY <3>1, <3>2 DEF Quiet, Lands, Holds
    <3>3. CASE q # r
      BY <3>1, <3>3 DEF Quiet, Tied
    <3>4. QED
      BY <3>2, <3>3
  <2>4. QED
    BY <1>2, <2>1, <2>2, <2>3 DEF Tied
<1>3. ASSUME NEW e \in Email, NEW q \in Request, Joining(req'[q], e) PROVE Joining(req[q], e)
  BY <1>3 DEF Quiet, Lands
<1>4. TiesOK'
  <2>1. \A e \in Email : db'.users[e] = db.users[e]
    BY DEF Quiet
  <2>2. TiesOK
    BY DEF IInv
  <2>3. QED
    BY <1>2, <1>3, <2>1, <2>2 DEF TiesOK
<1>5. ASSUME NEW q \in Request, NEW y, Fine(q, y), Fit(y) PROVE Fine(q, y)'
  <2>1. y.as.kind = "session" => \E s \in Session : SessionOf(s, y.as.user, y.as.tenant)'
    BY <1>5 DEF Fine, SessionOf, Quiet, SessionsKept
  <2>2. ghost'.closed[q] = ghost.closed[q] /\ ghost'.crossed = ghost.crossed /\ db'.users = db.users
    BY DEF Quiet
  <2>3. \A t : Owners(t)' = Owners(t) /\ Roles(t)' = Roles(t)
    BY DEF Quiet, Owners, Roles
  <2>4. QED
    BY <1>5, <2>1, <2>2, <2>3 DEF Fine
<1>6. \A q \in Request : Fine(q, req[q])'
  <2>1. ASSUME NEW q \in Request PROVE Fine(q, req'[q]) /\ Fit(req'[q])
    <3>1. CASE q = r
      BY <3>1 DEF Quiet, Lands, Fine
    <3>2. CASE q # r
      <4>1. req'[q] = req[q] /\ Fine(q, req[q])
        BY <3>2 DEF Quiet, IInv
      <4>2. QED
        BY <4>1 DEF Fine
    <3>3. QED
      BY <3>1, <3>2
  <2>2. QED
    BY <1>5, <2>1
<1>7. ClosedOK'
  BY DEF IInv, ClosedOK, Quiet, DeletionKept, Typed, GhostType
<1>8. KeptOK'
  <2>1. "users" \notin ghost'.crossed => db'.users = ghost'.password
    BY DEF Quiet, IInv, KeptOK
  <2>2. ASSUME "members" \notin ghost'.crossed, NEW t \in db'.policies PROVE Owners(t)' # {}
    <3>1. Owners(t)' = Owners(t)
      BY DEF Quiet, Owners, Roles
    <3>2. CASE t \in db.policies
      BY <2>2, <3>1, <3>2 DEF IInv, KeptOK, Quiet
    <3>3. CASE At(r, "policy") /\ t = As(r).tenant
      BY <2>2, <3>1, <3>3 DEF IInv, Fine, Quiet, At, As
    <3>4. QED
      BY <3>2, <3>3 DEF Quiet
  <2>3. QED
    BY <2>1, <2>2 DEF KeptOK
<1>9. QED
  BY <1>1, <1>4, <1>6, <1>7, <1>8 DEF IInv

\* The tables that say who is who are as they were, and so is the history.
Calm == db' \in DbType /\ Rest("audit", db, db') /\ GhostKept

LEMMA ReadCalm == ASSUME Typed, Read PROVE Calm
BY DEF Typed, Read, Calm, Rest, GhostKept

LEMMA WriteCalm == ASSUME Typed, NEW d, d \in DbType, Rest("audit", db, d), Write(d) PROVE Calm
BY DEF Typed, Write, Calm, GhostKept

LEMMA CalmQuiet ==
  ASSUME IInv, NEW r \in Request, Calm, OnlyRequest(r), Lands(r, req'[r])
  PROVE  Quiet(r)
<1>1. db.sessions \in [Session -> SessionRow \union {NoRow}] /\ db'.sessions = db.sessions
  BY DEF IInv, Typed, DbType, Calm, Rest
<1>2. \A s \in Session : Row(s)' = Row(s)
  BY <1>1 DEF Row
<1>3. ASSUME NEW s \in Session, Row(s)' # NoRow PROVE Tied(Row(s)'.user, Row(s)'.tenant)
  BY <1>2, <1>3 DEF Tied, SessionOf
<1>4. QED
  BY <1>2, <1>3 DEF Calm, Rest, Quiet, SessionsKept, DeletionKept

LEMMA IdleLands == ASSUME IInv, NEW r \in Request PROVE Lands(r, Idle)
<1>1. Fit(Idle)
  BY IdleTyped DEF Fit, Nobody, Stranger
<1>2. "none" \notin ghost.closed[r]
  BY NoneAssumption DEF IInv, Typed, GhostType
<1>3. QED
  BY <1>1, <1>2, IdleTyped DEF Lands, Fine, Joining, Holding, Editing

\* A request that ends, or is refused, writes nothing that matters here.
LEMMA FinishQuiet == ASSUME IInv, NEW r \in Request, Finish(r), Calm PROVE Quiet(r)
BY FinishMoves, IdleLands, CalmQuiet DEF IInv, Typed, OnlyRequest

LEMMA RefusedQuiet == ASSUME IInv, NEW r \in Request, Finish(r), Read PROVE Quiet(r)
BY FinishQuiet, ReadCalm DEF IInv

\* Labels at which more is known of a request than that it fits.
Knowing == Holding \union {"found", "join", "profile", "policy"}

LEMMA SameLands ==
  ASSUME IInv, NEW r \in Request, NEW y, Fit(y), y.as = As(r), y.pc \notin Knowing,
         req[r].pc \notin Entered
  PROVE  Lands(r, y)
BY DEF IInv, Lands, Fine, Knowing, Joining, Holding, Editing, As

\* What request r is when it goes to label l and nothing else of it changes.
Onward(r, l, y) ==
  y.pc = l /\ y.op = Op(r) /\ y.with = req[r].with /\ y.as = As(r) /\ y.seen = req[r].seen
FitsAt(r, l) == \A y : Onward(r, l, y) => Fit(y)

LEMMA GotoQuiet ==
  ASSUME IInv, NEW r \in Request, NEW l \in Label, Goto(r, l), FitsAt(r, l), Calm,
         l \notin Knowing, req[r].pc \notin Entered
  PROVE  Quiet(r)
<1>1. Moves(r, l, Op(r), req[r].with, As(r), req[r].seen)
  BY GotoMoves DEF IInv, Typed
<1>2. OnlyRequest(r) /\ Onward(r, l, req'[r])
  BY <1>1 DEF Moves, OnlyRequest, Onward
<1>3. Fit(req'[r])
  BY <1>2 DEF FitsAt
<1>4. Lands(r, req'[r])
  BY <1>2, <1>3, SameLands DEF Onward
<1>5. QED
  BY <1>2, <1>4, CalmQuiet

LEMMA RequireQuiet ==
  ASSUME IInv, NEW r \in Request, NEW condition, NEW l \in Label, Require(r, condition, l), Read,
         condition => FitsAt(r, l), l \notin Knowing, req[r].pc \notin Entered
  PROVE  Quiet(r)
<1>1. CASE condition
  BY <1>1, GotoQuiet, ReadCalm DEF Require, IInv
<1>2. CASE ~condition
  BY <1>2, RefusedQuiet DEF Require
<1>3. QED
  BY <1>1, <1>2

-----------------------------------------------------------------------------
(* authenticate                                                            *)

LEMMA RequestFacts ==
  ASSUME IInv, NEW r \in Request
  PROVE  /\ db \in DbType /\ req \in [Request -> RequestType] /\ Fit(req[r])
         /\ Op(r) \in Operation \union {NoOp} /\ As(r) \in Principal /\ req[r].seen \in Seen
         /\ As(r).kind = "session" => As(r).user \in Email /\ As(r).tenant \in Tenant
<1>1. db \in DbType /\ req \in [Request -> RequestType] /\ Fine(r, req[r])
  BY DEF IInv, Typed
<1>2. req[r] \in RequestType /\ Fit(req[r])
  BY <1>1 DEF Fine
<1>3. ASSUME As(r).kind = "session" PROVE As(r).user \in Email /\ As(r).tenant \in Tenant
  <2>1. PICK s \in Session : SessionOf(s, As(r).user, As(r).tenant)
    BY <1>1, <1>3 DEF Fine, As
  <2>2. Row(s) \in SessionRow
    BY <1>1, <2>1 DEF SessionOf, Row, DbType
  <2>3. QED
    BY <2>1, <2>2 DEF SessionOf, SessionRow
<1>4. QED
  BY <1>1, <1>2, <1>3 DEF RequestType, Op, As

LEMMA ReadSessionQuiet == ASSUME IInv, NEW r \in Request, ReadSession(r) PROVE Quiet(r)
<1> DEFINE s == db.sessions[req[r].with]
           p == [NoOne EXCEPT !.kind = "session", !.user = s.user, !.tenant = s.tenant]
<1>1. CASE Active(s, req[r].with)
  <2>1. req[r].with \in Session /\ At(r, "session")
    BY RequestFacts DEF ReadSession, At, Fit
  <2>2. s \in SessionRow /\ SessionOf(req[r].with, s.user, s.tenant)
    BY <1>1, <2>1, RequestFacts DEF Active, DbType, SessionOf, Row
  <2>3. s.user \in Email /\ s.tenant \in Tenant
    BY <2>2 DEF SessionRow
  <2>4. p \in Principal /\ p.kind = "session" /\ p.user = s.user /\ p.tenant = s.tenant
    BY <2>3 DEF NoOne, Principal
  <2> HIDE DEF p
  <2>5. req' = [req EXCEPT ![r].pc = "member", ![r].as = p]
    BY <1>1 DEF ReadSession, p
  <2>6. Moves(r, "member", Op(r), req[r].with, p, req[r].seen)
    BY <2>4, <2>5, AsMoves, RequestFacts DEF Label
  <2>7. Fit(req'[r])
    BY <2>1, <2>3, <2>4, <2>6, RequestFacts DEF Moves, Fit, Nobody, Stranger, Op, At
  <2>8. Lands(r, req'[r])
    BY <2>1, <2>2, <2>4, <2>6, <2>7 DEF Moves, Lands, Fine, Entered, Joining, Holding, Editing
  <2>9. QED
    BY <2>6, <2>8, CalmQuiet, ReadCalm DEF Moves, OnlyRequest, ReadSession, IInv
<1>2. CASE ~Active(s, req[r].with)
  BY <1>2, RefusedQuiet DEF ReadSession
<1>3. QED
  BY <1>1, <1>2

LEMMA ReadMemberQuiet == ASSUME IInv, NEW r \in Request, ReadMember(r) PROVE Quiet(r)
<1> DEFINE role == Roles(As(r).tenant)[As(r).user]
<1>1. CASE role # "none"
  <2>1. As(r).kind = "session" /\ At(r, "member")
    BY RequestFacts DEF ReadMember, At, Fit, As
  <2>2. role \in Role
    BY <1>1, <2>1, RequestFacts DEF Roles, DbType
  <2> HIDE DEF role
  <2>3. req' = [req EXCEPT ![r].pc = "tenant", ![r].as.role = role]
    BY <1>1 DEF ReadMember, role
  <2>4. /\ Moves(r, "tenant", Op(r), req[r].with, [As(r) EXCEPT !.role = role], req[r].seen)
        /\ As(r)'.tenant = As(r).tenant /\ As(r)'.kind = As(r).kind /\ As(r)'.user = As(r).user
    BY <2>2, <2>3, RoleMoves, RequestFacts DEF Label
  <2>5. Fit(req'[r])
    BY <2>1, <2>4, RequestFacts DEF Moves, Fit, Nobody, Stranger, Op, At, As
  <2>6. Lands(r, req'[r])
    BY <2>1, <2>4, <2>5 DEF Moves, Lands, Fine, Entered, Joining, Holding, Editing, As, IInv
  <2>7. QED
    BY <2>4, <2>6, CalmQuiet, ReadCalm DEF Moves, OnlyRequest, ReadMember, IInv
<1>2. CASE role = "none"
  BY <1>2, RefusedQuiet DEF ReadMember
<1>3. QED
  BY <1>1, <1>2

LEMMA ReadTenantQuiet == ASSUME IInv, NEW r \in Request, ReadTenant(r) PROVE Quiet(r)
<1> DEFINE l == IF IsSession(r) THEN "handle" ELSE "touch"
<1>1. CASE db.tenants[As(r).tenant] = "active"
  <2>1. At(r, "tenant") /\ Goto(r, l)
    BY <1>1 DEF ReadTenant, Require
  <2>2. l \in Label /\ l \in {"handle", "touch"} /\ (l = "touch" => ~IsSession(r))
    BY DEF Label
  <2> HIDE DEF l
  <2>3. Moves(r, l, Op(r), req[r].with, As(r), req[r].seen)
    BY <2>1, <2>2, GotoMoves, RequestFacts
  <2>4. Fit(req'[r])
    BY <2>1, <2>2, <2>3, RequestFacts DEF Moves, Fit, Nobody, Stranger, Op, At, As, IsSession
  <2>5. As(r).tenant \notin ghost.closed[r]
    BY <1>1 DEF IInv, ClosedOK
  <2>6. Lands(r, req'[r])
    BY <2>1, <2>2, <2>3, <2>4, <2>5 DEF Moves, Lands, Fine, Entered, Joining, Holding, Editing, As, IInv
  <2>7. QED
    BY <2>3, <2>6, CalmQuiet, ReadCalm DEF Moves, OnlyRequest, ReadTenant, IInv
<1>2. CASE db.tenants[As(r).tenant] # "active"
  BY <1>2, RefusedQuiet DEF ReadTenant, Require
<1>3. QED
  BY <1>1, <1>2

LEMMA AcceptQuiet ==
  ASSUME IInv, NEW r \in Request, NEW row \in KeyRow \union {NoRow}, Accept(r, row), Calm,
         At(r, "cached") \/ At(r, "fill")
  PROVE  Quiet(r)
<1> DEFINE p == [NoOne EXCEPT !.kind = "key", !.tenant = row.tenant, !.scopes = row.scopes]
<1>1. CASE Active(row, req[r].with)
  <2>1. row \in KeyRow
    BY <1>1 DEF Active
  <2>2. p \in Principal /\ p.kind = "key" /\ p.tenant \in Tenant
    BY <2>1 DEF NoOne, Principal, KeyRow
  <2> HIDE DEF p
  <2>3. req' = [req EXCEPT ![r].pc = "tenant", ![r].seen = row, ![r].as = p]
    BY <1>1 DEF Accept, p
  <2>4. Moves(r, "tenant", Op(r), req[r].with, p, row)
    BY <2>1, <2>2, <2>3, AcceptMoves, RequestFacts DEF Label, Seen
  <2>5. Fit(req'[r])
    BY <2>1, <2>2, <2>4, RequestFacts DEF Moves, Fit, Nobody, Stranger, Op, At
  <2>6. Lands(r, req'[r])
    BY <2>2, <2>4, <2>5 DEF Moves, Lands, Fine, Entered, Joining, Holding, Editing
  <2>7. QED
    BY <2>4, <2>6, CalmQuiet DEF Moves, OnlyRequest
<1>2. CASE ~Active(row, req[r].with)
  BY <1>2, FinishQuiet DEF Accept
<1>3. QED
  BY <1>1, <1>2

LEMMA RowTyped ==
  ASSUME IInv
  PROVE  /\ \A k \in Key : db.cache[k] \in KeyRow \union {NoRow}
         /\ \A k \in Key : db.keys[k] \in KeyRow \union {NoRow}
         /\ \A s \in Session : db.sessions[s] \in SessionRow \union {NoRow}
BY DEF IInv, Typed, DbType

LEMMA ReadCacheQuiet == ASSUME IInv, NEW r \in Request, ReadCache(r) PROVE Quiet(r)
<1> DEFINE row == db.cache[req[r].with]
<1>1. At(r, "cached") /\ req[r].with \in Key
  BY RequestFacts DEF ReadCache, At, Fit
<1>2. CASE row = NoRow
  <2>1. FitsAt(r, "hash")
    BY <1>1, RequestFacts DEF FitsAt, Onward, Fit, Nobody, Stranger, At, As, Op
  <2>2. QED
    BY <1>1, <1>2, <2>1, GotoQuiet, ReadCalm
       DEF ReadCache, IInv, Label, Knowing, Holding, Editing, Entered, At
<1>3. CASE row # NoRow
  BY <1>1, <1>3, RowTyped, AcceptQuiet, ReadCalm DEF ReadCache, IInv
<1>4. QED
  BY <1>2, <1>3

LEMMA GotoWithQuiet ==
  ASSUME IInv, NEW r \in Request, NEW l \in Label, NEW row \in Seen, GotoWith(r, l, row), Calm,
         Fit(req'[r]), l \notin Knowing, req[r].pc \notin Entered
  PROVE  Quiet(r)
<1>1. Moves(r, l, Op(r), req[r].with, As(r), row)
  BY GotoWithMoves DEF IInv, Typed
<1>2. Lands(r, req'[r])
  BY <1>1, SameLands DEF Moves
<1>3. QED
  BY <1>1, <1>2, CalmQuiet DEF Moves, OnlyRequest

LEMMA ReadKeyQuiet == ASSUME IInv, NEW r \in Request, ReadKey(r) PROVE Quiet(r)
<1> DEFINE row == db.keys[req[r].with]
<1>1. At(r, "hash") /\ req[r].with \in Key
  BY RequestFacts DEF ReadKey, At, Fit
<1>2. CASE row = NoRow
  BY <1>2, RefusedQuiet DEF ReadKey
<1>3. CASE row # NoRow
  <2>1. row \in KeyRow /\ GotoWith(r, "fill", row)
    BY <1>1, <1>3, RowTyped DEF ReadKey
  <2>2. row \in Seen /\ "fill" \in Label
    BY <2>1 DEF Seen, Label
  <2>3. Moves(r, "fill", Op(r), req[r].with, As(r), row)
    BY <2>1, <2>2, GotoWithMoves, RequestFacts
  <2>4. Fit(req'[r])
    BY <1>1, <2>1, <2>3, RequestFacts DEF Moves, Fit, Nobody, Stranger, At, As, Op
  <2>5. QED
    BY <1>1, <2>1, <2>2, <2>4, GotoWithQuiet, ReadCalm
       DEF ReadKey, IInv, Knowing, Holding, Editing, Entered, At
<1>4. QED
  BY <1>2, <1>3

LEMMA FillCacheQuiet == ASSUME IInv, NEW r \in Request, FillCache(r) PROVE Quiet(r)
<1> DEFINE rows == [db.cache EXCEPT ![req[r].with] = req[r].seen]
<1>1. At(r, "fill") /\ req[r].seen \in KeyRow
  BY RequestFacts DEF FillCache, At, Fit
<1>2. rows \in [Key -> KeyRow \union {NoRow}]
  BY <1>1, RequestFacts DEF DbType
<1>3. Write([db EXCEPT !.cache = rows])
  BY DEF FillCache
<1>4. Puts("cache", db, rows, [db EXCEPT !.cache = rows])
  BY <1>2, PutCache, RequestFacts
<1>5. Calm
  BY <1>3, <1>4, WriteCalm DEF Puts, Rest, IInv
<1>6. QED
  BY <1>1, <1>5, AcceptQuiet DEF FillCache

LEMMA TouchKeyQuiet == ASSUME IInv, NEW r \in Request, TouchKey(r) PROVE Quiet(r)
<1> DEFINE rows == [db.keys EXCEPT ![req[r].with].revoked = req[r].seen.revoked]
<1>1. At(r, "touch") /\ req[r].seen.revoked \in BOOLEAN
  BY RequestFacts DEF TouchKey, At, Fit, KeyRow
<1>2. rows \in [Key -> KeyRow \union {NoRow}]
  <2>1. \A row \in KeyRow : [row EXCEPT !.revoked = req[r].seen.revoked] \in KeyRow
    BY <1>1 DEF KeyRow
  <2>2. [NoRow EXCEPT !.revoked = req[r].seen.revoked] = NoRow
    BY NoRowFacts
  <2>3. QED
    BY <2>1, <2>2, RequestFacts DEF DbType
<1>3. Write([db EXCEPT !.keys = rows])
  BY DEF TouchKey
<1>4. Puts("keys", db, rows, [db EXCEPT !.keys = rows])
  BY <1>2, PutKeys, RequestFacts
<1>5. Calm
  BY <1>3, <1>4, WriteCalm DEF Puts, Rest, IInv
<1>6. FitsAt(r, "handle")
  BY <1>1, RequestFacts DEF FitsAt, Onward, Fit, Nobody, Stranger, At, As, Op
<1>7. QED
  BY <1>1, <1>5, <1>6, GotoQuiet DEF TouchKey, Label, Knowing, Holding, Editing, Entered, At

LEMMA AuthenticateQuiet == ASSUME IInv, NEW r \in Request, Authenticate(r) PROVE Quiet(r)
BY ReadSessionQuiet, ReadMemberQuiet, ReadTenantQuiet, ReadCacheQuiet, ReadKeyQuiet,
   FillCacheQuiet, TouchKeyQuiet DEF Authenticate

-----------------------------------------------------------------------------
(* Login.                                                                  *)

LEMMA CountedUp ==
  ASSUME NEW S, NEW f \in [S -> Nat], NEW x
  PROVE  [f EXCEPT ![x] = @ + 1] \in [S -> Nat]
<1> DEFINE n == f[x] + 1
<1>1. x \in S => n \in Nat
  OBVIOUS
<1> HIDE DEF n
<1>2. [f EXCEPT ![x] = n] \in [S -> Nat]
  BY <1>1
<1>3. QED
  BY <1>2 DEF n

LEMMA CountFailuresQuiet == ASSUME IInv, NEW r \in Request, CountFailures(r) PROVE Quiet(r)
<1>1. At(r, "count")
  BY DEF CountFailures
<1>2. FitsAt(r, "verify")
  BY <1>1, RequestFacts DEF FitsAt, Onward, Fit, Nobody, Stranger, At, As, Op
<1>3. QED
  BY <1>1, <1>2, RequireQuiet DEF CountFailures, Label, Knowing, Holding, Editing, Entered, At

LEMMA VerifyLoginQuiet == ASSUME IInv, NEW r \in Request, VerifyLogin(r) PROVE Quiet(r)
<1> DEFINE valid == db.users[Op(r).on] = Op(r).to.password
           where == <<Op(r).on, Op(r).to.ip>>
           counts == [db.failures EXCEPT ![where] = @ + 1]
           l == IF valid THEN "home" ELSE "audit"
<1>1. At(r, "verify")
  BY DEF VerifyLogin
<1>2. counts \in [Email \X Ip -> Nat]
  <2>1. db.failures \in [Email \X Ip -> Nat]
    BY RequestFacts DEF DbType
  <2>2. QED
    BY <2>1, CountedUp
<1>3. Puts("failures", db, counts, [db EXCEPT !.failures = counts])
  BY <1>2, PutFailures, RequestFacts
<1>4. Calm
  <2>1. CASE valid
    BY <2>1, WriteCalm, RequestFacts DEF VerifyLogin, Rest, IInv
  <2>2. CASE ~valid
    <3>1. Write([db EXCEPT !.failures = counts])
      BY <2>2 DEF VerifyLogin
    <3>2. QED
      BY <1>3, <3>1, WriteCalm DEF Puts, Rest, IInv
  <2>3. QED
    BY <2>1, <2>2
<1>5. FitsAt(r, "home") /\ FitsAt(r, "audit")
  BY <1>1, RequestFacts DEF FitsAt, Onward, Fit, Nobody, Stranger, At, As, Op
<1>6. l \in {"home", "audit"} /\ Goto(r, l)
  BY DEF VerifyLogin
<1> HIDE DEF l
<1>7. QED
  BY <1>1, <1>4, <1>5, <1>6, GotoQuiet DEF Label, Knowing, Holding, Editing, Entered, At

LEMMA ReadHomeQuiet == ASSUME IInv, NEW r \in Request, ReadHome(r) PROVE Quiet(r)
<1>1. At(r, "home") /\ As(r).kind = "none"
  BY RequestFacts DEF ReadHome, At, As, Fit, Nobody
<1>2. CASE Finish(r)
  BY <1>2, RefusedQuiet DEF ReadHome
<1>3. ASSUME NEW t \in Tenant, Roles(t)[Op(r).on] # "none",
             req' = [req EXCEPT ![r].pc = "open", ![r].as.tenant = t]
      PROVE  Quiet(r)
  <2>1. /\ Moves(r, "open", Op(r), req[r].with, [As(r) EXCEPT !.tenant = t], req[r].seen)
        /\ As(r)' = [As(r) EXCEPT !.tenant = t] /\ As(r)'.tenant = t /\ As(r)'.kind = As(r).kind
    BY <1>3, TenantMoves, RequestFacts DEF Label
  <2>2. Fit(req'[r])
    BY <1>1, <2>1, RequestFacts DEF Moves, Fit, Nobody, Stranger, At, As, Op
  <2>3. Tied(Op(r).on, t)
    BY <1>3 DEF Tied, Roles
  <2>4. Lands(r, req'[r])
    BY <1>1, <2>1, <2>2, <2>3 DEF Moves, Lands, Fine, Entered, Joining, As
  <2>5. QED
    BY <2>1, <2>4, CalmQuiet, ReadCalm DEF Moves, OnlyRequest, ReadHome, IInv
<1>4. QED
  BY <1>2, <1>3 DEF ReadHome

LEMMA OpenHomeQuiet == ASSUME IInv, NEW r \in Request, OpenHome(r) PROVE Quiet(r)
<1>1. At(r, "open")
  BY DEF OpenHome
<1>2. CASE db.tenants[As(r).tenant] = "active"
  <2>1. Moves(r, "sign", Op(r), req[r].with, As(r), req[r].seen)
    BY <1>2, GotoMoves, RequestFacts DEF OpenHome, Require, Label
  <2>2. Fit(req'[r])
    BY <1>1, <2>1, RequestFacts DEF Moves, Fit, Nobody, Stranger, At, As, Op
  <2>3. As(r).tenant \notin ghost.closed[r]
    BY <1>2 DEF IInv, ClosedOK
  <2>4. Tied(Op(r).on, As(r).tenant)
    BY <1>1 DEF Tied, Holds, Holding, At, Op, As
  <2>5. Lands(r, req'[r])
    BY <1>1, <2>1, <2>2, <2>3, <2>4 DEF Moves, Lands, Fine, Joining, As, IInv
  <2>6. QED
    BY <2>1, <2>5, CalmQuiet, ReadCalm DEF Moves, OnlyRequest, OpenHome, IInv
<1>3. CASE db.tenants[As(r).tenant] # "active"
  BY <1>3, RefusedQuiet DEF OpenHome, Require
<1>4. QED
  BY <1>2, <1>3

LEMMA GotoLands ==
  ASSUME IInv, NEW r \in Request, NEW l \in Label, Goto(r, l), FitsAt(r, l),
         l \notin Knowing, req[r].pc \notin Entered
  PROVE  OnlyRequest(r) /\ Lands(r, req'[r])
<1>1. Moves(r, l, Op(r), req[r].with, As(r), req[r].seen)
  BY GotoMoves DEF IInv, Typed
<1>2. OnlyRequest(r) /\ Onward(r, l, req'[r])
  BY <1>1 DEF Moves, OnlyRequest, Onward
<1>3. Fit(req'[r])
  BY <1>2 DEF FitsAt
<1>4. QED
  BY <1>2, <1>3, SameLands DEF Onward

LEMMA ToAudit ==
  ASSUME IInv, NEW r \in Request, Goto(r, "audit"), req[r].pc \notin Stranger \union Entered
  PROVE  OnlyRequest(r) /\ Lands(r, req'[r])
<1>1. FitsAt(r, "audit")
  BY RequestFacts DEF FitsAt, Onward, Fit, Nobody, Stranger, At, As, Op
<1>2. QED
  BY <1>1, GotoLands DEF Label, Knowing, Holding, Editing

\* What a request knows when its operation is about a user, a session, a key.
LEMMA OpFacts ==
  ASSUME IInv, NEW r \in Request, ~At(r, "idle")
  PROVE  /\ Op(r).kind \in {"login", "bootstrap", "invite", "changeRole", "removeMember"} =>
              Op(r).on \in Email
         /\ Op(r).kind \in {"invite", "changeRole"} => Op(r).to \in Role
         /\ Op(r).kind = "changePassword" => Op(r).to \in Nat \ {0}
         /\ Op(r).kind = "createKey" => Op(r).to \subseteq Scope
         /\ Op(r).kind \in {"revokeKey", "rotateKey"} => Op(r).on \in Key
         /\ Op(r).kind \in Kinds
BY OperationAssumption, RequestFacts DEF Fit, At, Op, Kinds

LEMMA SignInQuiet == ASSUME IInv, NEW r \in Request, SignIn(r) PROVE Quiet(r)
<1> DEFINE row == [tenant |-> As(r).tenant, user |-> Op(r).on, revoked |-> FALSE]
<1>1. At(r, "sign") /\ Op(r).on \in Email /\ As(r).tenant \in Tenant
  BY OpFacts, RequestFacts DEF SignIn, At, Fit, Op, As, Stranger, Nobody
<1>2. row \in SessionRow /\ row.user = Op(r).on /\ row.tenant = As(r).tenant
  BY <1>1 DEF SessionRow
<1> HIDE DEF row
<1>3. PICK s \in Session : db.sessions[s] = NoRow /\ Write([db EXCEPT !.sessions[s] = row])
  BY DEF SignIn, row
<1> DEFINE rows == [db.sessions EXCEPT ![s] = row]
<1>4. db.sessions \in [Session -> SessionRow \union {NoRow}]
  BY RequestFacts DEF DbType
<1>5. rows \in [Session -> SessionRow \union {NoRow}] /\ rows[s] = row
      /\ \A i \in Session \ {s} : rows[i] = db.sessions[i]
  BY <1>2, <1>4
<1>6. Write([db EXCEPT !.sessions = rows])
  BY <1>3
<1> HIDE DEF rows
<1>7. Puts("sessions", db, rows, db')
  BY <1>5, <1>6, PutSessions, RequestFacts DEF Write
<1>8. Row(s)' = row /\ \A i \in Session \ {s} : Row(i)' = Row(i)
  BY <1>5, <1>7 DEF Puts, Row
<1>9. SessionsKept
  BY <1>3, <1>8 DEF SessionsKept, Row
<1>10. Tied(Op(r).on, As(r).tenant)
  BY <1>1 DEF Tied, Holds, Holding, At, Op, As
<1>11. ASSUME NEW i \in Session, Row(i)' # NoRow PROVE Tied(Row(i)'.user, Row(i)'.tenant)
  <2>1. CASE i = s
    BY <1>2, <1>8, <1>10, <2>1
  <2>2. CASE i # s
    BY <1>8, <1>11, <2>2 DEF Tied, SessionOf
  <2>3. QED
    BY <2>1, <2>2
<1>12. GhostKept
  BY <1>6 DEF Write, GhostKept, IInv, Typed
<1>13. OnlyRequest(r) /\ Lands(r, req'[r])
  BY <1>1, ToAudit DEF SignIn, At, Entered, Stranger, Nobody
<1>14. QED
  BY <1>7, <1>9, <1>11, <1>12, <1>13 DEF Quiet, Puts, Rest, DeletionKept

LEMMA LoginQuiet == ASSUME IInv, NEW r \in Request, Login(r) PROVE Quiet(r)
BY CountFailuresQuiet, VerifyLoginQuiet, ReadHomeQuiet, OpenHomeQuiet, SignInQuiet DEF Login

-----------------------------------------------------------------------------
(* The caller's own session, password and profile.                         *)

LEMMA HandleFacts ==
  ASSUME IInv, NEW r \in Request, At(r, "handle")
  PROVE  As(r).tenant \in Tenant /\ req[r].pc \notin Entered \union {"idle"}
BY RequestFacts DEF At, Fit, As, Stranger, Nobody, Entered

LEMMA RevokeSessionQuiet == ASSUME IInv, NEW r \in Request, RevokeSession(r) PROVE Quiet(r)
<1>1. At(r, "handle")
  BY DEF RevokeSession, Is
<1>2. FitsAt(r, "endSession")
  BY <1>1, RequestFacts DEF FitsAt, Onward, Fit, Nobody, Stranger, At, As, Op
<1>3. QED
  BY <1>1, <1>2, HandleFacts, RequireQuiet DEF RevokeSession, Label, Knowing, Holding, Editing

\* Rows of sessions some of which are now revoked.
LEMMA RevokedQuiet ==
  ASSUME IInv, NEW r \in Request, NEW rows, Write([db EXCEPT !.sessions = rows]), DOMAIN rows = Session,
         rows = [s \in Session |-> rows[s]],
         \A s \in Session : rows[s] = Row(s) \/ rows[s] = [Row(s) EXCEPT !.revoked = TRUE],
         OnlyRequest(r), Lands(r, req'[r])
  PROVE  Quiet(r)
<1>1. \A s \in Session : Row(s) \in SessionRow \union {NoRow}
  BY RowTyped DEF Row
<1>2. \A row \in SessionRow : LET n == [row EXCEPT !.revoked = TRUE] IN
        n \in SessionRow /\ n.revoked /\ n.user = row.user /\ n.tenant = row.tenant
  BY DEF SessionRow
<1>3. [NoRow EXCEPT !.revoked = TRUE] = NoRow /\ \A row \in SessionRow : row # NoRow
  BY NoRowFacts
<1>4. ASSUME NEW s \in Session
      PROVE  /\ rows[s] \in SessionRow \union {NoRow}
             /\ Row(s) = NoRow => rows[s] = NoRow
             /\ Row(s) # NoRow => /\ rows[s] # NoRow
                                  /\ rows[s].user = Row(s).user /\ rows[s].tenant = Row(s).tenant
                                  /\ Row(s).revoked => rows[s].revoked
  <2>1. CASE rows[s] = Row(s)
    BY <1>1, <2>1
  <2>2. CASE rows[s] = [Row(s) EXCEPT !.revoked = TRUE] /\ Row(s) = NoRow
    BY <1>3, <2>2
  <2>3. CASE rows[s] = [Row(s) EXCEPT !.revoked = TRUE] /\ Row(s) # NoRow
    <3>1. Row(s) \in SessionRow
      BY <1>1, <2>3
    <3>2. /\ rows[s] \in SessionRow /\ rows[s].revoked
          /\ rows[s].user = Row(s).user /\ rows[s].tenant = Row(s).tenant
      BY <1>2, <2>3, <3>1
    <3>3. QED
      BY <1>3, <2>3, <3>2
  <2>4. QED
    BY <2>1, <2>2, <2>3
<1>5. rows \in [Session -> SessionRow \union {NoRow}]
  BY <1>4
<1>6. Puts("sessions", db, rows, db')
  BY <1>5, PutSessions, RequestFacts DEF Write
<1>7. \A s \in Session : Row(s)' = rows[s]
  BY <1>6 DEF Puts, Row
<1>8. SessionsKept
  BY <1>4, <1>7 DEF SessionsKept
<1>9. ASSUME NEW s \in Session, Row(s)' # NoRow PROVE Tied(Row(s)'.user, Row(s)'.tenant)
  BY <1>4, <1>7, <1>9 DEF Tied, SessionOf
<1>10. GhostKept
  BY DEF Write, GhostKept, IInv, Typed
<1>11. QED
  BY <1>6, <1>8, <1>9, <1>10 DEF Quiet, Puts, Rest, DeletionKept

LEMMA EndSessionQuiet == ASSUME IInv, NEW r \in Request, EndSession(r) PROVE Quiet(r)
<1> DEFINE rows == [db.sessions EXCEPT ![Op(r).on].revoked = TRUE]
<1>1. db.sessions \in [Session -> SessionRow \union {NoRow}]
  BY RequestFacts DEF DbType
<1>2. DOMAIN rows = Session /\ rows = [s \in Session |-> rows[s]]
  BY <1>1
<1>3. \A s \in Session : rows[s] = Row(s) \/ rows[s] = [Row(s) EXCEPT !.revoked = TRUE]
  BY <1>1 DEF Row
<1>4. Write([db EXCEPT !.sessions = rows])
  BY DEF EndSession
<1>5. OnlyRequest(r) /\ Lands(r, req'[r])
  BY ToAudit DEF EndSession, At, Entered, Stranger, Nobody
<1> HIDE DEF rows
<1>6. QED
  BY <1>2, <1>3, <1>4, <1>5, RevokedQuiet

LEMMA ChangePasswordQuiet == ASSUME IInv, NEW r \in Request, ChangePassword(r) PROVE Quiet(r)
<1>1. At(r, "handle") /\ Op(r).kind = "changePassword"
  BY DEF ChangePassword, Is
<1>2. IsSession(r) => FitsAt(r, "password")
  BY <1>1, RequestFacts DEF FitsAt, Onward, Fit, Nobody, Stranger, At, As, Op, IsSession
<1>3. QED
  BY <1>1, <1>2, HandleFacts, RequireQuiet DEF ChangePassword, Label, Knowing, Holding, Editing

LEMMA ReadProfileQuiet == ASSUME IInv, NEW r \in Request, ReadProfile(r) PROVE Quiet(r)
<1> DEFINE seen == db.users[As(r).user]
<1>1. At(r, "handle")
  BY DEF ReadProfile, Is
<1>2. CASE IsSession(r)
  <2>1. /\ As(r).user \in Email /\ As(r).tenant \in Tenant
        /\ \E s \in Session : SessionOf(s, As(r).user, As(r).tenant)
    BY <1>2, RequestFacts DEF IsSession, IInv, Fine, As
  <2>2. Tied(As(r).user, As(r).tenant)
    BY <2>1 DEF Tied
  <2>3. seen \in Nat /\ seen # 0
    BY <2>1, <2>2, RequestFacts DEF IInv, TiesOK, DbType
  <2>4. Moves(r, "profile", Op(r), req[r].with, As(r), seen)
    BY <1>2, <2>3, GotoWithMoves, RequestFacts DEF ReadProfile, Label, Seen
  <2>5. Fit(req'[r])
    BY <1>1, <1>2, <2>3, <2>4, RequestFacts
       DEF Moves, Fit, Nobody, Stranger, At, As, Op, IsSession
  <2>6. Lands(r, req'[r])
    BY <1>1, <2>1, <2>3, <2>4, <2>5, HandleFacts
       DEF Moves, Lands, Fine, Joining, Holding, Editing, As, IInv
  <2>7. QED
    BY <2>4, <2>6, CalmQuiet, ReadCalm DEF Moves, OnlyRequest, ReadProfile, IInv
<1>3. CASE ~IsSession(r)
  BY <1>3, RefusedQuiet DEF ReadProfile
<1>4. QED
  BY <1>2, <1>3

-----------------------------------------------------------------------------
(* API keys.                                                               *)

LEMMA CreateKeyQuiet == ASSUME IInv, NEW r \in Request, CreateKey(r) PROVE Quiet(r)
<1>1. At(r, "handle") /\ Op(r).kind = "createKey"
  BY DEF CreateKey, Is
<1>2. FitsAt(r, "insertKey")
  BY <1>1, RequestFacts DEF FitsAt, Onward, Fit, Nobody, Stranger, At, As, Op
<1>3. QED
  BY <1>1, <1>2, HandleFacts, RequireQuiet DEF CreateKey, Label, Knowing, Holding, Editing

\* A write of the keys, whose rows keep their types, and a move to audit.
LEMMA KeysCalm ==
  ASSUME IInv, NEW rows \in [Key -> KeyRow \union {NoRow}], db' = [db EXCEPT !.keys = rows], GhostKept
  PROVE  Calm
BY PutKeys DEF Calm, Puts, Rest, IInv, Typed

LEMMA InsertKeyQuiet == ASSUME IInv, NEW r \in Request, InsertKey(r) PROVE Quiet(r)
<1> DEFINE scopes == IF Op(r).kind = "createKey" THEN Op(r).to ELSE req[r].seen.scopes
           row == [tenant |-> As(r).tenant, revoked |-> FALSE, scopes |-> scopes]
<1>1. At(r, "insertKey") /\ As(r).tenant \in Tenant
  BY RequestFacts DEF InsertKey, At, Fit, As, Stranger, Nobody
<1>2. scopes \subseteq Scope
  <2>1. Op(r).kind = "createKey" => Op(r).to \subseteq Scope
    BY <1>1, OpFacts DEF At
  <2>2. Op(r).kind # "createKey" => req[r].seen.scopes \subseteq Scope
    BY <1>1, RequestFacts DEF At, Fit, Op, KeyRow
  <2>3. QED
    BY <2>1, <2>2
<1> HIDE DEF scopes
<1>3. row \in KeyRow
  BY <1>1, <1>2 DEF KeyRow
<1>4. CASE May(r, "api-keys:write") /\ IsSession(r)
  <2> HIDE DEF row
  <2>1. PICK k \in Key : Write([db EXCEPT !.keys[k] = row])
    BY <1>4 DEF InsertKey, row, scopes
  <2>2. [db.keys EXCEPT ![k] = row] \in [Key -> KeyRow \union {NoRow}]
    BY <1>3, RequestFacts DEF DbType
  <2>3. GhostKept
    BY <2>1 DEF Write, GhostKept, IInv, Typed
  <2>4. Calm
    BY <2>1, <2>2, <2>3, KeysCalm DEF Write
  <2>5. Goto(r, "audit")
    BY <1>4 DEF InsertKey
  <2>6. QED
    BY <1>1, <2>4, <2>5, ToAudit, CalmQuiet DEF At, Entered, Stranger, Nobody
<1>5. CASE ~(May(r, "api-keys:write") /\ IsSession(r))
  BY <1>5, RefusedQuiet DEF InsertKey
<1>6. QED
  BY <1>4, <1>5

LEMMA FindKeyQuiet == ASSUME IInv, NEW r \in Request, FindKey(r) PROVE Quiet(r)
<1> DEFINE row == db.keys[Op(r).on]
<1>1. At(r, "handle") /\ Op(r).kind \in {"revokeKey", "rotateKey"}
  BY DEF FindKey, Is
<1>2. Op(r).on \in Key /\ As(r).tenant \in Tenant
  BY <1>1, OpFacts, HandleFacts DEF At
<1>3. CASE May(r, "api-keys:write") /\ row.tenant = As(r).tenant
  <2>1. row \in KeyRow /\ GotoWith(r, "revoke", row)
    BY <1>2, <1>3, RowTyped, NoRowFacts DEF FindKey
  <2>2. row \in Seen /\ "revoke" \in Label
    BY <2>1 DEF Seen, Label
  <2>3. Moves(r, "revoke", Op(r), req[r].with, As(r), row)
    BY <2>1, <2>2, GotoWithMoves, RequestFacts
  <2>4. Fit(req'[r])
    BY <1>1, <2>1, <2>3, RequestFacts DEF Moves, Fit, Nobody, Stranger, At, As, Op
  <2>5. QED
    BY <1>1, <2>1, <2>2, <2>4, HandleFacts, GotoWithQuiet, ReadCalm
       DEF FindKey, IInv, Knowing, Holding, Editing
<1>4. CASE ~(May(r, "api-keys:write") /\ row.tenant = As(r).tenant)
  BY <1>4, RefusedQuiet DEF FindKey
<1>5. QED
  BY <1>3, <1>4

LEMMA GhostRevoked ==
  ASSUME Typed, NEW ks \in SUBSET Key, ghost' = [ghost EXCEPT !.revoked = @ \union ks]
  PROVE  GhostKept
BY DEF Typed, GhostType, GhostKept

LEMMA RevokeKeyQuiet == ASSUME IInv, NEW r \in Request, RevokeKey(r) PROVE Quiet(r)
<1> DEFINE rows == [db.keys EXCEPT ![Op(r).on].revoked = TRUE]
<1>1. At(r, "revoke") /\ Op(r).on \in Key
  BY OpFacts, RequestFacts DEF RevokeKey, At, Fit, Op
<1>2. rows \in [Key -> KeyRow \union {NoRow}]
  <2>1. \A row \in KeyRow : [row EXCEPT !.revoked = TRUE] \in KeyRow
    BY DEF KeyRow
  <2>2. QED
    BY <2>1, NoRowFacts, RequestFacts DEF DbType
<1>3. db' = [db EXCEPT !.keys = rows]
  BY DEF RevokeKey
<1>4. GhostKept
  BY <1>1, GhostRevoked DEF RevokeKey, IInv
<1> HIDE DEF rows
<1>5. Calm
  BY <1>2, <1>3, <1>4, KeysCalm
<1>6. FitsAt(r, "uncache")
  BY <1>1, RequestFacts DEF FitsAt, Onward, Fit, Nobody, Stranger, At, As, Op
<1>7. QED
  BY <1>1, <1>5, <1>6, GotoQuiet DEF RevokeKey, Label, Knowing, Holding, Editing, Entered, At

LEMMA CacheCalm ==
  ASSUME IInv, NEW rows \in [Key -> KeyRow \union {NoRow}], Write([db EXCEPT !.cache = rows])
  PROVE  Calm
BY PutCache, WriteCalm DEF Calm, Puts, Rest, IInv, Typed

LEMMA UncacheKeyQuiet == ASSUME IInv, NEW r \in Request, UncacheKey(r) PROVE Quiet(r)
<1> DEFINE l == IF Op(r).kind = "rotateKey" THEN "insertKey" ELSE "audit"
<1>1. At(r, "uncache")
  BY DEF UncacheKey
<1>2. [db.cache EXCEPT ![Op(r).on] = NoRow] \in [Key -> KeyRow \union {NoRow}]
  BY RequestFacts DEF DbType
<1>3. Calm
  BY <1>2, CacheCalm DEF UncacheKey
<1>4. FitsAt(r, "insertKey") /\ FitsAt(r, "audit")
  BY <1>1, RequestFacts DEF FitsAt, Onward, Fit, Nobody, Stranger, At, As, Op
<1>5. l \in {"insertKey", "audit"} /\ Goto(r, l)
  BY DEF UncacheKey
<1> HIDE DEF l
<1>6. QED
  BY <1>1, <1>3, <1>4, <1>5, GotoQuiet DEF Label, Knowing, Holding, Editing, Entered, At

LEMMA KeysQuiet == ASSUME IInv, NEW r \in Request, Keys(r) PROVE Quiet(r)
BY CreateKeyQuiet, InsertKeyQuiet, FindKeyQuiet, RevokeKeyQuiet, UncacheKeyQuiet DEF Keys

-----------------------------------------------------------------------------
(* Closing a tenant.                                                       *)

LEMMA CloseTenantQuiet == ASSUME IInv, NEW r \in Request, CloseTenant(r) PROVE Quiet(r)
<1>1. At(r, "handle")
  BY DEF CloseTenant, Is
<1>2. FitsAt(r, "close")
  BY <1>1, RequestFacts DEF FitsAt, Onward, Fit, Nobody, Stranger, At, As, Op
<1>3. QED
  BY <1>1, <1>2, HandleFacts, RequireQuiet DEF CloseTenant, Label, Knowing, Holding, Editing

LEMMA SaveClosedQuiet == ASSUME IInv, NEW r \in Request, SaveClosed(r) PROVE Quiet(r)
<1> DEFINE rows == [db.tenants EXCEPT ![As(r).tenant] = "deleting"]
<1>1. At(r, "close")
  BY DEF SaveClosed
<1>2. db.tenants \in [Tenant -> {"none", "active", "deleting"}]
  BY RequestFacts DEF DbType
<1>3. /\ rows \in [Tenant -> {"none", "active", "deleting"}]
      /\ \A t \in Tenant : db.tenants[t] = "deleting" => rows[t] = "deleting"
  BY <1>2
<1>4. Write([db EXCEPT !.tenants = rows])
  BY DEF SaveClosed
<1> HIDE DEF rows
<1>5. Puts("tenants", db, rows, db')
  BY <1>3, <1>4, PutTenants, RequestFacts DEF Write
<1>6. GhostKept
  BY <1>4 DEF Write, GhostKept, IInv, Typed
<1>7. FitsAt(r, "endSessions")
  BY <1>1, RequestFacts DEF FitsAt, Onward, Fit, Nobody, Stranger, At, As, Op
<1>8. OnlyRequest(r) /\ Lands(r, req'[r])
  BY <1>1, <1>7, GotoLands DEF SaveClosed, Label, Knowing, Holding, Editing, Entered, At
<1>9. \A s \in Session : Row(s)' = Row(s)
  BY <1>5 DEF Puts, Rest, Row
<1>10. \A s \in Session : Row(s)' # NoRow => Tied(Row(s)'.user, Row(s)'.tenant)
  BY <1>9 DEF Tied, SessionOf
<1>11. QED
  BY <1>3, <1>5, <1>6, <1>8, <1>9, <1>10 DEF Quiet, Puts, Rest, DeletionKept, SessionsKept

LEMMA EndSessionsQuiet == ASSUME IInv, NEW r \in Request, EndSessions(r) PROVE Quiet(r)
<1> DEFINE rows == RevokedIn(As(r).tenant, db.sessions)
<1>1. db.sessions \in [Session -> SessionRow \union {NoRow}]
  BY RequestFacts DEF DbType
<1>2. DOMAIN rows = Session /\ rows = [s \in Session |-> rows[s]]
  BY <1>1 DEF RevokedIn
<1>3. \A s \in Session : rows[s] = Row(s) \/ rows[s] = [Row(s) EXCEPT !.revoked = TRUE]
  BY <1>1 DEF Row, RevokedIn
<1>4. Write([db EXCEPT !.sessions = rows])
  BY DEF EndSessions
<1>5. At(r, "endSessions")
  BY DEF EndSessions
<1>6. FitsAt(r, "endKeys")
  BY <1>5, RequestFacts DEF FitsAt, Onward, Fit, Nobody, Stranger, At, As, Op
<1>7. OnlyRequest(r) /\ Lands(r, req'[r])
  BY <1>5, <1>6, GotoLands DEF EndSessions, Label, Knowing, Holding, Editing, Entered, At
<1> HIDE DEF rows
<1>8. QED
  BY <1>2, <1>3, <1>4, <1>7, RevokedQuiet

LEMMA EndKeysQuiet == ASSUME IInv, NEW r \in Request, EndKeys(r) PROVE Quiet(r)
<1> DEFINE rows == RevokedIn(As(r).tenant, db.keys)
<1>1. At(r, "endKeys")
  BY DEF EndKeys
<1>2. rows \in [Key -> KeyRow \union {NoRow}]
  <2>1. \A row \in KeyRow : [row EXCEPT !.revoked = TRUE] \in KeyRow
    BY DEF KeyRow
  <2>2. QED
    BY <2>1, NoRowFacts, RequestFacts DEF DbType, RevokedIn
<1>3. db' = [db EXCEPT !.keys = rows]
  BY DEF EndKeys
<1>4. GhostKept
  BY GhostRevoked DEF EndKeys, IInv
<1> HIDE DEF rows
<1>5. Calm
  BY <1>2, <1>3, <1>4, KeysCalm
<1>6. QED
  BY <1>1, <1>5, ToAudit, CalmQuiet DEF EndKeys, At, Entered, Stranger, Nobody

LEMMA JobsCalm ==
  ASSUME IInv, NEW t, NEW state \in {"saved", "queued"}, Write([db EXCEPT !.jobs[t] = state])
  PROVE  Calm
<1>1. [db.jobs EXCEPT ![t] = state] \in [Tenant -> {"none", "saved", "queued"}]
  BY DEF IInv, Typed, DbType
<1>2. QED
  BY <1>1, PutJobs, WriteCalm DEF Puts, Rest, IInv, Typed

LEMMA RequestErasureQuiet == ASSUME IInv, NEW r \in Request, RequestErasure(r) PROVE Quiet(r)
<1>1. At(r, "job")
  BY DEF RequestErasure
<1>2. CASE May(r, "deletion:write")
  <2>1. Calm
    BY <1>2, JobsCalm DEF RequestErasure
  <2>2. FitsAt(r, "send")
    BY <1>1, RequestFacts DEF FitsAt, Onward, Fit, Nobody, Stranger, At, As, Op
  <2>3. QED
    BY <1>1, <1>2, <2>1, <2>2, GotoQuiet
       DEF RequestErasure, Label, Knowing, Holding, Editing, Entered, At
<1>3. CASE ~May(r, "deletion:write")
  BY <1>3, RefusedQuiet DEF RequestErasure
<1>4. QED
  BY <1>2, <1>3

LEMMA SendErasureQuiet == ASSUME IInv, NEW r \in Request, SendErasure(r) PROVE Quiet(r)
<1>1. At(r, "send") /\ Calm
  BY JobsCalm DEF SendErasure
<1>2. QED
  BY <1>1, ToAudit, CalmQuiet DEF SendErasure, At, Entered, Stranger, Nobody

LEMMA AuditQuiet == ASSUME IInv, NEW r \in Request, Audit(r) PROVE Quiet(r)
<1> DEFINE record == <<Op(r).kind, As(r).tenant>>
<1>1. At(r, "audit")
  BY DEF Audit
<1>2. record \in Kinds \X (Tenant \union {"none"})
  <2>1. Op(r).kind \in Kinds
    BY <1>1, OpFacts DEF At
  <2>2. As(r).tenant \in Tenant \union {"none"}
    BY RequestFacts DEF Principal
  <2>3. QED
    BY <2>1, <2>2
<1> HIDE DEF record
<1>3. Write([db EXCEPT !.audit = db.audit \union {record}])
  BY DEF Audit, record
<1>4. db.audit \union {record} \in SUBSET (Kinds \X (Tenant \union {"none"}))
  BY <1>2, RequestFacts DEF DbType
<1>5. Calm
  BY <1>3, <1>4, PutAudit, WriteCalm DEF Puts, Rest, IInv, Typed
<1>6. CASE Finish(r)
  BY <1>5, <1>6, FinishQuiet
<1>7. CASE Op(r).kind = "deleteTenant" /\ Goto(r, "job")
  <2>1. FitsAt(r, "job")
    BY <1>1, <1>7, RequestFacts DEF FitsAt, Onward, Fit, Nobody, Stranger, At, As, Op
  <2>2. QED
    BY <1>1, <1>5, <1>7, <2>1, GotoQuiet DEF Label, Knowing, Holding, Editing, Entered, At
<1>8. QED
  BY <1>6, <1>7 DEF Audit

LEMMA ClosingQuiet == ASSUME IInv, NEW r \in Request, Closing(r) PROVE Quiet(r)
BY CloseTenantQuiet, SaveClosedQuiet, EndSessionsQuiet, EndKeysQuiet, RequestErasureQuiet,
   SendErasureQuiet, AuditQuiet DEF Closing

-----------------------------------------------------------------------------
(* Users and members: the steps that read, and those that make a tenant.   *)

LEMMA FindEmailQuiet == ASSUME IInv, NEW r \in Request, FindEmail(r) PROVE Quiet(r)
<1> DEFINE may == Op(r).kind = "bootstrap" \/ (May(r, "members:write") /\ Op(r).to # "owner")
<1>1. (At(r, "email") /\ Op(r).kind = "bootstrap") \/ (At(r, "handle") /\ Op(r).kind = "invite")
  BY RequestFacts DEF FindEmail, Is, At, Op, Fit
<1>2. FitsAt(r, "user")
  BY <1>1, RequestFacts DEF FitsAt, Onward, Fit, Nobody, Stranger, At, As, Op
<1>3. QED
  BY <1>1, <1>2, RequireQuiet DEF FindEmail, Label, Knowing, Holding, Editing, Entered, At

LEMMA FoundTenantQuiet == ASSUME IInv, NEW r \in Request, FoundTenant(r) PROVE Quiet(r)
<1>1. PICK t \in Tenant :
        /\ db.tenants[t] = "none"
        /\ Write([db EXCEPT !.tenants[t] = "active"])
        /\ req' = [req EXCEPT ![r].pc = "join", ![r].as.tenant = t]
  BY DEF FoundTenant
<1> DEFINE rows == [db.tenants EXCEPT ![t] = "active"]
<1>2. At(r, "found") /\ As(r).kind = "none" /\ db.tenants \in [Tenant -> {"none", "active", "deleting"}]
  BY RequestFacts DEF FoundTenant, At, As, Fit, Nobody, DbType
<1>3. /\ rows \in [Tenant -> {"none", "active", "deleting"}]
      /\ \A i \in Tenant : db.tenants[i] = "deleting" => rows[i] = "deleting"
  BY <1>1, <1>2
<1>4. Write([db EXCEPT !.tenants = rows])
  BY <1>1
<1> HIDE DEF rows
<1>5. Puts("tenants", db, rows, db') /\ GhostKept
  BY <1>3, <1>4, PutTenants, RequestFacts DEF Write, GhostKept, IInv, Typed
<1>6. /\ Moves(r, "join", Op(r), req[r].with, [As(r) EXCEPT !.tenant = t], req[r].seen)
      /\ As(r)' = [As(r) EXCEPT !.tenant = t] /\ As(r)'.tenant = t /\ As(r)'.kind = As(r).kind
  BY <1>1, TenantMoves, RequestFacts DEF Label
<1>7. Fit(req'[r])
  BY <1>2, <1>6, RequestFacts DEF Moves, Fit, Nobody, Stranger, At, As, Op
<1>8. t \notin ghost.closed[r]
  BY <1>1 DEF IInv, ClosedOK
<1>9. Lands(r, req'[r])
  BY <1>2, <1>6, <1>7, <1>8 DEF Moves, Lands, Fine, Joining, Holding, Editing, As, At, Op
<1>10. \A s \in Session : Row(s)' = Row(s)
  BY <1>5 DEF Puts, Rest, Row
<1>11. \A s \in Session : Row(s)' # NoRow => Tied(Row(s)'.user, Row(s)'.tenant)
  BY <1>10 DEF Tied, SessionOf
<1>12. QED
  BY <1>3, <1>5, <1>6, <1>9, <1>10, <1>11
     DEF Quiet, Puts, Rest, DeletionKept, SessionsKept, Moves, OnlyRequest

LEMMA SavePolicyQuiet == ASSUME IInv, NEW r \in Request, SavePolicy(r) PROVE Quiet(r)
<1> DEFINE rows == db.policies \union {As(r).tenant}
<1>1. At(r, "policy") /\ As(r).tenant \in Tenant
  BY RequestFacts DEF SavePolicy, At, Fit, As, Stranger, Nobody
<1>2. rows \in SUBSET Tenant
  BY <1>1, RequestFacts DEF DbType
<1>3. Write([db EXCEPT !.policies = rows])
  BY DEF SavePolicy
<1>4. Puts("policies", db, rows, db') /\ GhostKept
  BY <1>2, <1>3, PutPolicies, RequestFacts DEF Write, GhostKept, IInv, Typed
<1>5. OnlyRequest(r) /\ Lands(r, req'[r])
  BY <1>1, ToAudit DEF SavePolicy, At, Entered, Stranger, Nobody
<1>6. \A s \in Session : Row(s)' = Row(s)
  BY <1>4 DEF Puts, Rest, Row
<1>7. \A s \in Session : Row(s)' # NoRow => Tied(Row(s)'.user, Row(s)'.tenant)
  BY <1>6 DEF Tied, SessionOf
<1>8. \A t \in db'.policies : t \in db.policies \/ (At(r, "policy") /\ t = As(r).tenant)
  BY <1>1, <1>4 DEF Puts
<1>9. QED
  BY <1>4, <1>5, <1>6, <1>7, <1>8 DEF Quiet, Puts, Rest, DeletionKept, SessionsKept

\* A request goes on to change a member that it found: the member is tied, and
\* alone it does not take the last owner.
LEMMA EditLands ==
  ASSUME IInv, NEW r \in Request, NEW l \in Editing, Goto(r, l), FitsAt(r, l), Read,
         req[r].pc \notin Entered, Tied(Op(r).on, As(r).tenant),
         l = "role" /\ Op(r).to # "owner" =>
            \/ Roles(As(r).tenant)[Op(r).on] # "owner"
            \/ \E e \in Owners(As(r).tenant) : e # Op(r).on,
         l = "remove" => Roles(As(r).tenant)[Op(r).on] # "owner"
  PROVE  Quiet(r)
<1>1. Moves(r, l, Op(r), req[r].with, As(r), req[r].seen)
  BY GotoMoves DEF IInv, Typed, Editing, Label
<1>2. OnlyRequest(r) /\ Onward(r, l, req'[r])
  BY <1>1 DEF Moves, OnlyRequest, Onward
<1>3. Fit(req'[r])
  BY <1>2 DEF FitsAt
<1>4. Fine(r, req'[r])
  BY <1>2, <1>3 DEF Onward, Fine, IInv, As, Op, Editing
<1>5. Lands(r, req'[r])
  BY <1>2, <1>4 DEF Onward, Lands, Joining, Editing, As, Op
<1>6. QED
  BY <1>2, <1>5, CalmQuiet, ReadCalm DEF IInv

LEMMA ChangeRoleQuiet == ASSUME IInv, NEW r \in Request, ChangeRole(r) PROVE Quiet(r)
<1> DEFINE role == Roles(As(r).tenant)[Op(r).on]
           l == IF role = "owner" /\ Op(r).to # "owner" THEN "owners" ELSE "role"
<1>1. At(r, "handle") /\ Op(r).kind = "changeRole"
  BY DEF ChangeRole, Is
<1>2. CASE May(r, "members:write") /\ role # "none"
  <2>1. Goto(r, l) /\ l \in {"owners", "role"} /\ (l = "role" => role # "owner" \/ Op(r).to = "owner")
    BY <1>2 DEF ChangeRole, Require
  <2>2. FitsAt(r, "owners") /\ FitsAt(r, "role")
    BY <1>1, RequestFacts DEF FitsAt, Onward, Fit, Nobody, Stranger, At, As, Op
  <2>3. Tied(Op(r).on, As(r).tenant)
    BY <1>2 DEF Tied, Roles
  <2> HIDE DEF l
  <2>4. QED
    BY <1>1, <2>1, <2>2, <2>3, EditLands, HandleFacts DEF ChangeRole, Editing
<1>3. CASE ~(May(r, "members:write") /\ role # "none")
  BY <1>3, RefusedQuiet DEF ChangeRole, Require
<1>4. QED
  BY <1>2, <1>3

LEMMA CountOwnersQuiet == ASSUME IInv, NEW r \in Request, CountOwners(r) PROVE Quiet(r)
<1> DEFINE owners == Owners(As(r).tenant)
<1>1. At(r, "owners")
  BY DEF CountOwners
<1>2. CASE Cardinality(owners) > 1
  <2>1. \E e \in owners : e # Op(r).on
    <3>1. SUFFICES ASSUME owners \subseteq {Op(r).on} PROVE FALSE
      OBVIOUS
    <3>2. IsFiniteSet({Op(r).on}) /\ Cardinality({Op(r).on}) = 1
      BY FS_Singleton
    <3>3. Cardinality(owners) <= 1
      BY <3>1, <3>2, FS_Subset
    <3>4. Cardinality(owners) \in Nat
      BY <3>1, <3>2, FS_Subset, FS_CardinalityType
    <3>5. QED
      BY <1>2, <3>3, <3>4
  <2>2. FitsAt(r, "role")
    BY <1>1, RequestFacts DEF FitsAt, Onward, Fit, Nobody, Stranger, At, As, Op
  <2>3. Tied(Op(r).on, As(r).tenant)
    BY <1>1 DEF Tied, Holds, Holding, Editing, At, Op, As
  <2>4. QED
    BY <1>1, <1>2, <2>1, <2>2, <2>3, EditLands DEF CountOwners, Require, Editing, Entered, At
<1>3. CASE ~(Cardinality(owners) > 1)
  BY <1>3, RefusedQuiet DEF CountOwners, Require
<1>4. QED
  BY <1>2, <1>3

LEMMA RemoveMemberQuiet == ASSUME IInv, NEW r \in Request, RemoveMember(r) PROVE Quiet(r)
<1> DEFINE role == Roles(As(r).tenant)[Op(r).on]
<1>1. At(r, "handle") /\ Op(r).kind = "removeMember"
  BY DEF RemoveMember, Is
<1>2. CASE May(r, "members:write") /\ role \notin {"none", "owner"}
  <2>1. FitsAt(r, "remove")
    BY <1>1, RequestFacts DEF FitsAt, Onward, Fit, Nobody, Stranger, At, As, Op
  <2>2. Tied(Op(r).on, As(r).tenant)
    BY <1>2 DEF Tied, Roles
  <2>3. QED
    BY <1>1, <1>2, <2>1, <2>2, EditLands, HandleFacts DEF RemoveMember, Require, Editing
<1>3. CASE ~(May(r, "members:write") /\ role \notin {"none", "owner"})
  BY <1>3, RefusedQuiet DEF RemoveMember, Require
<1>4. QED
  BY <1>2, <1>3

-----------------------------------------------------------------------------
(* The six writes of users and members.                                    *)

LEMMA CrossFacts ==
  ASSUME Typed, NEW r \in Request, NEW what \in {"users", "members"}, NEW labels
  PROVE  LET g == Cross(r, what, labels) IN
         /\ g \in GhostType /\ g.closed = ghost.closed /\ g.password = ghost.password
         /\ ghost.crossed \subseteq g.crossed /\ g.crossed \subseteq ghost.crossed \union {what}
         /\ what \notin g.crossed => \A q \in Request \ {r} :
              ~(req[q].pc \in labels /\ As(q).tenant = As(r).tenant)
<1> DEFINE g == Cross(r, what, labels)
           crossing == \E q \in Request \ {r} : req[q].pc \in labels /\ As(q).tenant = As(r).tenant
<1>1. CASE crossing
  <2>1. g = [ghost EXCEPT !.crossed = ghost.crossed \union {what}]
    BY <1>1 DEF Cross
  <2>2. /\ g \in GhostType /\ g.closed = ghost.closed /\ g.password = ghost.password
        /\ g.crossed = ghost.crossed \union {what}
    BY <2>1 DEF Typed, GhostType
  <2>3. QED
    BY <2>2
<1>2. CASE ~crossing
  <2>1. g = ghost
    BY <1>2 DEF Cross
  <2>2. QED
    BY <1>2, <2>1 DEF Typed
<1>3. QED
  BY <1>1, <1>2

\* Ties are not made: the membership written is of a tie there was.
LEMMA NoNewTie ==
  ASSUME NEW r \in Request, \A q \in Request \ {r} : req'[q] = req[q], req'[r].pc \notin Holding,
         db'.sessions = db.sessions, NEW e, NEW t, Tied(e, t)',
         db'.members[t][e] = db.members[t][e] \/ Tied(e, t)
  PROVE  Tied(e, t)
<1>1. CASE db'.members[t][e] # "none"
  BY <1>1 DEF Tied
<1>2. CASE \E s \in Session : SessionOf(s, e, t)'
  BY <1>2 DEF Tied, SessionOf, Row
<1>3. CASE \E q \in Request : Holds(req'[q], e, t)
  BY <1>3 DEF Tied, Holds
<1>4. QED
  BY <1>1, <1>2, <1>3 DEF Tied

LEMMA TiesKept ==
  ASSUME IInv,
         \A e \in Email, t \in Tenant : Tied(e, t)' => Tied(e, t),
         \A e \in Email, q \in Request : Joining(req'[q], e) => Joining(req[q], e),
         \A e \in Email : db.users[e] # 0 => db'.users[e] # 0
  PROVE  TiesOK'
<1>1. TiesOK
  BY DEF IInv
<1>2. QED
  BY <1>1 DEF TiesOK

\* The user of a session is tied to its tenant.
LEMMA SessionTied ==
  ASSUME IInv, NEW q \in Request, As(q).kind = "session"
  PROVE  /\ Tied(As(q).user, As(q).tenant) /\ As(q).user \in Email /\ As(q).tenant \in Tenant
         /\ db.users[As(q).user] # 0
<1>1. \E s \in Session : SessionOf(s, As(q).user, As(q).tenant)
  BY DEF IInv, Fine, As
<1>2. Tied(As(q).user, As(q).tenant) /\ As(q).user \in Email /\ As(q).tenant \in Tenant
  BY <1>1, RequestFacts DEF Tied
<1>3. QED
  BY <1>2 DEF IInv, TiesOK

LEMMA SameOwners ==
  ASSUME db'.members = db.members
  PROVE  \A t : Owners(t)' = Owners(t) /\ Roles(t)' = Roles(t)
BY DEF Owners, Roles

LEMMA SavePasswordStep == ASSUME IInv, NEW r \in Request, SavePassword(r) PROVE IInv'
<1> DEFINE user == As(r).user
           to == Op(r).to
           g == Cross(r, "users", {"password", "profile"})
<1>1. At(r, "password") /\ As(r).kind = "session" /\ to \in Nat \ {0}
  BY OpFacts, RequestFacts DEF SavePassword, At, Fit, As, Op
<1>2. user \in Email /\ As(r).tenant \in Tenant /\ Tied(user, As(r).tenant)
  BY <1>1, SessionTied
<1>3. db.users \in [Email -> Nat] /\ ghost.password \in [Email -> Nat]
  BY DEF IInv, Typed, DbType, GhostType
<1>4. /\ g \in GhostType /\ g.closed = ghost.closed /\ g.password = ghost.password
      /\ ghost.crossed \subseteq g.crossed /\ g.crossed \subseteq ghost.crossed \union {"users"}
      /\ "users" \notin g.crossed => \A q \in Request \ {r} :
           ~(req[q].pc \in {"password", "profile"} /\ As(q).tenant = As(r).tenant)
  BY CrossFacts DEF IInv
<1>5. ghost' = [g EXCEPT !.password[user] = to]
  BY DEF SavePassword
<1> HIDE DEF g
<1>6. /\ ghost' \in GhostType /\ ghost'.closed = ghost.closed /\ ghost'.crossed = g.crossed
      /\ ghost'.password = [ghost.password EXCEPT ![user] = to]
  BY <1>1, <1>4, <1>5 DEF GhostType
<1>7. Puts("users", db, [db.users EXCEPT ![user] = to], db')
  BY <1>1, <1>3, PutUsers, RequestFacts DEF SavePassword
<1>8. /\ db' \in DbType /\ db'.users = [db.users EXCEPT ![user] = to]
      /\ db'.members = db.members /\ db'.tenants = db.tenants /\ db'.policies = db.policies
      /\ db'.sessions = db.sessions
  BY <1>7 DEF Puts, Rest
<1>9. OnlyRequest(r) /\ Lands(r, req'[r])
  BY <1>1, ToAudit DEF SavePassword, At, Entered, Stranger, Nobody
<1>10. req'[r].pc = "audit"
  BY GotoMoves, RequestFacts DEF SavePassword, Moves, Label
<1>11. Typed'
  BY <1>6, <1>8, <1>9 DEF Typed, OnlyRequest
<1>12. TiesOK'
  <2>1. \A e \in Email, t \in Tenant : Tied(e, t)' => Tied(e, t)
    BY <1>8, <1>9, <1>10, NoNewTie DEF OnlyRequest, Holding, Editing
  <2>2. \A e \in Email, q \in Request : Joining(req'[q], e) => Joining(req[q], e)
    BY <1>9 DEF OnlyRequest, Lands
  <2>3. \A e \in Email : db.users[e] # 0 => db'.users[e] # 0
    BY <1>1, <1>3, <1>8
  <2>4. QED
    BY <2>1, <2>2, <2>3, TiesKept
<1>13. ASSUME NEW q \in Request PROVE Fine(q, req[q])'
  <2>1. Fine(q, req'[q])
    BY <1>9 DEF OnlyRequest, Lands, IInv
  <2>2. ASSUME req'[q].pc = "profile", "users" \notin ghost'.crossed
        PROVE  req'[q].seen = db'.users[req'[q].as.user]
    <3>1. q # r /\ req'[q] = req[q]
      BY <1>9, <1>10, <2>2 DEF OnlyRequest
    <3>2. As(q).kind = "session"
      BY <2>2, <3>1, RequestFacts DEF Fit, As
    <3>3. Tied(As(q).user, As(q).tenant) /\ As(q).user \in Email /\ As(q).tenant \in Tenant
      BY <3>2, SessionTied
    <3>4. As(q).tenant # As(r).tenant
      BY <1>4, <1>6, <2>2, <3>1
    <3>5. As(q).user # user
      BY <1>2, <3>3, <3>4 DEF IInv, TiesOK
    <3>6. "users" \notin ghost.crossed
      BY <1>4, <1>6, <2>2
    <3>7. req[q].seen = db.users[As(q).user]
      BY <2>1, <2>2, <3>1, <3>6 DEF Fine, As
    <3>8. QED
      BY <1>3, <1>8, <3>1, <3>3, <3>5, <3>7 DEF As
  <2>3. "members" \notin ghost'.crossed => "members" \notin ghost.crossed
    BY <1>4, <1>6
  <2>4. \A s \in Session : Row(s)' = Row(s)
    BY <1>8 DEF Row
  <2>5. \A t : Owners(t)' = Owners(t) /\ Roles(t)' = Roles(t)
    BY <1>8, SameOwners
  <2>6. QED
    BY <1>6, <2>1, <2>2, <2>3, <2>4, <2>5 DEF Fine, SessionOf
<1>14. ClosedOK'
  BY <1>6, <1>8 DEF IInv, ClosedOK
<1>15. KeptOK'
  <2>1. "users" \notin ghost'.crossed => db'.users = ghost'.password
    BY <1>4, <1>6, <1>8 DEF IInv, KeptOK
  <2>2. "members" \notin ghost'.crossed => \A t \in db'.policies : Owners(t)' # {}
    BY <1>4, <1>6, <1>8, SameOwners DEF IInv, KeptOK
  <2>3. QED
    BY <2>1, <2>2 DEF KeptOK
<1>16. QED
  BY <1>11, <1>12, <1>13, <1>14, <1>15 DEF IInv

LEMMA SaveProfileStep == ASSUME IInv, NEW r \in Request, SaveProfile(r) PROVE IInv'
<1> DEFINE user == As(r).user
           seen == req[r].seen
           g == Cross(r, "users", {"password", "profile"})
<1>1. At(r, "profile") /\ As(r).kind = "session" /\ seen \in Nat \ {0}
  BY RequestFacts DEF SaveProfile, At, Fit, As, IInv, Fine
<1>2. user \in Email /\ As(r).tenant \in Tenant /\ Tied(user, As(r).tenant)
  BY <1>1, SessionTied
<1>3. db.users \in [Email -> Nat] /\ ghost.password \in [Email -> Nat]
  BY DEF IInv, Typed, DbType, GhostType
<1>4. /\ g \in GhostType /\ g.closed = ghost.closed /\ g.password = ghost.password
      /\ ghost.crossed \subseteq g.crossed /\ g.crossed \subseteq ghost.crossed \union {"users"}
      /\ "users" \notin g.crossed => \A q \in Request \ {r} :
           ~(req[q].pc \in {"password", "profile"} /\ As(q).tenant = As(r).tenant)
  BY CrossFacts DEF IInv
<1>5. ghost' = g
  BY DEF SaveProfile
<1> HIDE DEF g
<1>6. /\ ghost' \in GhostType /\ ghost'.closed = ghost.closed /\ ghost'.crossed = g.crossed
      /\ ghost'.password = ghost.password
  BY <1>4, <1>5
<1>7. Puts("users", db, [db.users EXCEPT ![user] = seen], db')
  BY <1>1, <1>3, PutUsers, RequestFacts DEF SaveProfile
<1>8. /\ db' \in DbType /\ db'.users = [db.users EXCEPT ![user] = seen]
      /\ db'.members = db.members /\ db'.tenants = db.tenants /\ db'.policies = db.policies
      /\ db'.sessions = db.sessions
  BY <1>7 DEF Puts, Rest
<1>9. OnlyRequest(r) /\ Lands(r, req'[r]) /\ req'[r] = Idle
  BY FinishMoves, IdleLands, RequestFacts DEF SaveProfile, OnlyRequest
<1>10. Typed'
  BY <1>6, <1>8, <1>9 DEF Typed, OnlyRequest
<1>11. TiesOK'
  <2>1. \A e \in Email, t \in Tenant : Tied(e, t)' => Tied(e, t)
    BY <1>8, <1>9, IdleTyped, NoNewTie DEF OnlyRequest, Holding, Editing
  <2>2. \A e \in Email, q \in Request : Joining(req'[q], e) => Joining(req[q], e)
    BY <1>9 DEF OnlyRequest, Lands
  <2>3. \A e \in Email : db.users[e] # 0 => db'.users[e] # 0
    BY <1>1, <1>3, <1>8
  <2>4. QED
    BY <2>1, <2>2, <2>3, TiesKept
<1>12. "users" \notin ghost.crossed => db'.users = db.users
  BY <1>1, <1>3, <1>8 DEF IInv, Fine, At, As
<1>13. "users" \notin ghost'.crossed => "users" \notin ghost.crossed
  BY <1>4, <1>6
<1>14. "members" \notin ghost'.crossed => "members" \notin ghost.crossed
  BY <1>4, <1>6
<1>15. ASSUME NEW q \in Request PROVE Fine(q, req[q])'
  <2>1. Fine(q, req'[q])
    BY <1>9 DEF OnlyRequest, Lands, IInv
  <2>2. \A s \in Session : Row(s)' = Row(s)
    BY <1>8 DEF Row
  <2>3. \A t : Owners(t)' = Owners(t) /\ Roles(t)' = Roles(t)
    BY <1>8, SameOwners
  <2>4. QED
    BY <1>6, <1>12, <1>13, <1>14, <2>1, <2>2, <2>3 DEF Fine, SessionOf
<1>16. ClosedOK'
  BY <1>6, <1>8 DEF IInv, ClosedOK
<1>17. KeptOK'
  BY <1>6, <1>8, <1>12, <1>13, <1>14, SameOwners DEF IInv, KeptOK
<1>18. QED
  BY <1>10, <1>11, <1>15, <1>16, <1>17 DEF IInv

LEMMA SaveUserStep == ASSUME IInv, NEW r \in Request, SaveUser(r) PROVE IInv'
<1> DEFINE e0 == Op(r).on
           l == IF Op(r).kind = "bootstrap" THEN "found" ELSE "join"
<1>1. /\ At(r, "user") /\ Op(r).kind \in {"bootstrap", "invite"} /\ e0 \in Email
      /\ Op(r).kind # "bootstrap" => As(r).tenant \in Tenant
      /\ Op(r).kind = "bootstrap" => As(r).kind = "none"
  BY OpFacts, RequestFacts DEF SaveUser, At, Fit, As, Op
<1>2. CASE db.users[e0] # 0
  BY <1>2, RefusedQuiet, QuietStep DEF SaveUser
<1>3. CASE db.users[e0] = 0
  <2>1. db.users \in [Email -> Nat] /\ ghost.password \in [Email -> Nat]
    BY DEF IInv, Typed, DbType, GhostType
  <2>2. Puts("users", db, [db.users EXCEPT ![e0] = 1], db')
    BY <1>3, <2>1, PutUsers, RequestFacts DEF SaveUser
  <2>3. /\ db' \in DbType /\ db'.users = [db.users EXCEPT ![e0] = 1]
        /\ db'.members = db.members /\ db'.tenants = db.tenants /\ db'.policies = db.policies
        /\ db'.sessions = db.sessions
    BY <2>2 DEF Puts, Rest
  <2>4. ghost' = [ghost EXCEPT !.password[e0] = 1]
    BY <1>3 DEF SaveUser
  <2>5. /\ ghost' \in GhostType /\ ghost'.closed = ghost.closed /\ ghost'.crossed = ghost.crossed
        /\ ghost'.password = [ghost.password EXCEPT ![e0] = 1]
    BY <2>4 DEF IInv, Typed, GhostType
  <2>6. l \in {"found", "join"} /\ l \in Label /\ Goto(r, l)
    BY <1>3 DEF SaveUser, Label
  <2>7. Moves(r, l, Op(r), req[r].with, As(r), req[r].seen)
    BY <2>6, GotoMoves, RequestFacts
  <2>8. /\ \A q \in Request \ {r} : req'[q] = req[q]
        /\ req'[r].pc = l /\ req'[r].op = Op(r) /\ req'[r].as = As(r)
    BY <2>7 DEF Moves
  <2>9. Fit(req'[r])
    BY <1>1, <2>7, RequestFacts DEF Moves, Fit, Nobody, Stranger, At, As, Op
  <2>10. \A t \in Tenant : ~Tied(e0, t)
    BY <1>1, <1>3 DEF IInv, TiesOK
  <2>11. \A q \in Request : ~Joining(req[q], e0)
    BY <1>1, <1>3 DEF IInv, TiesOK
  <2> HIDE DEF l, e0
  <2>12. ASSUME NEW e \in Email, NEW t \in Tenant, Tied(e, t)' PROVE Tied(e, t)
    BY <2>3, <2>6, <2>8, <2>12, NoNewTie DEF Holding, Editing
  <2>13. ASSUME NEW q \in Request, NEW e \in Email, Joining(req'[q], e)
         PROVE  Joining(req[q], e) \/ (q = r /\ e = e0)
    BY <2>8, <2>13 DEF Joining, e0
  <2>14. TiesOK'
    <3>1. \A e \in Email : db.users[e] # 0 => db'.users[e] # 0
      BY <2>1, <2>3
    <3>2. db'.users[e0] # 0
      BY <1>1, <2>1, <2>3
    <3>3. TiesOK
      BY DEF IInv
    <3>4. \A e \in Email, t \in Tenant : Tied(e, t)' => db'.users[e] # 0
      BY <2>12, <3>1, <3>3 DEF TiesOK
    <3>5. \A e \in Email, t, u \in Tenant : Tied(e, t)' /\ Tied(e, u)' => t = u
      BY <2>12, <3>3 DEF TiesOK
    <3>6. ASSUME NEW e \in Email, NEW q \in Request, Joining(req'[q], e)
          PROVE  /\ db'.users[e] # 0 /\ \A t \in Tenant : ~Tied(e, t)'
                 /\ \A i \in Request : Joining(req'[i], e) => i = q
      <4>1. CASE e = e0
        BY <2>10, <2>11, <2>12, <2>13, <3>2, <3>6, <4>1
      <4>2. CASE e # e0
        BY <2>12, <2>13, <3>1, <3>3, <3>6, <4>2 DEF TiesOK
      <4>3. QED
        BY <4>1, <4>2
    <3>7. QED
      BY <3>4, <3>5, <3>6 DEF TiesOK
  <2>15. ASSUME NEW q \in Request PROVE Fine(q, req[q])'
    <3>1. \A s \in Session : Row(s)' = Row(s)
      BY <2>3 DEF Row
    <3>2. \A t : Owners(t)' = Owners(t) /\ Roles(t)' = Roles(t)
      BY <2>3, SameOwners
    <3>3. Fine(q, req[q])
      BY DEF IInv
    <3>4. CASE q = r
      BY <1>1, <2>5, <2>6, <2>8, <2>9, <3>1, <3>3, <3>4 DEF Fine, SessionOf, At, As, Entered
    <3>5. CASE q # r
      <4>1. req[q].pc = "profile" => db'.users[req[q].as.user] = db.users[req[q].as.user]
        <5>1. SUFFICES ASSUME req[q].pc = "profile"
                       PROVE  db'.users[req[q].as.user] = db.users[req[q].as.user]
          OBVIOUS
        <5>2. As(q).kind = "session"
          BY <5>1, RequestFacts DEF Fit, As
        <5>3. As(q).user \in Email /\ As(q).user # e0
          BY <1>3, <5>2, SessionTied DEF e0
        <5>4. QED
          BY <2>1, <2>3, <5>3 DEF As
      <4>2. QED
        BY <2>5, <2>8, <3>1, <3>2, <3>3, <3>5, <4>1 DEF Fine, SessionOf
    <3>6. QED
      BY <3>4, <3>5
  <2>16. Typed'
    BY <2>3, <2>5, <2>7 DEF Typed, Moves
  <2>17. ClosedOK' /\ KeptOK'
    BY <2>3, <2>5, SameOwners DEF IInv, ClosedOK, KeptOK
  <2>18. QED
    BY <2>14, <2>15, <2>16, <2>17 DEF IInv
<1>4. QED
  BY <1>2, <1>3

\* A write of one membership: what it makes of the roles and of the owners.
LEMMA PutMember ==
  ASSUME IInv, NEW t0 \in Tenant, NEW e0 \in Email, NEW w \in Role \union {"none"},
         db' = [db EXCEPT !.members[t0][e0] = w]
  PROVE  /\ db' \in DbType /\ Rest("members", db, db')
         /\ db'.members[t0][e0] = w
         /\ \A t \in Tenant, e \in Email : t # t0 \/ e # e0 => db'.members[t][e] = db.members[t][e]
         /\ \A t \in Tenant : t # t0 => Owners(t)' = Owners(t) /\ Roles(t)' = Roles(t)
         /\ Owners(t0)' = (Owners(t0) \ {e0}) \union (IF w = "owner" THEN {e0} ELSE {})
<1> DEFINE roles == [db.members[t0] EXCEPT ![e0] = w]
           rows == [db.members EXCEPT ![t0] = roles]
<1>1. db.members \in [Tenant -> [Email -> Role \union {"none"}]]
  BY DEF IInv, Typed, DbType
<1>2. roles \in [Email -> Role \union {"none"}] /\ roles[e0] = w
      /\ \A e \in Email \ {e0} : roles[e] = db.members[t0][e]
  BY <1>1
<1> HIDE DEF roles
<1>3. rows \in [Tenant -> [Email -> Role \union {"none"}]] /\ rows[t0] = roles
      /\ \A t \in Tenant \ {t0} : rows[t] = db.members[t]
  BY <1>1, <1>2
<1>4. db' = [db EXCEPT !.members = rows]
  BY DEF roles
<1> HIDE DEF rows
<1>5. Puts("members", db, rows, db')
  BY <1>3, <1>4, PutMembers DEF IInv, Typed
<1>6. db' \in DbType /\ Rest("members", db, db') /\ db'.members = rows
  BY <1>5 DEF Puts
<1>7. \A t \in Tenant : t # t0 => Owners(t)' = Owners(t) /\ Roles(t)' = Roles(t)
  BY <1>3, <1>6 DEF Owners, Roles
<1>8. Owners(t0)' = (Owners(t0) \ {e0}) \union (IF w = "owner" THEN {e0} ELSE {})
  BY <1>2, <1>3, <1>6 DEF Owners, Roles
<1>9. QED
  BY <1>2, <1>3, <1>6, <1>7, <1>8

LEMMA JoinStep == ASSUME IInv, NEW r \in Request, Join(r) PROVE IInv'
<1> DEFINE founded == Op(r).kind = "bootstrap"
<1>1. /\ At(r, "join") /\ Op(r).kind \in {"bootstrap", "invite"}
      /\ Op(r).on \in Email /\ As(r).tenant \in Tenant
      /\ Op(r).kind = "invite" => Op(r).to \in Role
  BY OpFacts, RequestFacts DEF Join, At, Fit, As, Op, Stranger, Nobody
<1>e. PICK e0 \in Email : e0 = Op(r).on
  BY <1>1
<1>t. PICK t0 \in Tenant : t0 = As(r).tenant
  BY <1>1
<1>w. PICK w : w = IF founded THEN "owner" ELSE Op(r).to
  OBVIOUS
<1>2. w \in Role /\ w # "none" /\ (founded => w = "owner")
  BY <1>1, <1>w DEF Role
<1>3. db' = [db EXCEPT !.members[t0][e0] = w] /\ ghost' = ghost
  BY <1>e, <1>t, <1>w DEF Join, Write
<1>4. Joining(req[r], e0)
  BY <1>1, <1>e DEF Joining, At, Op
<1>5. /\ db.users[e0] # 0 /\ \A t \in Tenant : ~Tied(e0, t)
      /\ \A q \in Request : Joining(req[q], e0) => q = r
  BY <1>1, <1>4 DEF IInv, TiesOK
<1>6. /\ req' \in [Request -> RequestType] /\ \A q \in Request \ {r} : req'[q] = req[q]
      /\ \/ founded /\ req'[r].pc = "policy" /\ req'[r].op = Op(r) /\ req'[r].as = As(r)
                    /\ Fit(req'[r])
         \/ req'[r] = Idle
  <2>1. CASE founded
    <3>1. Moves(r, "policy", Op(r), req[r].with, As(r), req[r].seen)
      BY <2>1, GotoMoves, RequestFacts DEF Join, Label
    <3>2. Fit(req'[r])
      BY <1>1, <3>1, RequestFacts DEF Moves, Fit, Nobody, Stranger, At, As, Op
    <3>3. QED
      BY <2>1, <3>1, <3>2 DEF Moves
  <2>2. CASE ~founded
    BY <2>2, FinishMoves, RequestFacts DEF Join
  <2>3. QED
    BY <2>1, <2>2
<1> HIDE DEF founded
<1>7. /\ db' \in DbType /\ Rest("members", db, db')
      /\ db'.members[t0][e0] = w
      /\ \A t \in Tenant, e \in Email : t # t0 \/ e # e0 => db'.members[t][e] = db.members[t][e]
      /\ \A t \in Tenant : t # t0 => Owners(t)' = Owners(t) /\ Roles(t)' = Roles(t)
      /\ Owners(t0)' = (Owners(t0) \ {e0}) \union (IF w = "owner" THEN {e0} ELSE {})
  BY <1>1, <1>2, <1>3, PutMember
<1>8. /\ db'.users = db.users /\ db'.tenants = db.tenants /\ db'.policies = db.policies
      /\ db'.sessions = db.sessions
  BY <1>7 DEF Rest
<1>9. db.members[t0][e0] = "none" /\ e0 \notin Owners(t0)
  BY <1>1, <1>5 DEF Tied, Owners, Roles
<1>10. \A t \in Tenant : Owners(t) \subseteq Owners(t)'
  BY <1>7, <1>9
<1>11. req'[r].pc \in {"policy", "idle"}
  BY <1>6, IdleTyped
<1>12. ASSUME NEW e \in Email, NEW t \in Tenant, Tied(e, t)' PROVE Tied(e, t) \/ (e = e0 /\ t = t0)
  BY <1>6, <1>7, <1>8, <1>11, <1>12, NoNewTie DEF Holding, Editing
<1>13. ASSUME NEW q \in Request, NEW e \in Email, Joining(req'[q], e)
       PROVE  Joining(req[q], e) /\ e # e0
  BY <1>5, <1>6, <1>11, <1>13 DEF Joining
<1>14. TiesOK'
  <2>1. TiesOK
    BY DEF IInv
  <2>2. \A e \in Email, t \in Tenant : Tied(e, t)' => db'.users[e] # 0
    BY <1>5, <1>8, <1>12, <2>1 DEF TiesOK
  <2>3. \A e \in Email, t, u \in Tenant : Tied(e, t)' /\ Tied(e, u)' => t = u
    BY <1>5, <1>12, <2>1 DEF TiesOK
  <2>4. ASSUME NEW e \in Email, NEW q \in Request, Joining(req'[q], e)
        PROVE  /\ db'.users[e] # 0 /\ \A t \in Tenant : ~Tied(e, t)'
               /\ \A i \in Request : Joining(req'[i], e) => i = q
    BY <1>8, <1>12, <1>13, <2>1, <2>4 DEF TiesOK
  <2>5. QED
    BY <2>2, <2>3, <2>4 DEF TiesOK
<1>15. ASSUME NEW q \in Request PROVE Fine(q, req[q])'
  <2>1. \A s \in Session : Row(s)' = Row(s)
    BY <1>8 DEF Row
  <2>2. Fine(q, req[q])
    BY DEF IInv
  <2>3. CASE q = r /\ req'[r] = Idle
    <3>1. Fine(q, Idle)
      BY IdleLands DEF Lands
    <3>2. QED
      BY <1>3, <2>3, <3>1, IdleTyped DEF Fine
  <2>4. CASE q = r /\ req'[r] # Idle
    <3>1. founded /\ req'[r].pc = "policy" /\ req'[r].as = As(r) /\ Fit(req'[r])
      BY <1>6, <2>4
    <3>2. Owners(t0)' # {}
      BY <1>2, <1>7, <3>1
    <3>3. QED
      BY <1>1, <1>t, <1>3, <2>1, <2>2, <2>4, <3>1, <3>2 DEF Fine, SessionOf, As, At, Entered
  <2>5. CASE q # r
    <3>1. PICK u : u = As(q).tenant
      OBVIOUS
    <3>2. PICK f : f = Op(q).on
      OBVIOUS
    <3>3. req[q].pc = "policy" => u \in Tenant
      BY <3>1, RequestFacts DEF Fit, As, Stranger, Nobody
    <3>4. ASSUME req[q].pc \in Editing
          PROVE  u \in Tenant /\ Roles(u)'[f] = Roles(u)[f]
      <4>1. u \in Tenant /\ f \in Email
        BY <3>1, <3>2, <3>4, RequestFacts, OpFacts DEF Editing, Fit, At, As, Op, Stranger, Nobody
      <4>2. Tied(f, u)
        BY <3>1, <3>2, <3>4 DEF Tied, Holds, Holding, As, Op
      <4>3. f # e0
        BY <1>5, <4>1, <4>2
      <4>4. QED
        BY <1>7, <4>1, <4>3 DEF Roles
    <3>5. req[q].pc = "policy" \/ req[q].pc \in Editing => Owners(u) \subseteq Owners(u)'
      BY <1>10, <3>3, <3>4
    <3>6. "members" \notin ghost.crossed =>
            /\ req[q].pc = "policy" => Owners(u)' # {}
            /\ req[q].pc = "role" /\ Op(q).to # "owner" =>
                 Roles(u)'[f] # "owner" \/ \E e \in Owners(u)' : e # f
            /\ req[q].pc = "remove" => Roles(u)'[f] # "owner"
      BY <2>2, <3>1, <3>2, <3>4, <3>5 DEF Fine, Editing, As, Op
    <3>7. QED
      BY <1>3, <1>6, <1>8, <2>1, <2>2, <2>5, <3>1, <3>2, <3>6 DEF Fine, SessionOf, As, Op
  <2>6. QED
    BY <2>3, <2>4, <2>5
<1>16. Typed'
  BY <1>3, <1>6, <1>7 DEF Typed, IInv
<1>17. ClosedOK'
  BY <1>3, <1>8 DEF IInv, ClosedOK
<1>18. KeptOK'
  <2>1. \A t \in db.policies : t \in Tenant
    BY RequestFacts DEF DbType
  <2>2. QED
    BY <1>3, <1>8, <1>10, <2>1 DEF IInv, KeptOK
<1>19. QED
  BY <1>14, <1>15, <1>16, <1>17, <1>18 DEF IInv

\* SaveRole and DeleteMember: one membership of a user that is tied is written,
\* and of the other requests only those that edit members of that tenant care.
LEMMA EditStep ==
  ASSUME IInv, NEW r \in Request, NEW t0 \in Tenant, NEW e0 \in Email, NEW w \in Role \union {"none"},
         At(r, "role") \/ At(r, "remove"), t0 = As(r).tenant, e0 = Op(r).on,
         db' = [db EXCEPT !.members[t0][e0] = w], ghost' = Cross(r, "members", Editing),
         OnlyRequest(r), Lands(r, req'[r]), req'[r].pc \in {"audit", "idle"},
         "members" \notin ghost.crossed =>
            \/ w = "owner" \/ Roles(t0)[e0] # "owner" \/ \E e \in Owners(t0) : e # e0
  PROVE  IInv'
<1>1. /\ ghost' \in GhostType /\ ghost'.closed = ghost.closed /\ ghost'.password = ghost.password
      /\ ghost.crossed \subseteq ghost'.crossed /\ ghost'.crossed \subseteq ghost.crossed \union {"members"}
      /\ "members" \notin ghost'.crossed => \A q \in Request \ {r} :
           ~(req[q].pc \in Editing /\ As(q).tenant = t0)
  BY CrossFacts DEF IInv
<1>2. /\ db' \in DbType /\ Rest("members", db, db')
      /\ db'.members[t0][e0] = w
      /\ \A t \in Tenant, e \in Email : t # t0 \/ e # e0 => db'.members[t][e] = db.members[t][e]
      /\ \A t \in Tenant : t # t0 => Owners(t)' = Owners(t) /\ Roles(t)' = Roles(t)
      /\ Owners(t0)' = (Owners(t0) \ {e0}) \union (IF w = "owner" THEN {e0} ELSE {})
  BY PutMember
<1>3. /\ db'.users = db.users /\ db'.tenants = db.tenants /\ db'.policies = db.policies
      /\ db'.sessions = db.sessions
  BY <1>2 DEF Rest
<1>4. Tied(e0, t0)
  BY DEF Tied, Holds, Holding, Editing, At, As, Op
<1>5. TiesOK'
  <2>1. \A e \in Email, t \in Tenant : Tied(e, t)' => Tied(e, t)
    BY <1>2, <1>3, <1>4, NoNewTie DEF OnlyRequest, Holding, Editing
  <2>2. \A e \in Email, q \in Request : Joining(req'[q], e) => Joining(req[q], e)
    BY DEF OnlyRequest, Lands
  <2>3. QED
    BY <1>3, <2>1, <2>2, TiesKept
<1>6. "members" \notin ghost'.crossed => "members" \notin ghost.crossed
  BY <1>1
<1>7. "users" \notin ghost'.crossed => "users" \notin ghost.crossed
  BY <1>1
<1>8. ASSUME "members" \notin ghost'.crossed, NEW t \in Tenant, Owners(t) # {} PROVE Owners(t)' # {}
  <2>1. CASE t # t0
    BY <1>2, <1>8, <2>1
  <2>2. CASE t = t0 /\ w = "owner"
    BY <1>2, <2>2
  <2>3. CASE t = t0 /\ Roles(t0)[e0] # "owner"
    BY <1>2, <1>8, <2>3 DEF Owners
  <2>4. CASE t = t0 /\ \E e \in Owners(t0) : e # e0
    BY <1>2, <2>4
  <2>5. QED
    BY <1>6, <1>8, <2>1, <2>2, <2>3, <2>4
<1>9. ASSUME NEW q \in Request PROVE Fine(q, req[q])'
  <2>1. Fine(q, req'[q])
    BY DEF OnlyRequest, Lands, IInv
  <2>2. \A s \in Session : Row(s)' = Row(s)
    BY <1>3 DEF Row
  <2>3. CASE q = r
    BY <1>1, <1>7, <1>3, <2>1, <2>2, <2>3 DEF Fine, SessionOf
  <2>4. CASE q # r
    <3>1. PICK u : u = As(q).tenant
      OBVIOUS
    <3>2. req'[q] = req[q]
      BY <2>4 DEF OnlyRequest
    <3>3. req[q].pc \in {"policy", "role", "remove"} => u \in Tenant
      BY <3>1, RequestFacts DEF Fit, As, Stranger, Nobody
    <3>4. ASSUME "members" \notin ghost'.crossed
          PROVE  /\ req[q].pc = "policy" => Owners(u)' # {}
                 /\ req[q].pc \in {"role", "remove"} => Owners(u)' = Owners(u) /\ Roles(u)' = Roles(u)
      <4>1. req[q].pc \in {"role", "remove"} => u # t0
        BY <1>1, <2>4, <3>1, <3>4 DEF Editing
      <4>2. req[q].pc = "policy" => Owners(u) # {}
        BY <1>6, <2>1, <3>1, <3>2, <3>4 DEF Fine, As
      <4>3. QED
        BY <1>2, <1>8, <3>3, <3>4, <4>1, <4>2
    <3>5. QED
      BY <1>1, <1>3, <1>6, <1>7, <2>1, <2>2, <3>1, <3>2, <3>4 DEF Fine, SessionOf, As
  <2>5. QED
    BY <2>3, <2>4
<1>10. Typed'
  BY <1>1, <1>2 DEF Typed, OnlyRequest
<1>11. ClosedOK'
  BY <1>1, <1>3 DEF IInv, ClosedOK
<1>12. KeptOK'
  <2>1. \A t \in db.policies : t \in Tenant
    BY RequestFacts DEF DbType
  <2>2. QED
    BY <1>1, <1>3, <1>6, <1>7, <1>8, <2>1 DEF IInv, KeptOK
<1>13. QED
  BY <1>5, <1>9, <1>10, <1>11, <1>12 DEF IInv

LEMMA SaveRoleStep == ASSUME IInv, NEW r \in Request, SaveRole(r) PROVE IInv'
<1>1. /\ At(r, "role") /\ Op(r).on \in Email /\ Op(r).to \in Role /\ As(r).tenant \in Tenant
  BY OpFacts, RequestFacts DEF SaveRole, At, Fit, As, Op, Stranger, Nobody
<1>2. PICK t0 \in Tenant : t0 = As(r).tenant
  BY <1>1
<1>3. PICK e0 \in Email : e0 = Op(r).on
  BY <1>1
<1>4. PICK w \in Role \union {"none"} : w = Op(r).to
  BY <1>1
<1>5. OnlyRequest(r) /\ Lands(r, req'[r])
  BY <1>1, ToAudit DEF SaveRole, At, Entered, Stranger, Nobody
<1>6. req'[r].pc = "audit"
  BY GotoMoves, RequestFacts DEF SaveRole, Moves, Label
<1>7. "members" \notin ghost.crossed =>
        \/ w = "owner" \/ Roles(t0)[e0] # "owner" \/ \E e \in Owners(t0) : e # e0
  BY <1>1, <1>2, <1>3, <1>4 DEF IInv, Fine, At, As, Op
<1>8. db' = [db EXCEPT !.members[t0][e0] = w] /\ ghost' = Cross(r, "members", Editing)
  BY <1>2, <1>3, <1>4 DEF SaveRole
<1>9. QED
  BY <1>1, <1>2, <1>3, <1>5, <1>6, <1>7, <1>8, EditStep

LEMMA DeleteMemberStep == ASSUME IInv, NEW r \in Request, DeleteMember(r) PROVE IInv'
<1>1. /\ At(r, "remove") /\ Op(r).on \in Email /\ As(r).tenant \in Tenant
  BY OpFacts, RequestFacts DEF DeleteMember, At, Fit, As, Op, Stranger, Nobody
<1>2. PICK t0 \in Tenant : t0 = As(r).tenant
  BY <1>1
<1>3. PICK e0 \in Email : e0 = Op(r).on
  BY <1>1
<1>4. OnlyRequest(r) /\ Lands(r, req'[r]) /\ req'[r].pc = "idle"
  BY FinishMoves, IdleLands, IdleTyped, RequestFacts DEF DeleteMember, OnlyRequest
<1>5. "members" \notin ghost.crossed => Roles(t0)[e0] # "owner"
  BY <1>1, <1>2, <1>3 DEF IInv, Fine, At, As, Op
<1>6. db' = [db EXCEPT !.members[t0][e0] = "none"] /\ ghost' = Cross(r, "members", Editing)
  BY <1>2, <1>3 DEF DeleteMember
<1>7. QED
  BY <1>1, <1>2, <1>3, <1>4, <1>5, <1>6, EditStep

-----------------------------------------------------------------------------
(* The other steps, and the invariant.                                     *)

LEMMA StepSorts ==
  ASSUME IInv, NEW r \in Request, Step(r)
  PROVE  \/ Quiet(r) \/ SavePassword(r) \/ SaveProfile(r) \/ SaveUser(r)
         \/ Join(r) \/ SaveRole(r) \/ DeleteMember(r)
<1>1. CASE Authenticate(r) \/ Login(r) \/ Keys(r) \/ Closing(r)
  BY <1>1, AuthenticateQuiet, LoginQuiet, KeysQuiet, ClosingQuiet
<1>2. CASE Logout(r) \/ Use(r)
  BY <1>2, RefusedQuiet DEF Logout, Use
<1>3. CASE RevokeSession(r) \/ EndSession(r) \/ ChangePassword(r) \/ ReadProfile(r)
  BY <1>3, RevokeSessionQuiet, EndSessionQuiet, ChangePasswordQuiet, ReadProfileQuiet
<1>4. CASE FindEmail(r) \/ FoundTenant(r) \/ SavePolicy(r) \/ ChangeRole(r) \/ CountOwners(r)
           \/ RemoveMember(r)
  BY <1>4, FindEmailQuiet, FoundTenantQuiet, SavePolicyQuiet, ChangeRoleQuiet, CountOwnersQuiet,
     RemoveMemberQuiet
<1>5. QED
  BY <1>1, <1>2, <1>3, <1>4 DEF Step, Self, Users

LEMMA StepStep == ASSUME IInv, NEW r \in Request, Step(r) PROVE IInv'
BY StepSorts, QuietStep, SavePasswordStep, SaveProfileStep, SaveUserStep, JoinStep, SaveRoleStep,
   DeleteMemberStep

\* A step of no request: what the invariant reads is as it was.
LEMMA ApartStep == ASSUME IInv, UNCHANGED <<req, ghost>>, db' \in DbType, Rest("audit", db, db') PROVE IInv'
<1>1. /\ db'.users = db.users /\ db'.members = db.members /\ db'.tenants = db.tenants
      /\ db'.policies = db.policies /\ db'.sessions = db.sessions
  BY DEF Rest
<1>2. \A s \in Session : Row(s)' = Row(s)
  BY <1>1 DEF Row
<1>3. \A t : Owners(t)' = Owners(t) /\ Roles(t)' = Roles(t)
  BY <1>1, SameOwners
<1>4. \A e, t : Tied(e, t)' <=> Tied(e, t)
  BY <1>1, <1>2 DEF Tied, SessionOf
<1>5. TiesOK'
  BY <1>1, <1>4 DEF IInv, TiesOK
<1>6. ASSUME NEW q \in Request PROVE Fine(q, req[q])'
  BY <1>1, <1>2, <1>3 DEF IInv, Fine, SessionOf
<1>7. Typed' /\ ClosedOK' /\ KeptOK'
  BY <1>1, <1>3 DEF IInv, Typed, ClosedOK, KeptOK
<1>8. QED
  BY <1>5, <1>6, <1>7 DEF IInv

LEMMA BeginStep ==
  ASSUME IInv, NEW r \in Request, NEW o \in Operation, NEW c \in Credential \union {"none"}, Begin(r, o, c)
  PROVE  IInv'
<1> DEFINE l == IF o.kind = "login" THEN "count" ELSE IF o.kind = "bootstrap" THEN "email"
                ELSE IF c \in Key THEN "cached" ELSE "session"
           closing == {t \in Tenant : db.tenants[t] = "deleting"}
<1>1. req[r] = Idle /\ As(r) = Idle.as
  BY RequestFacts DEF Begin, At, Fit, As
<1>2. /\ l \in {"count", "email", "cached", "session"} /\ l \in Label
      /\ l = "count" => o.kind = "login"
      /\ l = "email" => o.kind = "bootstrap"
      /\ l = "cached" => c \in Key
      /\ l = "session" => c \in Session
  BY DEF Label, Begin, Open, Credential
<1>3. req' = [req EXCEPT ![r].op = o, ![r].with = c, ![r].pc = l]
  BY DEF Begin
<1> HIDE DEF l
<1>4. Moves(r, l, o, c, As(r), req[r].seen)
  BY <1>2, <1>3, BeginMoves, RequestFacts
<1>5. /\ req' \in [Request -> RequestType] /\ \A q \in Request \ {r} : req'[q] = req[q]
      /\ req'[r].pc = l /\ req'[r].op = o /\ req'[r].with = c /\ req'[r].as = Idle.as
  BY <1>1, <1>4 DEF Moves
<1>6. Fit(req'[r])
  BY <1>2, <1>5, IdleTyped DEF Fit, Nobody, Stranger
<1>7. /\ ghost' \in GhostType /\ ghost'.crossed = ghost.crossed /\ ghost'.password = ghost.password
      /\ ghost'.closed = [ghost.closed EXCEPT ![r] = closing]
  BY DEF Begin, IInv, Typed, GhostType
<1>8. db' = db
  BY DEF Begin
<1>9. \A s \in Session : Row(s)' = Row(s)
  BY <1>8 DEF Row
<1>10. \A t : Owners(t)' = Owners(t) /\ Roles(t)' = Roles(t)
  BY <1>8, SameOwners
<1>11. ghost.closed \in [Request -> SUBSET Tenant]
  BY DEF IInv, Typed, GhostType
<1>12. ASSUME NEW q \in Request PROVE Fine(q, req[q])'
  <2>1. CASE q = r
    <3>1. "none" \notin ghost'.closed[r]
      BY <1>7, <1>11, NoneAssumption
    <3>2. QED
      BY <1>2, <1>5, <1>6, <2>1, <3>1, IdleTyped DEF Fine
  <2>2. CASE q # r
    <3>1. Fine(q, req[q]) /\ ghost'.closed[q] = ghost.closed[q]
      BY <1>7, <1>11, <2>2 DEF IInv
    <3>2. QED
      BY <1>5, <1>7, <1>8, <1>9, <1>10, <2>2, <3>1 DEF Fine, SessionOf
  <2>3. QED
    BY <2>1, <2>2
<1>13. TiesOK'
  <2>1. req'[r].pc \notin Holding \union {"found", "join"}
    BY <1>2, <1>5 DEF Holding, Editing
  <2>2. \A e \in Email, t \in Tenant : Tied(e, t)' => Tied(e, t)
    BY <1>5, <1>8, <2>1, NoNewTie
  <2>3. \A e \in Email, q \in Request : Joining(req'[q], e) => Joining(req[q], e)
    BY <1>5, <2>1 DEF Joining
  <2>4. QED
    BY <1>8, <2>2, <2>3, TiesKept
<1>14. Typed'
  BY <1>5, <1>7, <1>8 DEF IInv, Typed
<1>15. ClosedOK'
  BY <1>7, <1>8, <1>11 DEF IInv, ClosedOK
<1>16. KeptOK'
  BY <1>7, <1>8, <1>10 DEF IInv, KeptOK
<1>17. QED
  BY <1>12, <1>13, <1>14, <1>15, <1>16 DEF IInv

\* A window that has passed, an entry of KV or a credential that has expired.
Environment ==
  \/ \E e \in Email, i \in Ip : WindowPasses(e, i)
  \/ \E k \in Key : CacheExpires(k)
  \/ \E c \in Credential : CredentialExpires(c)

LEMMA EnvironmentApart ==
  ASSUME IInv, Environment
  PROVE  UNCHANGED <<req, ghost>> /\ db' \in DbType /\ Rest("audit", db, db')
<1>1. db \in DbType
  BY DEF IInv, Typed
<1>2. ASSUME NEW e \in Email, NEW i \in Ip, WindowPasses(e, i)
      PROVE  UNCHANGED <<req, ghost>> /\ db' \in DbType /\ Rest("audit", db, db')
  <2> DEFINE v == [db.failures EXCEPT ![<<e, i>>] = 0]
  <2>1. v \in [Email \X Ip -> Nat]
    BY <1>1 DEF DbType
  <2>2. UNCHANGED <<req, ghost>> /\ db' = [db EXCEPT !.failures = v]
    BY <1>2 DEF WindowPasses, Write
  <2> HIDE DEF v
  <2>3. Puts("failures", db, v, db')
    BY <1>1, <2>1, <2>2, PutFailures
  <2>4. QED
    BY <2>2, <2>3 DEF Puts, Rest
<1>3. ASSUME NEW k \in Key, CacheExpires(k)
      PROVE  UNCHANGED <<req, ghost>> /\ db' \in DbType /\ Rest("audit", db, db')
  <2>1. [db.cache EXCEPT ![k] = NoRow] \in [Key -> KeyRow \union {NoRow}]
    BY <1>1 DEF DbType
  <2>2. QED
    BY <1>1, <1>3, <2>1, PutCache DEF CacheExpires, Write, Puts, Rest
<1>4. ASSUME NEW c \in Credential, CredentialExpires(c)
      PROVE  UNCHANGED <<req, ghost>> /\ db' \in DbType /\ Rest("audit", db, db')
  <2>1. db.expired \union {c} \in SUBSET Credential
    BY <1>1 DEF DbType
  <2>2. QED
    BY <1>1, <1>4, <2>1, PutExpired DEF CredentialExpires, Write, Puts, Rest
<1>5. QED
  BY <1>2, <1>3, <1>4 DEF Environment

LEMMA NextSorts ==
  ASSUME [Next]_vars
  PROVE  \/ \E r \in Request : Step(r)
         \/ \E r \in Request : Throws(r)
         \/ \E r \in Request, o \in Operation, c \in Credential \union {"none"} : Begin(r, o, c)
         \/ Environment
         \/ UNCHANGED vars
BY DEF Next, Environment

LEMMA StepIInv == ASSUME IInv, [Next]_vars PROVE IInv'
<1>1. ASSUME NEW r \in Request, Throws(r) PROVE IInv'
  BY <1>1, RefusedQuiet, QuietStep DEF Throws
<1>2. CASE Environment
  BY <1>2, EnvironmentApart, ApartStep
<1>3. CASE UNCHANGED vars
  BY <1>3, ApartStep DEF vars, Rest, IInv, Typed
<1>4. QED
  BY <1>1, <1>2, <1>3, NextSorts, StepStep, BeginStep

LEMMA InitIInv == ASSUME Init PROVE IInv
<1> DEFINE users == [e \in Email |-> IF e \in DOMAIN Members THEN 1 ELSE 0]
           members == [t \in Tenant |-> [e \in Email |->
             IF t = First /\ e \in DOMAIN Members THEN Members[e] ELSE "none"]]
           tenants == [t \in Tenant |-> IF t = First THEN "active" ELSE "none"]
           sessions == [s \in Session |-> IF s \in DOMAIN SignedIn
             THEN [tenant |-> First, user |-> SignedIn[s], revoked |-> FALSE] ELSE NoRow]
           keys == [k \in Key |-> IF k \in DOMAIN Issued
             THEN [tenant |-> First, scopes |-> Issued[k], revoked |-> FALSE] ELSE NoRow]
           cache == [k \in Key |-> NoRow]
           failures == [a \in Email \X Ip |-> 0]
           jobs == [t \in Tenant |-> "none"]
<1>1. First \in Tenant /\ DOMAIN Members \subseteq Email
  BY AccountsAssumption
<1>2. users \in [Email -> Nat] /\ \A e \in DOMAIN Members : users[e] = 1
  BY <1>1
<1>3. /\ members \in [Tenant -> [Email -> Role \union {"none"}]]
      /\ \A t \in Tenant, e \in Email : members[t][e] =
           IF t = First /\ e \in DOMAIN Members THEN Members[e] ELSE "none"
  BY FirstAssumption
<1>4. tenants \in [Tenant -> {"none", "active", "deleting"}]
  OBVIOUS
<1>5. /\ sessions \in [Session -> SessionRow \union {NoRow}]
      /\ \A s \in Session : sessions[s] # NoRow =>
           sessions[s].tenant = First /\ sessions[s].user \in DOMAIN Members
  BY <1>1, FirstAssumption DEF SessionRow
<1>6. keys \in [Key -> KeyRow \union {NoRow}]
  BY <1>1, FirstAssumption DEF KeyRow
<1>7. cache \in [Key -> KeyRow \union {NoRow}] /\ failures \in [Email \X Ip -> Nat]
      /\ jobs \in [Tenant -> {"none", "saved", "queued"}]
  OBVIOUS
<1>8. db = [users |-> users, members |-> members, tenants |-> tenants, policies |-> {First},
            sessions |-> sessions, keys |-> keys, cache |-> cache, expired |-> {},
            failures |-> failures, jobs |-> jobs, audit |-> {}]
  BY DEF Init
<1>9. /\ req = [r \in Request |-> Idle]
      /\ ghost = [closed |-> [r \in Request |-> {}], crossed |-> {}, revoked |-> {}, password |-> users]
  BY DEF Init
<1> HIDE DEF users, members, tenants, sessions, keys, cache, failures, jobs
<1>10. db \in DbType
  BY <1>1, <1>2, <1>3, <1>4, <1>5, <1>6, <1>7, <1>8 DEF DbType
<1>11. /\ db.users = users /\ db.members = members /\ db.policies = {First} /\ db.sessions = sessions
  BY <1>8
<1>12. /\ ghost \in GhostType /\ ghost.crossed = {} /\ ghost.password = users
       /\ \A r \in Request : ghost.closed[r] = {}
  BY <1>2, <1>9 DEF GhostType
<1>13. Typed
  BY <1>9, <1>10, <1>12, IdleTyped DEF Typed
<1>14. \A r \in Request : req[r] = Idle
  BY <1>9
<1>15. ASSUME NEW r \in Request PROVE Fine(r, req[r])
  <2>1. Fit(Idle)
    BY IdleTyped DEF Fit, Nobody, Stranger
  <2>2. QED
    BY <1>12, <1>14, <2>1, IdleTyped DEF Fine
<1>16. ASSUME NEW e \in Email, NEW t \in Tenant, Tied(e, t) PROVE t = First /\ db.users[e] # 0
  <2>1. CASE db.members[t][e] # "none"
    BY <1>2, <1>3, <1>11, <2>1
  <2>2. CASE \E s \in Session : SessionOf(s, e, t)
    BY <1>2, <1>5, <1>11, <2>2 DEF SessionOf, Row
  <2>3. CASE \E r \in Request : Holds(req[r], e, t)
    BY <1>14, <2>3, IdleTyped DEF Holds, Holding, Editing
  <2>4. QED
    BY <1>16, <2>1, <2>2, <2>3 DEF Tied
<1>17. TiesOK
  <2>1. \A e \in Email, r \in Request : ~Joining(req[r], e)
    BY <1>14, IdleTyped DEF Joining
  <2>2. QED
    BY <1>16, <2>1 DEF TiesOK
<1>18. ClosedOK
  BY <1>12 DEF ClosedOK
<1>19. Owners(First) # {}
  <2>1. PICK e \in DOMAIN Members : Members[e] = "owner"
    BY FirstAssumption
  <2>2. QED
    BY <1>1, <1>3, <1>11, <2>1 DEF Owners, Roles
<1>20. KeptOK
  BY <1>11, <1>12, <1>19 DEF KeptOK
<1>21. QED
  BY <1>13, <1>15, <1>17, <1>18, <1>20 DEF IInv

\* What the requests and the tables keep, whatever the mix of operations: the
\* types, what each request may be at each await, what ties a user to a tenant,
\* and the owners and passwords that no two requests have crossed.
THEOREM AccountsInvariant == Spec => []IInv
BY InitIInv, StepIInv, PTL DEF Spec

\* A user is a member of one tenant at most: an email is inserted once, by the
\* request whose insert did not throw, and only that request gives it its first
\* membership; login, roles and removals touch no other.
THEOREM UsersHaveOneTenant == Spec => []OneTenantPerUser
<1>1. ASSUME IInv PROVE OneTenantPerUser
  <2> SUFFICES ASSUME NEW e \in Email
               PROVE  Cardinality({t \in Tenant : Roles(t)[e] # "none"}) <= 1
    BY DEF OneTenantPerUser
  <2> DEFINE homes == {t \in Tenant : Roles(t)[e] # "none"}
  <2>1. \A t, u \in homes : t = u
    BY <1>1 DEF IInv, TiesOK, Tied, Roles
  <2>2. CASE homes = {}
    BY <2>2, FS_EmptySet
  <2>3. CASE homes # {}
    <3>1. PICK t \in homes : TRUE
      BY <2>3
    <3>2. homes = {t}
      BY <2>1, <3>1
    <3> HIDE DEF homes
    <3>3. Cardinality({t}) = 1
      BY FS_Singleton
    <3>4. Cardinality(homes) = 1
      BY <3>2, <3>3
    <3>5. QED
      BY <3>4 DEF homes
  <2>4. QED
    BY <2>2, <2>3
<1>2. QED
  BY <1>1, AccountsInvariant, PTL

\* A request that begins when its tenant is being deleted comes to no handler
\* and to no new session, whatever row or cached key let it in: the tenant is
\* read last, and no status is saved over "deleting".
THEOREM NoEntryOnceDeleting == Spec => []NoEntryAfterDeletion
<1>1. IInv => NoEntryAfterDeletion
  BY DEF IInv, Fine, NoEntryAfterDeletion, Entered, As
<1>2. QED
  BY <1>1, AccountsInvariant, PTL

\* Unless two requests of one tenant have crossed, every tenant that was founded
\* has an owner and every user the password last given it.
THEOREM LossesNeedCrossing == Spec => []LostOnlyByCrossing
<1>1. IInv => LostOnlyByCrossing
  BY DEF IInv, KeptOK, LostOnlyByCrossing
<1>2. QED
  BY <1>1, AccountsInvariant, PTL

LEMMA StepSessions == ASSUME IInv, [Next]_vars PROVE SessionsKept
<1>1. db.sessions \in [Session -> SessionRow \union {NoRow}] /\ db \in DbType
  BY DEF IInv, Typed, DbType
<1>2. ASSUME db'.sessions = db.sessions PROVE SessionsKept
  BY <1>2 DEF SessionsKept, Row
<1>3. ASSUME NEW r \in Request, Step(r) PROVE SessionsKept
  <2>1. SavePassword(r) \/ SaveProfile(r) => db'.sessions = db.sessions
    BY <1>1 DEF SavePassword, SaveProfile, DbType
  <2>2. SaveUser(r) => db'.sessions = db.sessions
    BY <1>1 DEF SaveUser, Read, DbType
  <2>3. Join(r) => db'.sessions = db.sessions
    BY <1>1 DEF Join, Write, DbType
  <2>4. SaveRole(r) \/ DeleteMember(r) => db'.sessions = db.sessions
    BY <1>1 DEF SaveRole, DeleteMember, DbType
  <2>5. Quiet(r) => SessionsKept
    BY DEF Quiet
  <2>6. QED
    BY <1>2, <1>3, <2>1, <2>2, <2>3, <2>4, <2>5, StepSorts
<1>4. ASSUME NEW r \in Request, Throws(r) PROVE SessionsKept
  BY <1>2, <1>4 DEF Throws, Read
<1>5. ASSUME NEW r \in Request, NEW o \in Operation, NEW c \in Credential \union {"none"}, Begin(r, o, c)
      PROVE  SessionsKept
  BY <1>2, <1>5 DEF Begin
<1>6. CASE Environment
  BY <1>2, <1>6, EnvironmentApart DEF Rest
<1>7. CASE UNCHANGED vars
  BY <1>2, <1>7 DEF vars
<1>8. QED
  BY <1>3, <1>4, <1>5, <1>6, <1>7, NextSorts

\* A revoked session is never live again: sessions are saved as new rows, or
\* revoked, and no save writes back a revoked_at that was read before.
THEOREM RevokedSessionsStay == Spec => RevokedSessionStays
<1>1. ASSUME IInv, [Next]_vars
      PROVE  [\A s \in Session : db.sessions[s] # NoRow /\ db.sessions[s].revoked
                => db'.sessions[s].revoked]_db
  BY <1>1, StepSessions DEF SessionsKept, Row
<1>2. QED
  BY <1>1, AccountsInvariant, PTL DEF Spec, RevokedSessionStays

-----------------------------------------------------------------------------
(* The limit on failed logins.  An attempt that has passed the limit and is *)
(* not recorded is a request at "verify"; all of an address and an email    *)
(* may have read the counts when one was left.                              *)

Verifying(e, i) ==
  {r \in Request : At(r, "verify") /\ Op(r).on = e /\ Op(r).to.ip = i}

\* What is recorded, and what may be by the attempts that are being verified.
FewAt(e, i) ==
  db.failures[<<e, i>>] + Cardinality(Verifying(e, i)) <= MaxFailures + Cardinality(Request) - 1
FailuresOK == \A e \in Email, i \in Ip : FewAt(e, i)

\* The request comes to a label other than the one given; the others stay.
Avoids(r, l) == req'[r].pc # l /\ \A q \in Request \ {r} : req'[q] = req[q]

LEMMA MovesAvoid ==
  ASSUME IInv, NEW r \in Request
  PROVE  /\ \A l : Goto(r, l) /\ l # "verify" => Avoids(r, "verify")
         /\ \A l, row : GotoWith(r, l, row) /\ l # "verify" => Avoids(r, "verify")
         /\ Finish(r) => Avoids(r, "verify")
         /\ \A l, condition : Require(r, condition, l) /\ l # "verify" => Avoids(r, "verify")
<1>1. \A q \in Request : req[q] = [op |-> req[q].op, with |-> req[q].with, pc |-> req[q].pc,
                                    as |-> req[q].as, seen |-> req[q].seen]
  BY DEF IInv, Typed, RequestType
<1>2. ASSUME NEW l, Goto(r, l), l # "verify" PROVE Avoids(r, "verify")
  BY <1>2, GotoMoves DEF IInv, Typed, RequestType, Goto, Avoids
<1>3. ASSUME NEW l, NEW row, GotoWith(r, l, row), l # "verify" PROVE Avoids(r, "verify")
  BY <1>3 DEF IInv, Typed, RequestType, GotoWith, Avoids
<1>4. ASSUME Finish(r) PROVE Avoids(r, "verify")
  BY <1>4, FinishMoves, IdleTyped DEF IInv, Typed, Avoids
<1>5. QED
  BY <1>2, <1>3, <1>4 DEF Require

LEMMA AuthenticateAvoids ==
  ASSUME IInv, NEW r \in Request, Authenticate(r)
  PROVE  Avoids(r, "verify")
<1>1. req \in [Request -> RequestType]
  BY DEF IInv, Typed
<1>2. ASSUME NEW row, Accept(r, row) PROVE Avoids(r, "verify")
  BY <1>1, <1>2, MovesAvoid DEF Accept, RequestType, Avoids
<1>3. ReadSession(r) => Avoids(r, "verify")
  BY <1>1, MovesAvoid DEF ReadSession, RequestType, Avoids
<1>4. ReadMember(r) => Avoids(r, "verify")
  BY <1>1, MovesAvoid DEF ReadMember, RequestType, Avoids
<1>5. ReadTenant(r) \/ TouchKey(r) => Avoids(r, "verify")
  BY MovesAvoid DEF ReadTenant, TouchKey
<1>6. ReadCache(r) \/ ReadKey(r) \/ FillCache(r) => Avoids(r, "verify")
  BY <1>2, MovesAvoid DEF ReadCache, ReadKey, FillCache
<1>7. QED
  BY <1>3, <1>4, <1>5, <1>6 DEF Authenticate

LEMMA OthersAvoid ==
  ASSUME IInv, NEW r \in Request, Step(r), ~CountFailures(r)
  PROVE  Avoids(r, "verify")
<1>1. req \in [Request -> RequestType]
  BY DEF IInv, Typed
<1>2. VerifyLogin(r) \/ OpenHome(r) \/ SignIn(r) => Avoids(r, "verify")
  BY MovesAvoid DEF VerifyLogin, OpenHome, SignIn
<1>3. ReadHome(r) \/ FoundTenant(r) => Avoids(r, "verify")
  BY <1>1, MovesAvoid DEF ReadHome, FoundTenant, RequestType, Avoids
<1>4. Self(r) => Avoids(r, "verify")
  BY MovesAvoid DEF Self, Logout, RevokeSession, EndSession, Use, ChangePassword, SavePassword,
                    ReadProfile, SaveProfile
<1>5. Keys(r) => Avoids(r, "verify")
  BY MovesAvoid DEF Keys, CreateKey, InsertKey, FindKey, RevokeKey, UncacheKey
<1>6. FindEmail(r) \/ SaveUser(r) \/ Join(r) \/ SavePolicy(r) => Avoids(r, "verify")
  BY MovesAvoid DEF FindEmail, SaveUser, Join, SavePolicy
<1>7. ChangeRole(r) \/ CountOwners(r) \/ SaveRole(r) \/ RemoveMember(r) \/ DeleteMember(r)
        => Avoids(r, "verify")
  BY MovesAvoid DEF ChangeRole, CountOwners, SaveRole, RemoveMember, DeleteMember
<1>8. Closing(r) => Avoids(r, "verify")
  BY MovesAvoid DEF Closing, CloseTenant, SaveClosed, EndSessions, EndKeys, RequestErasure,
                    SendErasure, Audit
<1>9. QED
  BY <1>2, <1>3, <1>4, <1>5, <1>6, <1>7, <1>8, AuthenticateAvoids DEF Step, Login, Users

LEMMA OthersKeepFailures ==
  ASSUME IInv, NEW r \in Request, Step(r), ~VerifyLogin(r)
  PROVE  db'.failures = db.failures
<1>1. db \in DbType
  BY DEF IInv, Typed
<1>2. ReadSession(r) \/ ReadMember(r) \/ ReadTenant(r) \/ ReadCache(r) \/ ReadKey(r) => db'.failures = db.failures
  BY <1>1 DEF ReadSession, ReadMember, ReadTenant, ReadCache, ReadKey, Read
<1>3. FillCache(r) \/ TouchKey(r) => db'.failures = db.failures
  BY <1>1 DEF FillCache, TouchKey, Write, DbType
<1>4. CountFailures(r) \/ ReadHome(r) \/ OpenHome(r) => db'.failures = db.failures
  BY <1>1 DEF CountFailures, ReadHome, OpenHome, Read
<1>5. SignIn(r) => db'.failures = db.failures
  BY <1>1 DEF SignIn, Write, DbType
<1>6. Logout(r) \/ RevokeSession(r) \/ Use(r) \/ ChangePassword(r) \/ ReadProfile(r) => db'.failures = db.failures
  BY <1>1 DEF Logout, RevokeSession, Use, ChangePassword, ReadProfile, Read
<1>7. EndSession(r) \/ SavePassword(r) \/ SaveProfile(r) => db'.failures = db.failures
  BY <1>1 DEF EndSession, SavePassword, SaveProfile, Write, DbType
<1>8. CreateKey(r) \/ FindKey(r) => db'.failures = db.failures
  BY <1>1 DEF CreateKey, FindKey, Read
<1>9. InsertKey(r) => db'.failures = db.failures
  BY <1>1 DEF InsertKey, Read, Write, DbType
<1>10. RevokeKey(r) \/ UncacheKey(r) => db'.failures = db.failures
  BY <1>1 DEF RevokeKey, UncacheKey, Write, DbType
<1>11. FindEmail(r) \/ ChangeRole(r) \/ CountOwners(r) \/ RemoveMember(r) => db'.failures = db.failures
  BY <1>1 DEF FindEmail, ChangeRole, CountOwners, RemoveMember, Read
<1>12. SaveUser(r) => db'.failures = db.failures
  BY <1>1 DEF SaveUser, Read, DbType
<1>13. FoundTenant(r) \/ Join(r) \/ SavePolicy(r) => db'.failures = db.failures
  BY <1>1 DEF FoundTenant, Join, SavePolicy, Write, DbType
<1>14. SaveRole(r) \/ DeleteMember(r) => db'.failures = db.failures
  BY <1>1 DEF SaveRole, DeleteMember, DbType
<1>15. CloseTenant(r) => db'.failures = db.failures
  BY <1>1 DEF CloseTenant, Read
<1>16. SaveClosed(r) \/ EndSessions(r) \/ EndKeys(r) => db'.failures = db.failures
  BY <1>1 DEF SaveClosed, EndSessions, EndKeys, Write, DbType
<1>17. RequestErasure(r) \/ SendErasure(r) \/ Audit(r) => db'.failures = db.failures
  BY <1>1 DEF RequestErasure, SendErasure, Audit, Read, Write, DbType
<1>18. QED
  BY <1>2, <1>3, <1>4, <1>5, <1>6, <1>7, <1>8, <1>9, <1>10, <1>11, <1>12, <1>13, <1>14, <1>15, <1>16, <1>17 DEF Step, Authenticate, Login, Self, Keys, Users, Closing

LEMMA VerifyingFacts ==
  ASSUME IsFiniteSet(Request), NEW e, NEW i
  PROVE  /\ Verifying(e, i) \subseteq Request /\ IsFiniteSet(Verifying(e, i))
         /\ Cardinality(Verifying(e, i)) \in Nat /\ Cardinality(Request) \in Nat
         /\ Cardinality(Verifying(e, i)) <= Cardinality(Request)
<1>1. Verifying(e, i) \subseteq Request
  BY DEF Verifying
<1>2. QED
  BY <1>1, FS_Subset, FS_CardinalityType

\* No attempt is recorded, and none comes to be verified.
LEMMA FewerFailures ==
  ASSUME IInv, FailuresOK, IsFiniteSet(Request), db' \in DbType,
         NEW e \in Email, NEW i \in Ip,
         db'.failures[<<e, i>>] <= db.failures[<<e, i>>],
         Verifying(e, i)' \subseteq Verifying(e, i)
  PROVE  FewAt(e, i)'
<1>1. db.failures[<<e, i>>] \in Nat /\ db'.failures[<<e, i>>] \in Nat /\ MaxFailures \in Nat
  BY AccountsAssumption DEF IInv, Typed, DbType
<1>2. /\ Cardinality(Verifying(e, i)) \in Nat /\ Cardinality(Request) \in Nat
      /\ IsFiniteSet(Verifying(e, i))
  BY VerifyingFacts
<1>3. Cardinality(Verifying(e, i)') \in Nat /\ Cardinality(Verifying(e, i)') <= Cardinality(Verifying(e, i))
  BY <1>2, FS_Subset, FS_CardinalityType
<1>4. QED
  BY <1>1, <1>2, <1>3 DEF FailuresOK, FewAt

LEMMA AvoidsFewer ==
  ASSUME NEW r \in Request, Avoids(r, "verify"), NEW e, NEW i
  PROVE  Verifying(e, i)' \subseteq Verifying(e, i) \ {r}
BY DEF Avoids, Verifying, At, Op

\* The rows of one place.
LEMMA RowsOfOne ==
  ASSUME NEW a, NEW n \in Nat
  PROVE  IsFiniteSet({a} \X (1 .. n)) /\ Cardinality({a} \X (1 .. n)) = n
<1> DEFINE I == 1 .. n
           O == {a}
<1>1. IsFiniteSet(I) /\ Cardinality(I) = n
  BY FS_Interval
<1>2. IsFiniteSet(O) /\ Cardinality(O) = 1
  BY FS_Singleton
<1> HIDE DEF I, O
<1>3. IsFiniteSet(O \X I) /\ Cardinality(O \X I) = 1 * n
  BY <1>1, <1>2, FS_Product
<1>4. QED
  BY <1>3 DEF I, O

\* A finite number of places has a finite number of failures.
LEMMA FailedIsFinite ==
  ASSUME NEW P, IsFiniteSet(P), \A a \in P : db.failures[a] \in Nat
  PROVE  IsFiniteSet(Failed(P))
<1> DEFINE Rows(a) == {a} \X (1 .. db.failures[a])
           T == {Rows(a) : a \in P}
           f == [a \in P |-> Rows(a)]
<1>1. f \in Surjection(P, T)
  BY DEF Surjection, Range
<1>2. ASSUME NEW t \in T PROVE IsFiniteSet(t)
  <2>1. PICK a \in P : t = Rows(a)
    OBVIOUS
  <2>2. QED
    BY <2>1, RowsOfOne
<1>3. Failed(P) = UNION T
  BY DEF Failed
<1> HIDE DEF T, f
<1>4. QED
  BY <1>1, <1>2, <1>3, FS_Surjection, FS_UNION

\* The failures of one email from one address are among the recent ones.
LEMMA RecentCounts ==
  ASSUME db \in DbType, IsFiniteSet(Email), IsFiniteSet(Ip), NEW e \in Email, NEW i \in Ip
  PROVE  Recent(e, i) \in Nat /\ db.failures[<<e, i>>] <= Recent(e, i)
<1> DEFINE A == {a \in Email \X Ip : a[1] = e \/ a[2] = i}
           n == db.failures[<<e, i>>]
<1>1. IsFiniteSet(A)
  BY FS_Product, FS_Subset
<1>2. <<e, i>> \in A /\ n \in Nat /\ \A a \in A : db.failures[a] \in Nat
  BY DEF DbType
<1>3. {<<e, i>>} \X (1 .. n) \subseteq Failed(A)
  BY <1>2 DEF Failed
<1>4. Recent(e, i) = Cardinality(Failed(A))
  BY DEF Recent
<1> HIDE DEF A, n
<1>5. IsFiniteSet(Failed(A))
  BY <1>1, <1>2, FailedIsFinite
<1>6. Cardinality({<<e, i>>} \X (1 .. n)) = n
  BY <1>2, RowsOfOne
<1>7. n <= Cardinality(Failed(A)) /\ Cardinality(Failed(A)) \in Nat
  BY <1>3, <1>5, <1>6, FS_Subset, FS_CardinalityType
<1>8. QED
  BY <1>4, <1>7 DEF n

\* The address and the email of a login that is at "count" or "verify".
LEMMA LoginFacts ==
  ASSUME IInv, NEW r \in Request, At(r, "count") \/ At(r, "verify")
  PROVE  Op(r).on \in Email /\ Op(r).to.ip \in Ip
<1>1. Op(r) \in Operation /\ Op(r).kind = "login"
  BY RequestFacts DEF At, Fit, Op
<1>2. QED
  BY <1>1, OperationAssumption

LEMMA CountFailuresBounds ==
  ASSUME IInv, FailuresOK, IsFiniteSet(Request), IsFiniteSet(Email), IsFiniteSet(Ip),
         NEW r \in Request, CountFailures(r), NEW e \in Email, NEW i \in Ip
  PROVE  FewAt(e, i)'
<1>1. db' = db /\ db \in DbType /\ req \in [Request -> RequestType]
  BY DEF CountFailures, Read, IInv, Typed
<1>2. db.failures[<<e, i>>] \in Nat /\ MaxFailures \in Nat
  BY <1>1, AccountsAssumption DEF DbType
<1>3. ASSUME Verifying(e, i)' \subseteq Verifying(e, i) PROVE FewAt(e, i)'
  BY <1>1, <1>2, <1>3, FewerFailures
<1>4. CASE Finish(r)
  BY <1>3, <1>4, MovesAvoid, AvoidsFewer
<1>5. CASE Recent(Op(r).on, Op(r).to.ip) < MaxFailures /\ Goto(r, "verify")
  <2>1. /\ \A q \in Request \ {r} : req'[q] = req[q]
        /\ req'[r].op = Op(r)
    BY <1>1, <1>5, GotoMoves DEF Moves, Label
  <2>2. CASE e = Op(r).on /\ i = Op(r).to.ip
    <3>1. db.failures[<<e, i>>] < MaxFailures
      BY <1>1, <1>2, <1>5, <2>2, RecentCounts
    <3>2. Cardinality(Verifying(e, i)') \in Nat /\ Cardinality(Request) \in Nat
          /\ Cardinality(Verifying(e, i)') <= Cardinality(Request)
      <4>1. Verifying(e, i)' \subseteq Request
        BY DEF Verifying
      <4>2. QED
        BY <4>1, FS_Subset, FS_CardinalityType
    <3>3. QED
      BY <1>1, <1>2, <3>1, <3>2 DEF FewAt
  <2>3. CASE ~(e = Op(r).on /\ i = Op(r).to.ip)
    <3>1. Verifying(e, i)' \subseteq Verifying(e, i)
      BY <2>1, <2>3 DEF Verifying, At, Op
    <3>2. QED
      BY <1>3, <3>1
  <2>4. QED
    BY <2>2, <2>3
<1>6. QED
  BY <1>4, <1>5 DEF CountFailures, Require

LEMMA VerifyLoginBounds ==
  ASSUME IInv, FailuresOK, IsFiniteSet(Request), NEW r \in Request, VerifyLogin(r),
         NEW e \in Email, NEW i \in Ip
  PROVE  FewAt(e, i)'
<1> DEFINE where == <<Op(r).on, Op(r).to.ip>>
<1>1. db \in DbType /\ db' \in DbType
  BY VerifyLoginQuiet DEF Quiet, IInv, Typed
<1>2. At(r, "verify") /\ where \in Email \X Ip
  BY LoginFacts DEF VerifyLogin
<1>3. db'.failures = db.failures \/ db'.failures = [db.failures EXCEPT ![where] = @ + 1]
  BY <1>1 DEF VerifyLogin, Write, DbType
<1>4. Verifying(e, i)' \subseteq Verifying(e, i) \ {r}
  BY MovesAvoid, AvoidsFewer DEF VerifyLogin
<1>5. db.failures \in [Email \X Ip -> Nat] /\ MaxFailures \in Nat /\ db'.failures \in [Email \X Ip -> Nat]
  BY <1>1, AccountsAssumption DEF DbType
<1>6. CASE db'.failures[<<e, i>>] <= db.failures[<<e, i>>]
  BY <1>1, <1>4, <1>6, FewerFailures
<1>7. CASE ~(db'.failures[<<e, i>>] <= db.failures[<<e, i>>])
  <2>1. where = <<e, i>> /\ db'.failures[<<e, i>>] = db.failures[<<e, i>>] + 1
    BY <1>2, <1>3, <1>5, <1>7
  <2>2. r \in Verifying(e, i)
    BY <1>2, <2>1 DEF Verifying
  <2>3. /\ IsFiniteSet(Verifying(e, i)) /\ Cardinality(Verifying(e, i)) \in Nat
        /\ Cardinality(Request) \in Nat
    BY VerifyingFacts
  <2>4. /\ IsFiniteSet(Verifying(e, i) \ {r})
        /\ Cardinality(Verifying(e, i) \ {r}) = Cardinality(Verifying(e, i)) - 1
    BY <2>2, <2>3, FS_RemoveElement
  <2>5. Cardinality(Verifying(e, i)') \in Nat
        /\ Cardinality(Verifying(e, i)') <= Cardinality(Verifying(e, i) \ {r})
    BY <1>4, <2>4, FS_Subset, FS_CardinalityType
  <2>6. db.failures[<<e, i>>] \in Nat
    BY <1>5
  <2>7. db.failures[<<e, i>>] + Cardinality(Verifying(e, i)) <= MaxFailures + Cardinality(Request) - 1
    BY DEF FailuresOK, FewAt
  <2>8. QED
    BY <1>5, <2>1, <2>3, <2>4, <2>5, <2>6, <2>7 DEF FewAt
<1>8. QED
  BY <1>6, <1>7

LEMMA StepFailures ==
  ASSUME IInv, IInv', FailuresOK, IsFiniteSet(Request), IsFiniteSet(Email), IsFiniteSet(Ip), [Next]_vars
  PROVE  FailuresOK'
<1> SUFFICES ASSUME NEW e \in Email, NEW i \in Ip PROVE FewAt(e, i)'
  BY DEF FailuresOK
<1>1. db \in DbType /\ db' \in DbType
  BY DEF IInv, Typed
<1>2. ASSUME db'.failures[<<e, i>>] <= db.failures[<<e, i>>],
             Verifying(e, i)' \subseteq Verifying(e, i)
      PROVE  FewAt(e, i)'
  BY <1>1, <1>2, FewerFailures
<1>3. db.failures[<<e, i>>] \in Nat
  BY <1>1 DEF DbType
<1>4. ASSUME NEW r \in Request, Step(r) PROVE FewAt(e, i)'
  <2>1. CASE CountFailures(r)
    BY <2>1, CountFailuresBounds
  <2>2. CASE VerifyLogin(r)
    BY <2>2, VerifyLoginBounds
  <2>3. CASE ~CountFailures(r) /\ ~VerifyLogin(r)
    BY <1>2, <1>3, <1>4, <2>3, OthersAvoid, OthersKeepFailures, AvoidsFewer
  <2>4. QED
    BY <2>1, <2>2, <2>3
<1>5. ASSUME NEW r \in Request, Throws(r) PROVE FewAt(e, i)'
  <2>1. db' = db /\ Avoids(r, "verify")
    BY <1>5, MovesAvoid DEF Throws, Read
  <2>2. QED
    BY <1>2, <1>3, <2>1, AvoidsFewer
<1>6. ASSUME NEW r \in Request, NEW o \in Operation, NEW c \in Credential \union {"none"}, Begin(r, o, c)
      PROVE  FewAt(e, i)'
  <2> DEFINE l == IF o.kind = "login" THEN "count" ELSE IF o.kind = "bootstrap" THEN "email"
                  ELSE IF c \in Key THEN "cached" ELSE "session"
  <2>1. l \in Label /\ l # "verify"
    BY DEF Label
  <2>2. req' = [req EXCEPT ![r].op = o, ![r].with = c, ![r].pc = l]
    BY <1>6 DEF Begin
  <2> HIDE DEF l
  <2>3. Avoids(r, "verify")
    BY <2>1, <2>2, BeginMoves DEF Moves, Avoids, IInv, Typed
  <2>4. db' = db
    BY <1>6 DEF Begin
  <2>5. QED
    BY <1>2, <1>3, <2>3, <2>4, AvoidsFewer
<1>7. ASSUME req' = req PROVE Verifying(e, i)' = Verifying(e, i)
  BY <1>7 DEF Verifying, At, Op
<1>8. CASE Environment
  <2>1. req' = req
    BY <1>8, EnvironmentApart
  <2>2. db'.failures[<<e, i>>] <= db.failures[<<e, i>>]
    <3>1. ASSUME NEW d \in Email, NEW j \in Ip, WindowPasses(d, j)
          PROVE  db'.failures[<<e, i>>] <= db.failures[<<e, i>>]
      <4>1. db'.failures = [db.failures EXCEPT ![<<d, j>>] = 0]
        BY <1>1, <3>1 DEF WindowPasses, Write, DbType
      <4>2. QED
        BY <1>1, <1>3, <4>1 DEF DbType
    <3>2. ASSUME NEW k \in Key, CacheExpires(k) PROVE db'.failures = db.failures
      BY <1>1, <3>2 DEF CacheExpires, Write, DbType
    <3>3. ASSUME NEW c \in Credential, CredentialExpires(c) PROVE db'.failures = db.failures
      BY <1>1, <3>3 DEF CredentialExpires, Write, DbType
    <3>4. QED
      BY <1>3, <1>8, <3>1, <3>2, <3>3 DEF Environment
  <2>3. QED
    BY <1>2, <1>7, <2>1, <2>2
<1>9. CASE UNCHANGED vars
  BY <1>2, <1>3, <1>7, <1>9 DEF vars
<1>10. QED
  BY <1>4, <1>5, <1>6, <1>8, <1>9, NextSorts

LEMMA InitFailures == ASSUME Init, IsFiniteSet(Request), Request # {} PROVE FailuresOK
<1> SUFFICES ASSUME NEW e \in Email, NEW i \in Ip PROVE FewAt(e, i)
  BY DEF FailuresOK
<1>1. db.failures[<<e, i>>] = 0 /\ MaxFailures \in Nat
  BY AccountsAssumption DEF Init
<1>2. Verifying(e, i) = {}
  BY IdleTyped DEF Init, Verifying, At
<1>3. Cardinality(Verifying(e, i)) = 0
  BY <1>2, FS_EmptySet
<1>4. Cardinality(Request) \in Nat /\ Cardinality(Request) # 0
  BY FS_CardinalityType, FS_EmptySet
<1>5. QED
  BY <1>1, <1>3, <1>4 DEF FewAt

\* The recorded failures of an email from an address pass the limit by at most
\* the other logins in flight, for any limit and any number of requests: an
\* attempt is let in while fewer than the limit are recorded for the email or
\* for the address, which its own failures are among, and each that was let in
\* records one.
THEOREM FailuresStayBounded ==
  ASSUME IsFiniteSet(Request), Request # {}, IsFiniteSet(Email), IsFiniteSet(Ip)
  PROVE  Spec => []FailuresBounded
<1>1. Init => FailuresOK
  BY InitFailures
<1>2. IInv /\ IInv' /\ FailuresOK /\ [Next]_vars => FailuresOK'
  BY StepFailures
<1>3. ASSUME IInv, FailuresOK PROVE FailuresBounded
  <2> SUFFICES ASSUME NEW e \in Email, NEW i \in Ip
               PROVE  db.failures[<<e, i>>] <= MaxFailures + Cardinality(Request) - 1
    BY DEF FailuresBounded
  <2>1. db.failures[<<e, i>>] \in Nat /\ MaxFailures \in Nat
    BY <1>3, AccountsAssumption DEF IInv, Typed, DbType
  <2>2. Cardinality(Verifying(e, i)) \in Nat /\ Cardinality(Request) \in Nat
    BY VerifyingFacts
  <2>3. QED
    BY <1>3, <2>1, <2>2 DEF FailuresOK, FewAt
<1>4. QED
  BY <1>1, <1>2, <1>3, AccountsInvariant, PTL DEF Spec
=============================================================================
