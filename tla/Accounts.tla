------------------------------ MODULE Accounts ------------------------------
(***************************************************************************)
(* Users, tenants, members, sessions and API keys: the requests that       *)
(* authenticate (application/identity/auth.ts, presentation/http/app.ts)   *)
(* and change them (auth.ts, application/tenant/members.ts), over the rows *)
(* of D1 (infrastructure/d1/repositories.ts) and the cached API keys of KV.*)
(*                                                                         *)
(* A request is a sequence of awaits and each is one step; any may throw,  *)
(* which ends the request and keeps what it has already written.  A user is*)
(* named by its email, a password by a number; the steps that neither write*)
(* nor decide (hashing, validation of the input) are left out.             *)
(***************************************************************************)
EXTENDS Permissions, Naturals, FiniteSets

CONSTANTS
  Email, Ip, Tenant,
  Session, Key,   \* ids of session and API key rows, each given once
  Members,        \* roles of the members the first tenant starts with
  SignedIn,       \* the users of the sessions that exist at the start
  Issued,         \* the scopes of the API keys that exist at the start
  First,          \* the tenant that exists at the start
  Request,        \* requests in flight together
  Mixes,          \* the sets of operations clients send in one behaviour
  MaxFailures,    \* MAX_FAILURES of a login
  MaxRequests,    \* bound: requests of a behaviour
  MaxFaults       \* bound: requests that throw

\* Operations of the API: [kind, on, to], what they are about and its new value.
Operation == UNION Mixes

ASSUME AccountsAssumption ==
  /\ First \in Tenant
  /\ DOMAIN Members \subseteq Email /\ DOMAIN SignedIn \subseteq Session /\ DOMAIN Issued \subseteq Key
  /\ {MaxFailures, MaxRequests, MaxFaults} \subseteq Nat

\* "none" names nothing.  The first tenant has an owner, as a bootstrap leaves
\* one, its members are signed in, and its keys have known scopes.
ASSUME NoneAssumption == "none" \notin Email \union Tenant \union Session \union Key
ASSUME FirstAssumption ==
  /\ \A e \in DOMAIN Members : Members[e] \in Role
  /\ \E e \in DOMAIN Members : Members[e] = "owner"
  /\ \A s \in DOMAIN SignedIn : SignedIn[s] \in DOMAIN Members
  /\ \A k \in DOMAIN Issued : Issued[k] \subseteq Scope

\* The input of the routes, validated; the number 0 is nobody's password.
ASSUME OperationAssumption ==
  \A o \in Operation :
    /\ o.kind # "none"
    /\ o.kind \in {"login", "bootstrap", "invite", "changeRole", "removeMember"} => o.on \in Email
    /\ o.kind \in {"invite", "changeRole"} => o.to \in Role
    /\ o.kind = "login" => o.to.ip \in Ip /\ o.to.password \in Nat \ {0}
    /\ o.kind = "changePassword" => o.to \in Nat \ {0}
    /\ o.kind = "createKey" => o.to \subseteq Scope
    /\ o.kind = "revokeSession" => o.on \in Session
    /\ o.kind \in {"revokeKey", "rotateKey"} => o.on \in Key

VARIABLES
  db,       \* the tables of D1 and the KV cache
  req,      \* the requests: [op, with, pc, as, seen]
  mix,      \* the operations of this behaviour
  begun, faults,
  ghost     \* history the properties read

vars == <<db, req, mix, begun, faults, ghost>>

NoOp == [kind |-> "none", on |-> "none", to |-> "none"]
NoOne == [kind |-> "none", user |-> "none", tenant |-> "none", role |-> "none", scopes |-> {}]
NoRow == [tenant |-> "none"]
Idle == [op |-> NoOp, with |-> "none", pc |-> "idle", as |-> NoOne, seen |-> NoRow]

Init ==
  /\ db = [users |-> [e \in Email |-> IF e \in DOMAIN Members THEN 1 ELSE 0],
           members |-> [t \in Tenant |-> [e \in Email |->
             IF t = First /\ e \in DOMAIN Members THEN Members[e] ELSE "none"]],
           tenants |-> [t \in Tenant |-> IF t = First THEN "active" ELSE "none"],
           policies |-> {First},
           sessions |-> [s \in Session |-> IF s \in DOMAIN SignedIn
             THEN [tenant |-> First, user |-> SignedIn[s], revoked |-> FALSE] ELSE NoRow],
           keys |-> [k \in Key |-> IF k \in DOMAIN Issued
             THEN [tenant |-> First, scopes |-> Issued[k], revoked |-> FALSE] ELSE NoRow],
           cache |-> [k \in Key |-> NoRow],
           expired |-> {},
           failures |-> [a \in Email \X Ip |-> 0],
           jobs |-> [t \in Tenant |-> "none"],
           audit |-> {}]
  /\ req = [r \in Request |-> Idle]
  /\ mix \in Mixes
  /\ begun = 0 /\ faults = 0
  /\ ghost = [closed |-> [r \in Request |-> {}], crossed |-> {}, revoked |-> {},
              password |-> [e \in Email |-> IF e \in DOMAIN Members THEN 1 ELSE 0]]

-----------------------------------------------------------------------------
At(r, label) == req[r].pc = label
Op(r) == req[r].op
As(r) == req[r].as
Goto(r, label) == req' = [req EXCEPT ![r].pc = label]
GotoWith(r, label, row) == req' = [req EXCEPT ![r].pc = label, ![r].seen = row]
Finish(r) == req' = [req EXCEPT ![r] = Idle]
\* The request goes on when the condition holds and is refused otherwise.
Require(r, condition, label) == IF condition THEN Goto(r, label) ELSE Finish(r)
Read == UNCHANGED <<db, ghost>>
Write(row) == db' = row /\ UNCHANGED ghost

May(r, permission) == HasPermission(As(r), permission)
IsSession(r) == As(r).kind = "session"
Roles(t) == db.members[t]
Owners(t) == {e \in Email : Roles(t)[e] = "owner"}

Credential == Session \union Key
Open == {"login", "bootstrap"}

\* authenticate: a key from a header, else the cookie; a login needs neither.
Begin(r, o, c) ==
  /\ At(r, "idle") /\ begun < MaxRequests
  /\ o \in mix /\ o.kind # "expire"
  /\ o.kind \in Open <=> c \notin Credential
  /\ req' = [req EXCEPT ![r].op = o, ![r].with = c, ![r].pc =
       IF o.kind = "login" THEN "count" ELSE IF o.kind = "bootstrap" THEN "email"
       ELSE IF c \in Key THEN "cached" ELSE "session"]
  /\ ghost' = [ghost EXCEPT !.closed[r] = {t \in Tenant : db.tenants[t] = "deleting"}]
  /\ begun' = begun + 1
  /\ UNCHANGED <<db, mix, faults>>

\* isSessionActive, isApiKeyActive
Active(row, id) == row # NoRow /\ ~row.revoked /\ id \notin db.expired

\* resolveSession: the session, then the membership, then the tenant.
ReadSession(r) ==
  /\ At(r, "session")
  /\ LET s == db.sessions[req[r].with] IN
     IF Active(s, req[r].with)
     THEN req' = [req EXCEPT ![r].pc = "member", ![r].as =
            [NoOne EXCEPT !.kind = "session", !.user = s.user, !.tenant = s.tenant]]
     ELSE Finish(r)
  /\ Read

ReadMember(r) ==
  /\ At(r, "member")
  /\ LET role == Roles(As(r).tenant)[As(r).user] IN
     IF role = "none" THEN Finish(r)
     ELSE req' = [req EXCEPT ![r].pc = "tenant", ![r].as.role = role]
  /\ Read

\* Mutant: resolveSession writes the session back with a new last_seen_at.
ReadTenant_Touches(r) ==
  /\ At(r, "tenant")
  /\ Require(r, db.tenants[As(r).tenant] = "active", IF IsSession(r) THEN "handle" ELSE "touch")
  /\ IF IsSession(r) THEN Write([db EXCEPT !.sessions[req[r].with].revoked = FALSE]) ELSE Read

\* Mutant: a key is let in whatever the status of its tenant.
ReadTenant_SessionsOnly(r) ==
  /\ At(r, "tenant")
  /\ Require(r, IsSession(r) => db.tenants[As(r).tenant] = "active",
             IF IsSession(r) THEN "handle" ELSE "touch")
  /\ Read

ReadTenant(r) ==
  /\ At(r, "tenant")
  /\ Require(r, db.tenants[As(r).tenant] = "active", IF IsSession(r) THEN "handle" ELSE "touch")
  /\ Read

\* resolveApiKey: the copy in KV, else the row, which is put in KV whatever it is.
Accept(r, row) ==
  IF Active(row, req[r].with)
  THEN req' = [req EXCEPT ![r].pc = "tenant", ![r].seen = row, ![r].as =
         [NoOne EXCEPT !.kind = "key", !.tenant = row.tenant, !.scopes = row.scopes]]
  ELSE Finish(r)

ReadCache(r) ==
  /\ At(r, "cached")
  /\ LET row == db.cache[req[r].with] IN
     IF row = NoRow THEN Goto(r, "hash") ELSE Accept(r, row)
  /\ Read

ReadKey(r) ==
  /\ At(r, "hash")
  /\ LET row == db.keys[req[r].with] IN
     IF row = NoRow THEN Finish(r) ELSE GotoWith(r, "fill", row)
  /\ Read

FillCache(r) ==
  /\ At(r, "fill")
  /\ Write([db EXCEPT !.cache[req[r].with] = req[r].seen])
  /\ Accept(r, req[r].seen)

\* lastUsedAt is saved with the rest of the copy: revoked_at goes back to what it was.
TouchKey(r) ==
  /\ At(r, "touch")
  /\ Write([db EXCEPT !.keys[req[r].with].revoked = req[r].seen.revoked])
  /\ Goto(r, "handle")

-----------------------------------------------------------------------------
(* Login.                                                                  *)

\* countRecentFailures: the rows of the email or of the address in the window.
Failed(places) == UNION {{a} \X (1 .. db.failures[a]) : a \in places}
Recent(e, i) == Cardinality(Failed({a \in Email \X Ip : a[1] = e \/ a[2] = i}))

\* Mutant: one failure too many.
CountFailures_OffByOne(r) ==
  /\ At(r, "count")
  /\ Require(r, Recent(Op(r).on, Op(r).to.ip) <= MaxFailures, "verify")
  /\ Read

CountFailures(r) ==
  /\ At(r, "count")
  /\ Require(r, Recent(Op(r).on, Op(r).to.ip) < MaxFailures, "verify")
  /\ Read

\* A password that is wrong, or of a user there is not, is recorded as a failure.
VerifyLogin(r) ==
  /\ At(r, "verify")
  /\ LET valid == db.users[Op(r).on] = Op(r).to.password IN
     /\ Goto(r, IF valid THEN "home" ELSE "audit")
     /\ Write(IF valid THEN db ELSE [db EXCEPT !.failures[<<Op(r).on, Op(r).to.ip>>] = @ + 1])

\* listByUser: the first membership decides the tenant.
ReadHome(r) ==
  /\ At(r, "home")
  /\ LET homes == {t \in Tenant : Roles(t)[Op(r).on] # "none"} IN
     \/ homes = {} /\ Finish(r)
     \/ \E t \in homes : req' = [req EXCEPT ![r].pc = "open", ![r].as.tenant = t]
  /\ Read

OpenHome(r) ==
  /\ At(r, "open")
  /\ Require(r, db.tenants[As(r).tenant] = "active", "sign")
  /\ Read

SignIn(r) ==
  /\ At(r, "sign")
  /\ \E s \in Session :
       /\ db.sessions[s] = NoRow
       /\ Write([db EXCEPT !.sessions[s] =
            [tenant |-> As(r).tenant, user |-> Op(r).on, revoked |-> FALSE]])
  /\ Goto(r, "audit")

\* The failures of an address and an email are older than FAILURE_WINDOW_MS.
WindowPasses(e, i) ==
  /\ db.failures[<<e, i>>] > 0
  /\ Write([db EXCEPT !.failures[<<e, i>>] = 0])
  /\ UNCHANGED <<req, mix, begun, faults>>

-----------------------------------------------------------------------------
(* The caller's own session, password and profile.                         *)

Is(r, kind) == At(r, "handle") /\ Op(r).kind = kind

\* The route gives logout no token hash, and without one it saves nothing.
Logout(r) == Is(r, "logout") /\ Finish(r) /\ Read

\* revokeSession: findById, then a save of the whole row; only the caller's own.
RevokeSession(r) ==
  /\ Is(r, "revokeSession")
  /\ LET s == db.sessions[Op(r).on] IN
     Require(r, IsSession(r) /\ s # NoRow /\ s.user = As(r).user, "endSession")
  /\ Read

EndSession(r) ==
  /\ At(r, "endSession")
  /\ Write([db EXCEPT !.sessions[Op(r).on].revoked = TRUE])
  /\ Goto(r, "audit")

\* Two requests hold the row of one user that one of them is about to save.
Cross(r, what, labels) ==
  IF \E q \in Request \ {r} : req[q].pc \in labels /\ As(q).tenant = As(r).tenant
  THEN [ghost EXCEPT !.crossed = @ \union {what}] ELSE ghost

\* changePassword: "on" is the current password, "to" the next.
ChangePassword(r) ==
  /\ Is(r, "changePassword")
  /\ Require(r, IsSession(r) /\ db.users[As(r).user] = Op(r).on, "password")
  /\ Read

SavePassword(r) ==
  /\ At(r, "password")
  /\ db' = [db EXCEPT !.users[As(r).user] = Op(r).to]
  /\ ghost' = [Cross(r, "users", {"password", "profile"}) EXCEPT !.password[As(r).user] = Op(r).to]
  /\ Goto(r, "audit")

\* PATCH /users/me reads the user and saves the whole row with another name.
ReadProfile(r) ==
  /\ Is(r, "profile")
  /\ IF IsSession(r) THEN GotoWith(r, "profile", db.users[As(r).user]) ELSE Finish(r)
  /\ Read

SaveProfile(r) ==
  /\ At(r, "profile")
  /\ db' = [db EXCEPT !.users[As(r).user] = req[r].seen]
  /\ ghost' = Cross(r, "users", {"password", "profile"})
  /\ Finish(r)

\* Every other route asks for a permission and touches none of these tables.
Use(r) == Is(r, "use") /\ Finish(r) /\ Read

-----------------------------------------------------------------------------
(* API keys.                                                               *)

CreateKey(r) ==
  /\ Is(r, "createKey")
  /\ Require(r, May(r, "api-keys:write") /\ IsSession(r), "insertKey")
  /\ Read

\* A rotation asks createApiKey for a key with the scopes of the old one.
InsertKey(r) ==
  /\ At(r, "insertKey")
  /\ IF May(r, "api-keys:write") /\ IsSession(r)
     THEN /\ \E k \in Key :
               /\ db.keys[k] = NoRow
               /\ Write([db EXCEPT !.keys[k] =
                    [tenant |-> As(r).tenant, revoked |-> FALSE, scopes |->
                      IF Op(r).kind = "createKey" THEN Op(r).to ELSE req[r].seen.scopes]])
          /\ Goto(r, "audit")
     ELSE Finish(r) /\ Read

\* revokeApiKey and rotateApiKey: the row is saved, then its copy leaves KV.
FindKey(r) ==
  /\ Is(r, "revokeKey") \/ Is(r, "rotateKey")
  /\ LET row == db.keys[Op(r).on] IN
     IF May(r, "api-keys:write") /\ row.tenant = As(r).tenant
     THEN GotoWith(r, "revoke", row) ELSE Finish(r)
  /\ Read

RevokeKey(r) ==
  /\ At(r, "revoke")
  /\ db' = [db EXCEPT !.keys[Op(r).on].revoked = TRUE]
  /\ ghost' = [ghost EXCEPT !.revoked = @ \union {Op(r).on}]
  /\ Goto(r, "uncache")

UncacheKey(r) ==
  /\ At(r, "uncache")
  /\ Write([db EXCEPT !.cache[Op(r).on] = NoRow])
  /\ Goto(r, IF Op(r).kind = "rotateKey" THEN "insertKey" ELSE "audit")

\* The copy in KV lives for 60 seconds; a session or a key may have an end.
CacheExpires(k) ==
  /\ db.cache[k] # NoRow
  /\ Write([db EXCEPT !.cache[k] = NoRow])
  /\ UNCHANGED <<req, mix, begun, faults>>

CredentialExpires(c) ==
  /\ [kind |-> "expire", on |-> c, to |-> "none"] \in mix
  /\ c \notin db.expired
  /\ Write([db EXCEPT !.expired = @ \union {c}])
  /\ UNCHANGED <<req, mix, begun, faults>>

-----------------------------------------------------------------------------
(* Users, members and the tenant.                                          *)

\* bootstrapTenant and inviteMember: only an email that no user has.
FindEmail(r) ==
  /\ At(r, "email") \/ Is(r, "invite")
  /\ LET may == Op(r).kind = "bootstrap" \/ (May(r, "members:write") /\ Op(r).to # "owner") IN
     Require(r, may /\ db.users[Op(r).on] = 0, "user")
  /\ Read

\* Mutant: a user whose email exists is saved over the one there is.
SaveUser_Upserts(r) ==
  /\ At(r, "user")
  /\ db' = [db EXCEPT !.users[Op(r).on] = 1]
  /\ ghost' = [ghost EXCEPT !.password[Op(r).on] = 1]
  /\ Goto(r, IF Op(r).kind = "bootstrap" THEN "found" ELSE "join")

\* users.email is UNIQUE: the second of two inserts throws.
SaveUser(r) ==
  /\ At(r, "user")
  /\ IF db.users[Op(r).on] # 0 THEN Finish(r) /\ Read
     ELSE /\ db' = [db EXCEPT !.users[Op(r).on] = 1]
          /\ ghost' = [ghost EXCEPT !.password[Op(r).on] = 1]
          /\ Goto(r, IF Op(r).kind = "bootstrap" THEN "found" ELSE "join")

FoundTenant(r) ==
  /\ At(r, "found")
  /\ \E t \in Tenant :
       /\ db.tenants[t] = "none"
       /\ Write([db EXCEPT !.tenants[t] = "active"])
       /\ req' = [req EXCEPT ![r].pc = "join", ![r].as.tenant = t]

\* The first member of a new tenant is its owner.
Join(r) ==
  /\ At(r, "join")
  /\ LET founded == Op(r).kind = "bootstrap" IN
     /\ Write([db EXCEPT !.members[As(r).tenant][Op(r).on] =
          IF founded THEN "owner" ELSE Op(r).to])
     /\ IF founded THEN Goto(r, "policy") ELSE Finish(r)

SavePolicy(r) ==
  /\ At(r, "policy")
  /\ Write([db EXCEPT !.policies = @ \union {As(r).tenant}])
  /\ Goto(r, "audit")

\* changeRole: an owner who steps down must not be the only one.
ChangeRole(r) ==
  /\ Is(r, "changeRole")
  /\ LET role == Roles(As(r).tenant)[Op(r).on] IN
     Require(r, May(r, "members:write") /\ role # "none",
             IF role = "owner" /\ Op(r).to # "owner" THEN "owners" ELSE "role")
  /\ Read

\* Mutant: any owner may step down.
CountOwners_Any(r) == At(r, "owners") /\ Goto(r, "role") /\ Read

CountOwners(r) ==
  /\ At(r, "owners")
  /\ Require(r, Cardinality(Owners(As(r).tenant)) > 1, "role")
  /\ Read

Editing == {"owners", "role", "remove"}

\* The membership is inserted again when it was deleted since it was read.
SaveRole(r) ==
  /\ At(r, "role")
  /\ db' = [db EXCEPT !.members[As(r).tenant][Op(r).on] = Op(r).to]
  /\ ghost' = Cross(r, "members", Editing)
  /\ Goto(r, "audit")

RemoveMember(r) ==
  /\ Is(r, "removeMember")
  /\ Require(r, May(r, "members:write") /\ Roles(As(r).tenant)[Op(r).on] \notin {"none", "owner"},
             "remove")
  /\ Read

DeleteMember(r) ==
  /\ At(r, "remove")
  /\ db' = [db EXCEPT !.members[As(r).tenant][Op(r).on] = "none"]
  /\ ghost' = Cross(r, "members", Editing)
  /\ Finish(r)

\* requestTenantDeletion: the status, the sessions, the keys, one after the other.
CloseTenant(r) ==
  /\ Is(r, "deleteTenant")
  /\ Require(r, May(r, "tenant:admin") /\ db.tenants[As(r).tenant] = "active", "close")
  /\ Read

SaveClosed(r) ==
  /\ At(r, "close")
  /\ Write([db EXCEPT !.tenants[As(r).tenant] = "deleting"])
  /\ Goto(r, "endSessions")

RevokedIn(t, rows) == [i \in DOMAIN rows |->
  IF rows[i].tenant = t THEN [rows[i] EXCEPT !.revoked = TRUE] ELSE rows[i]]

EndSessions(r) ==
  /\ At(r, "endSessions")
  /\ Write([db EXCEPT !.sessions = RevokedIn(As(r).tenant, @)])
  /\ Goto(r, "endKeys")

EndKeys(r) ==
  /\ At(r, "endKeys")
  /\ db' = [db EXCEPT !.keys = RevokedIn(As(r).tenant, @)]
  /\ ghost' = [ghost EXCEPT !.revoked = @ \union {k \in Key : db.keys[k].tenant = As(r).tenant}]
  /\ Goto(r, "audit")

\* POST /tenant/deletion then requests the erasure: a job, its message, a record.
RequestErasure(r) ==
  /\ At(r, "job")
  /\ IF May(r, "deletion:write")
     THEN Write([db EXCEPT !.jobs[As(r).tenant] = "saved"]) /\ Goto(r, "send")
     ELSE Read /\ Finish(r)

SendErasure(r) ==
  /\ At(r, "send")
  /\ Write([db EXCEPT !.jobs[As(r).tenant] = "queued"])
  /\ Goto(r, "audit")

\* writeAudit, audit.append
Audit(r) ==
  /\ At(r, "audit")
  /\ Write([db EXCEPT !.audit = @ \union {<<Op(r).kind, As(r).tenant>>}])
  /\ IF Op(r).kind = "deleteTenant" /\ db.jobs[As(r).tenant] = "none"
     THEN Goto(r, "job") ELSE Finish(r)

-----------------------------------------------------------------------------
Authenticate(r) ==
  \/ ReadSession(r) \/ ReadMember(r) \/ ReadTenant(r)
  \/ ReadCache(r) \/ ReadKey(r) \/ FillCache(r) \/ TouchKey(r)
Login(r) == CountFailures(r) \/ VerifyLogin(r) \/ ReadHome(r) \/ OpenHome(r) \/ SignIn(r)
Self(r) ==
  \/ Logout(r) \/ RevokeSession(r) \/ EndSession(r) \/ Use(r)
  \/ ChangePassword(r) \/ SavePassword(r) \/ ReadProfile(r) \/ SaveProfile(r)
Keys(r) == CreateKey(r) \/ InsertKey(r) \/ FindKey(r) \/ RevokeKey(r) \/ UncacheKey(r)
Users(r) ==
  \/ FindEmail(r) \/ SaveUser(r) \/ FoundTenant(r) \/ Join(r) \/ SavePolicy(r)
  \/ ChangeRole(r) \/ CountOwners(r) \/ SaveRole(r) \/ RemoveMember(r) \/ DeleteMember(r)
Closing(r) ==
  \/ CloseTenant(r) \/ SaveClosed(r) \/ EndSessions(r) \/ EndKeys(r)
  \/ RequestErasure(r) \/ SendErasure(r) \/ Audit(r)

\* A call to D1 or KV throws, or the isolate is gone: the request ends here.
Throws(r) ==
  /\ ~At(r, "idle") /\ faults < MaxFaults
  /\ Finish(r) /\ Read
  /\ faults' = faults + 1
  /\ UNCHANGED <<mix, begun>>

Step(r) ==
  /\ Authenticate(r) \/ Login(r) \/ Self(r) \/ Keys(r) \/ Users(r) \/ Closing(r)
  /\ UNCHANGED <<mix, begun, faults>>

Next ==
  \/ \E r \in Request : Step(r) \/ Throws(r)
  \/ \E r \in Request, o \in Operation, c \in Credential \union {"none"} : Begin(r, o, c)
  \/ \E e \in Email, i \in Ip : WindowPasses(e, i)
  \/ \E k \in Key : CacheExpires(k)
  \/ \E c \in Credential : CredentialExpires(c)

Spec == Init /\ [][Next]_vars

-----------------------------------------------------------------------------
(* Properties.                                                             *)

\* A user belongs to one tenant at most, so the first membership that login
\* takes is the only one.  Two requests that found no user of an email insert
\* it one after the other; the second must not go on to a membership.
OneTenantPerUser ==
  \A e \in Email : Cardinality({t \in Tenant : Roles(t)[e] # "none"}) <= 1

\* The limit on failed logins, which is read before the attempt is recorded,
\* is passed by no more than the other logins in flight.
FailuresBounded ==
  \A e \in Email, i \in Ip :
    db.failures[<<e, i>>] <= MaxFailures + Cardinality(Request) - 1

\* A revoked session is never live again, although every save of a session
\* writes its revoked_at from a row read earlier.
RevokedSessionStays ==
  [][\A s \in Session : db.sessions[s] # NoRow /\ db.sessions[s].revoked => db'.sessions[s].revoked]_db

\* A request that begins when its tenant is being deleted comes to no handler
\* and to no new session, by whatever row or cached key it was let in: sessions
\* and keys that a request in flight leaves unrevoked do not matter.
NoEntryAfterDeletion ==
  \A r \in Request :
    req[r].pc \notin {"idle", "member", "tenant", "open"} => As(r).tenant \notin ghost.closed[r]

\* Owners and passwords are lost only to two requests of a tenant that each
\* saved what it had read before the other: alone, changeRole and removeMember
\* leave an owner and no save of a user takes back its password.
LostOnlyByCrossing ==
  /\ \A t \in Tenant : db.tenants[t] # "none" /\ db.policies \intersect {t} # {} =>
       Owners(t) # {} \/ "members" \in ghost.crossed
  /\ db.users = ghost.password \/ "users" \in ghost.crossed

\* A key that was revoked is refused: STORAGE.md allows 60 seconds for its
\* cached copy, and no time at all in which its row may be live again.
RevokedKeyStaysRevoked == \A k \in ghost.revoked : db.keys[k].revoked
=============================================================================
