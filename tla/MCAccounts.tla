----------------------------- MODULE MCAccounts -----------------------------
(* Instances of Accounts for TLC.                                          *)
EXTENDS Accounts, TLC

Do(kind, on, to) == [kind |-> kind, on |-> on, to |-> to]

TwoOwners == [ann |-> "owner", bob |-> "owner", cat |-> "viewer"]
TwoSessions == [s1 |-> "ann", s2 |-> "bob"]
OneKey == [k1 |-> {"admin"}]

\* What clients do at the same time; in Closure a key also reaches its expiresAt.
Staff == {Do("changeRole", "ann", "viewer"), Do("changeRole", "bob", "admin"),
          Do("changeRole", "cat", "owner"), Do("removeMember", "cat", "none")}
Newcomers == {Do("invite", "dan", "admin"), Do("bootstrap", "dan", "none"),
              Do("login", "dan", [ip |-> "i1", password |-> 1])}
Guesses == {Do("login", "ann", [ip |-> i, password |-> p]) : i \in {"i1", "i2"}, p \in {1, 2}}
Sessions == {Do("revokeSession", "s1", "none"), Do("logout", "none", "none"),
             Do("login", "bob", [ip |-> "i1", password |-> 1]), Do("deleteTenant", "none", "none")}
Passwords == {Do("changePassword", 1, 2), Do("changePassword", 2, 3), Do("profile", "none", "none")}
Revocations == {Do("revokeKey", "k1", "none"), Do("rotateKey", "k1", "none"),
                Do("use", "none", "none")}
Closure == {Do("createKey", "none", {"logs:write"}), Do("use", "none", "none"),
            Do("deleteTenant", "none", "none"), Do("expire", "k1", "none")}
Requests == Permutations(Request)
AllMixes == {Staff, Newcomers, Guesses, Sessions, Passwords, Revocations, Closure}
=============================================================================
