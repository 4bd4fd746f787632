---------------------------- MODULE Permissions ----------------------------
(***************************************************************************)
(* What a role and what the scopes of an API key allow                     *)
(* (domain/identity/permissions.ts, application/authorization/policies.ts).*)
(***************************************************************************)

Viewer == {"logs:read", "metrics:read", "traces:read", "dashboards:read", "alerts:read", "usage:read"}
Editor == Viewer \union
  {"logs:write", "metrics:write", "traces:write", "dashboards:write", "alerts:write"}
Admin == Editor \union
  {"api-keys:write", "retention:write", "deletion:write", "members:write", "audit:read"}
Owner == Admin \union {"tenant:admin"}

Permission == Owner \union {"admin"}
Role == {"viewer", "editor", "admin", "owner"}
RolePermissions == [viewer |-> Viewer, editor |-> Editor, admin |-> Admin, owner |-> Owner]

\* ApiKeyScopes: what may be read or written, and "admin".
Scope == (Editor \ {"usage:read"}) \union {"admin"}

\* apiKeyHasPermission
KeyAllows(scopes, permission) ==
  \/ "admin" \in scopes /\ permission # "tenant:admin"
  \/ "admin" \notin scopes /\ permission \in scopes

\* hasPermission: a principal is a session with a role or a key with scopes.
HasPermission(principal, permission) ==
  IF principal.kind = "session" THEN permission \in RolePermissions[principal.role]
                                ELSE KeyAllows(principal.scopes, permission)
=============================================================================
