SPECIFICATION Spec
CONSTANTS
  Email = {"ann", "bob", "cat", "dan"}
  Ip = {"i1", "i2"}
  Tenant = {"t1", "t2"}
  Session = {"s1", "s2", "s3"}
  Key = {"k1", "k2"}
  Members <- TwoOwners
  SignedIn <- TwoSessions
  Issued <- OneKey
  First = "t1"
  Request = {r1, r2}
  Mixes <- AllMixes
  MaxFailures = 1
  MaxRequests = 3
  MaxFaults = 1
INVARIANTS OneTenantPerUser FailuresBounded NoEntryAfterDeletion LostOnlyByCrossing
PROPERTY RevokedSessionStays
SYMMETRY Requests
CHECK_DEADLOCK FALSE
