\* The health check of a process that serves.
SPECIFICATION Spec
CONSTANTS
  a1 = a1
  a2 = a2
  c1 = c1
  c2 = c2
  c3 = c3
  e1 = e1
  Requests = {"r1"}
  Codes = {c1, c2, c3}
  Accounts = {a1, a2}
  OwnerOf <- CodeOwner
  ProfileOf <- CodeProfile
  Profiles = {e1}
  NoProfile = NoProfile
  NoCode = NoCode
  NoWrite = NoWrite
  Calls = {}
  Colleges = {"eng", "sci"}
  RetrySettings <- Retries
  MaxBoots = 1
INVARIANT HealthTellsDatabase
CHECK_DEADLOCK FALSE
