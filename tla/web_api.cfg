\* One web process with logins and a trigger, started twice.
SPECIFICATION FairSpec
CONSTANTS
  a1 = a1
  a2 = a2
  c1 = c1
  c2 = c2
  c3 = c3
  e1 = e1
  Requests = {"r1", "r2"}
  Codes = {c1, c2, c3}
  Accounts = {a1, a2}
  OwnerOf <- CodeOwner
  ProfileOf <- CodeProfile
  Profiles = {e1}
  NoProfile = NoProfile
  NoCode = NoCode
  NoWrite = NoWrite
  Calls = {"q1"}
  Colleges = {"eng", "sci"}
  RetrySettings <- Retries
  MaxBoots = 2
INVARIANTS TypeOK OneUserPerAccount TokensOwnUser AnswerTellsQueue CrawlsSpread ServesOnlyProbed WaitsForCommit
PROPERTIES ProfileKept StartupEnds LoginsAnswered
CHECK_DEADLOCK FALSE
