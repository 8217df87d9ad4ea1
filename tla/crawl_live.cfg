\* Fair workers, two crawls of one college, one retry, one failure.
SPECIFICATION FairSpec
CONSTANTS
  w1 = w1
  w2 = w2
  t1 = t1
  t2 = t2
  t3 = t3
  t4 = t4
  p1 = p1
  p2 = p2
  p3 = p3
  k1 = k1
  k2 = k2
  Workers = {w1, w2}
  Tasks = {t1, t2}
  Colleges = {"eng"}
  Seeded = {"eng"}
  Configured = {"eng"}
  CollegeOf <- OneCollegeOf
  Posts = {p1}
  HomeOf <- HomeIsEng
  Keys = {k1}
  KeyOf <- DistinctKeys
  BadPosts = {}
  MaxRetries = 1
  MaxCopies = 1
  MaxEdits = 2
  MaxFaults = 1
  MaxDeletes = 0
  NoJob = NoJob
  NoContent = NoContent
PROPERTIES TasksSettle ChangesResolved
CHECK_DEADLOCK FALSE
