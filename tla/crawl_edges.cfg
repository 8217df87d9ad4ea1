\* One worker, redelivered messages, colleges the task rejects, colliding and refused
\* postings.
SPECIFICATION Spec
CONSTANTS
  w1 = w1
  w2 = w2
  t1 = t1
  t2 = t2
  t3 = t3
  t4 = t4
  p1 = p1
  p2 = p2
  p3 = p3
  k1 = k1
  k2 = k2
  Workers = {w1}
  Tasks = {t1, t3, t4}
  Colleges = {"eng", "law", "music"}
  Seeded = {"eng", "music"}
  Configured = {"eng"}
  CollegeOf <- MixedCollegeOf
  Posts = {p1, p2}
  HomeOf <- HomeIsEng
  Keys = {k1}
  KeyOf <- CollidingKeys
  BadPosts = {p2}
  MaxRetries = 0
  MaxCopies = 2
  MaxEdits = 2
  MaxFaults = 1
  MaxDeletes = 0
  NoJob = NoJob
  NoContent = NoContent
INVARIANT HandoffTracked
PROPERTY NeverOlder
CHECK_DEADLOCK FALSE
