\* Crawls of one college and the rerun script over the same two notices.
SPECIFICATION FairSpec
CONSTANTS
  k1 = k1
  k2 = k2
  x = x
  y = y
  Crawls = {"c1", "c2"}
  Scripts = {"d1", "d2"}
  Keys = {k1, k2}
  Contents = {x, y}
  Pages <- TwoPages
  NoContent = NoContent
  NoKey = NoKey
  NoTx = NoTx
INVARIANTS TypeOK DecisionsStand VictimMakesWay WaitsEnd
PROPERTIES AtomicSpec StatementsEnd
CHECK_DEADLOCK FALSE
