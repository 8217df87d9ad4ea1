----------------------------- MODULE MCCrawlTask -----------------------------
(* Instances of CrawlTask for TLC. *)
EXTENDS CrawlTask, TLC

CONSTANTS t1, t2, t3, t4, p1, p2, p3, k1, k2, w1, w2

(* One college; its postings have external ids of their own. *)
OneCollegeOf == [t \in Tasks |-> "eng"]
HomeIsEng    == [p \in Posts |-> "eng"]
DistinctKeys == [p \in Posts |-> IF p = p1 THEN k1 ELSE k2]

(* Two crawls of a college that works, one of a college missing in table     *)
(* colleges, one of a college without a crawler; the postings collide on     *)
(* one external id.                                                          *)
MixedCollegeOf == [t \in Tasks |-> CASE t = t3 -> "law"
                                      [] t = t4 -> "music"
                                      [] OTHER -> "eng"]
CollidingKeys == [p \in Posts |-> k1]

WorkerTaskSymmetry == Permutations(Workers) \union Permutations(Tasks)
==============================================================================
