-------------------------- MODULE CrawlNotices_proofs --------------------------
(***************************************************************************)
(* Proofs about the rows of table notices that the crawl pipeline writes:  *)
(* when crawls of one college do not overlap, a row never goes back to an  *)
(* older version of its posting; and the table changes only by the atomic  *)
(* steps of AtomicUpsert, which BulkUpsert implements row by row.          *)
(***************************************************************************)
EXTENDS CrawlTask_proofs

(* No two workers crawl one college at the same time.  The code does not see *)
(* to it; the one worker process of DEPLOYMENT.md:149 does.                  *)
NoOverlap ==
    \A v, w \in Workers :
        v # w /\ job[v] # NoJob /\ job[w] # NoJob => College(v) # College(w)

SamePosting(c, d) == c # NoContent /\ d # NoContent /\ c[1] = d[1]

(* Nothing is stored, or collected for the upsert, that was never posted. *)
NoneAhead ==
    /\ \A k \in Keys : notices[k].content # NoContent =>
          notices[k].content[2] <= site[notices[k].content[1]]
    /\ \A w \in Workers, k \in Keys : batch[w][k] # NoContent =>
          batch[w][k][2] <= site[batch[w][k][1]]

(* A crawl starts with an empty list of payloads. *)
StartsEmpty ==
    \A w \in Workers : pc[w] \in {"idle", "start", "links"} => batch[w] = EmptyBatch

(* What a crawl has read is not older than what is stored meanwhile. *)
BatchCurrent ==
    \A w \in Workers, k \in Keys :
        pc[w] = "scrape" /\ SamePosting(notices[k].content, batch[w][k])
          => notices[k].content[2] <= batch[w][k][2]

(* A crawl collects postings of its own college only. *)
OwnPostings ==
    \A w \in Workers : pc[w] = "scrape" =>
        /\ \A p \in todo[w] : HomeOf[p] = College(w)
        /\ \A k \in Keys : batch[w][k] # NoContent =>
              HomeOf[batch[w][k][1]] = College(w)

(* The inductive invariant behind NeverOlder. *)
AgeInv == NoneAhead /\ StartsEmpty /\ BatchCurrent /\ OwnPostings

NotOlder(k) ==
    SamePosting(notices[k].content, notices'[k].content)
      => notices'[k].content[2] >= notices[k].content[2]
-------------------------------------------------------------------------------
LEMMA ContentsTyped ==
    ASSUME TypeOK
    PROVE  /\ \A p \in Posts : site[p] \in Nat
           /\ \A k \in Keys : notices[k].content # NoContent =>
                 notices[k].content[1] \in Posts /\ notices[k].content[2] \in Nat
           /\ \A w \in Workers, k \in Keys : batch[w][k] # NoContent =>
                 batch[w][k][1] \in Posts /\ batch[w][k][2] \in Nat
<1>1. \A c \in Contents : c[1] \in Posts /\ c[2] \in Nat
  BY DEF Contents
<1>2. /\ \A k \in Keys : notices[k].content \in Contents \union {NoContent}
      /\ \A w \in Workers, k \in Keys : batch[w][k] \in Contents \union {NoContent}
      /\ \A p \in Posts : site[p] \in Nat
  BY ConstantsOK DEF TypeOK, NoticeRow
<1>3. QED BY <1>1, <1>2

(* Seen from the stored and the collected versions, a step edits the site,   *)
(* deletes rows, fetches a list, reads a page, commits a batch, or at most   *)
(* passes links over or leaves the loop.                                     *)
Passes ==
    /\ UNCHANGED <<site, notices>>
    /\ \A v \in Workers :
          \/ batch'[v] = EmptyBatch /\ pc'[v] # "scrape"
          \/ batch'[v] = batch[v] /\ pc'[v] \in {"record", "fail", "raise", "handoff"}
          \/ /\ batch'[v] = batch[v] /\ pc'[v] = pc[v] /\ job'[v] = job[v]
             /\ todo'[v] \subseteq todo[v]

LEMMA AgeKinds ==
    ASSUME TypeOK, StartsEmpty, Next
    PROVE  \/ Passes
           \/ \E p \in Posts : EditSite(p)
           \/ \E c \in Colleges : \E K \in SUBSET Keys : DeleteNotices(c, K)
           \/ \E w \in Workers, L \in SUBSET Posts : FetchLinks(w, L)
           \/ \E w \in Workers, p \in Posts : Scrape(w, p)
           \/ \E w \in Workers : Upsert(w)
<1> USE DEF Passes, StartsEmpty, Transition, EndAttempt, queueVars, dbVars, scanVars,
            localVars, envVars
<1>1. CASE Environment
  BY <1>1 DEF Environment, SubmitCrawl, Redeliver
<1>2. ASSUME NEW w \in Workers, Fault(w) PROVE Passes
  BY <1>2 DEF Fault, Crash, DbError, BrokerError, Abandon, TypeOK
<1>3. ASSUME NEW w \in Workers, Work(w)
      PROVE  \/ Passes \/ Upsert(w)
             \/ \E L \in SUBSET Posts : FetchLinks(w, L)
             \/ \E p \in Posts : Scrape(w, p)
  <2> USE DEF TypeOK
  <2>1. CASE UnknownCollege(w) \/ UpsertRefused(w) \/ Retry(w) \/ GiveUp(w)
             \/ Finish(w)
    BY <2>1 DEF UnknownCollege, UpsertRefused, Retry, GiveUp, Finish
  <2>2. CASE \E a \in Attempts : Receive(w, a)
    BY <2>2 DEF Receive
  <2>3. CASE OpenRun(w) \/ RefuseCollege(w) \/ FetchLinksFails(w)
    BY <2>3 DEF OpenRun, RefuseCollege, FetchLinksFails
  <2>4. CASE \E p \in Posts : SkipPost(w, p) \/ ScrapeFails(w, p)
    BY <2>4 DEF SkipPost, ScrapeFails
  <2>5. CASE \E a \in Attempts : RecordSuccess(w, a) \/ RecordFailure(w, a)
    BY <2>5 DEF RecordSuccess, RecordFailure
  <2>6. CASE \E h \in held[w] : EnqueueAi(w, h)
    BY <2>6 DEF EnqueueAi
  <2>7. QED BY <1>3, <2>1, <2>2, <2>3, <2>4, <2>5, <2>6 DEF Work, Proceed
<1>4. QED BY <1>1, <1>2, <1>3 DEF Next

LEMMA EditKeepsAge ==
    ASSUME TypeOK, AgeInv, NEW p \in Posts, EditSite(p)
    PROVE  AgeInv'
<1>1. /\ UNCHANGED <<notices, batch, pc, job, todo>>
      /\ \A q \in Posts : site'[q] \in Nat /\ site'[q] >= site[q]
  BY ContentsTyped DEF EditSite, dbVars, localVars, TypeOK
<1>2. NoneAhead'
  BY <1>1, ContentsTyped DEF AgeInv, NoneAhead
<1>3. QED BY <1>1, <1>2 DEF AgeInv, StartsEmpty, BatchCurrent, OwnPostings, College

LEMMA DeleteKeepsAge ==
    ASSUME TypeOK, AgeInv, NEW c \in Colleges, NEW K \in SUBSET Keys, DeleteNotices(c, K)
    PROVE  AgeInv' /\ \A k \in Keys : NotOlder(k)
<1>1. /\ UNCHANGED <<site, batch, pc, job, todo>>
      /\ \A k \in Keys : notices'[k].content \in {NoContent, notices[k].content}
  BY DEF DeleteNotices, localVars, NoRow
<1>2. NoneAhead' /\ BatchCurrent'
  BY <1>1 DEF AgeInv, NoneAhead, BatchCurrent, SamePosting
<1>3. \A k \in Keys : NotOlder(k)
  BY <1>1, ContentsTyped DEF SamePosting, NotOlder
<1>4. QED BY <1>1, <1>2, <1>3 DEF AgeInv, StartsEmpty, OwnPostings, College

LEMMA FetchKeepsAge ==
    ASSUME TypeOK, AgeInv, NEW w \in Workers, NEW L \in SUBSET Posts, FetchLinks(w, L)
    PROVE  AgeInv'
<1>1. /\ UNCHANGED <<site, notices, batch, job>>
      /\ pc[w] = "links" /\ pc'[w] = "scrape" /\ todo'[w] = L
      /\ \A v \in Workers : v # w => pc'[v] = pc[v] /\ todo'[v] = todo[v]
      /\ \A p \in L : HomeOf[p] = College(w)
  BY DEF FetchLinks, Transition, dbVars, envVars, TypeOK
<1>2. \A k \in Keys : batch[w][k] = NoContent
  BY <1>1 DEF AgeInv, StartsEmpty, EmptyBatch
<1>3. NoneAhead'
  BY <1>1 DEF AgeInv, NoneAhead
<1>4. StartsEmpty'
  BY <1>1 DEF AgeInv, StartsEmpty
<1>5. BatchCurrent'
  BY <1>1, <1>2 DEF AgeInv, BatchCurrent, SamePosting
<1>6. OwnPostings'
  BY <1>1, <1>2 DEF AgeInv, OwnPostings, College
<1>7. QED BY <1>3, <1>4, <1>5, <1>6 DEF AgeInv

(* A page is read in its current version, and nothing newer is stored.       *)
LEMMA ScrapeKeepsAge ==
    ASSUME TypeOK, AgeInv, NEW w \in Workers, NEW p \in Posts, Scrape(w, p)
    PROVE  AgeInv'
<1>1. /\ UNCHANGED <<site, notices, pc, job>>
      /\ pc[w] = "scrape" /\ p \in todo[w]
      /\ \A v \in Workers : todo'[v] \subseteq todo[v]
      /\ \A v \in Workers : v # w => batch'[v] = batch[v]
  BY DEF Scrape, dbVars, envVars, TypeOK
<1>2. \A v \in Workers, k \in Keys :
        \/ batch'[v][k] = batch[v][k]
        \/ v = w /\ batch'[v][k] = <<p, site[p]>>
  BY DEF Scrape, TypeOK
<1>3. <<p, site[p]>>[1] = p /\ <<p, site[p]>>[2] = site[p] /\ site[p] \in Nat
  BY ContentsTyped
<1>4. NoneAhead'
  BY <1>1, <1>2, <1>3 DEF AgeInv, NoneAhead
<1>5. StartsEmpty'
  BY <1>1 DEF AgeInv, StartsEmpty
<1>6. ASSUME NEW v \in Workers, NEW k \in Keys, pc[v] = "scrape",
             SamePosting(notices[k].content, batch'[v][k])
      PROVE  notices[k].content[2] <= batch'[v][k][2]
  <2>1. CASE batch'[v][k] = batch[v][k]
    BY <1>6, <2>1 DEF AgeInv, BatchCurrent
  <2>2. CASE batch'[v][k] = <<p, site[p]>>
    BY <1>3, <1>6, <2>2 DEF AgeInv, NoneAhead, SamePosting
  <2>3. QED BY <1>2, <2>1, <2>2
<1>7. BatchCurrent'
  BY <1>1, <1>6 DEF BatchCurrent
<1>8. HomeOf[p] = College(w)
  BY <1>1 DEF AgeInv, OwnPostings
<1>9. OwnPostings'
  BY <1>1, <1>2, <1>3, <1>8 DEF AgeInv, OwnPostings, College
<1>10. QED BY <1>4, <1>5, <1>7, <1>9 DEF AgeInv

(* A batch holds nothing older than what it replaces, and no other crawl is  *)
(* under way that has read the same posting before.                          *)
LEMMA UpsertKeepsAge ==
    ASSUME NoOverlap, TypeOK, AgeInv, NEW w \in Workers, Upsert(w)
    PROVE  AgeInv' /\ \A k \in Keys : NotOlder(k)
<1>1. /\ pc[w] = "scrape" /\ pc'[w] = "record" /\ UNCHANGED <<site, batch, job, todo>>
      /\ \A v \in Workers : v # w => pc'[v] = pc[v]
  BY DEF Upsert, Transition, scanVars, envVars, TypeOK
<1>2. \A k \in Keys : \/ notices'[k] = notices[k]
                      \/ notices'[k].content = batch[w][k] /\ batch[w][k] # NoContent
  BY DEF Upsert, Touched, Payloads, RowAfter
<1>3. NoneAhead'
  BY <1>1, <1>2 DEF AgeInv, NoneAhead
<1>4. StartsEmpty'
  BY <1>1 DEF AgeInv, StartsEmpty
<1>5. ASSUME NEW v \in Workers, NEW k \in Keys, pc'[v] = "scrape",
             SamePosting(notices'[k].content, batch[v][k])
      PROVE  notices'[k].content[2] <= batch[v][k][2]
  <2>1. v # w /\ pc[v] = "scrape"
    BY <1>1, <1>5
  <2>2. College(v) # College(w)
    BY <1>1, <2>1 DEF NoOverlap, TypeOK
  <2>3. notices'[k].content # batch[w][k] \/ batch[w][k] = NoContent
    BY <1>1, <1>5, <2>1, <2>2 DEF AgeInv, OwnPostings, SamePosting
  <2>4. QED BY <1>2, <1>5, <2>1, <2>3 DEF AgeInv, BatchCurrent
<1>6. BatchCurrent'
  BY <1>1, <1>5 DEF BatchCurrent
<1>7. OwnPostings'
  BY <1>1 DEF AgeInv, OwnPostings, College
<1>8. ASSUME NEW k \in Keys PROVE NotOlder(k)
  <2>1. CASE notices'[k] = notices[k]
    BY <2>1, ContentsTyped DEF NotOlder, SamePosting
  <2>2. CASE notices'[k].content = batch[w][k]
    BY <1>1, <2>2, ContentsTyped DEF NotOlder, SamePosting, AgeInv, BatchCurrent
  <2>3. QED BY <1>2, <2>1, <2>2
<1>9. QED BY <1>3, <1>4, <1>6, <1>7, <1>8 DEF AgeInv

LEMMA PassesKeepsAge ==
    ASSUME TypeOK, AgeInv, Passes
    PROVE  AgeInv'
<1>1. \A v \in Workers, k \in Keys : batch'[v] = EmptyBatch => batch'[v][k] = NoContent
  BY DEF EmptyBatch
<1>2. NoneAhead' /\ BatchCurrent'
  BY <1>1 DEF Passes, AgeInv, NoneAhead, BatchCurrent, SamePosting
<1>3. StartsEmpty' /\ OwnPostings'
  BY DEF Passes, AgeInv, StartsEmpty, OwnPostings, College
<1>4. QED BY <1>2, <1>3 DEF AgeInv

LEMMA SameRowsNotOlder ==
    ASSUME TypeOK, UNCHANGED notices PROVE \A k \in Keys : NotOlder(k)
BY ContentsTyped DEF NotOlder, SamePosting

LEMMA InitAge == Init => AgeInv
BY DEF Init, AgeInv, NoneAhead, StartsEmpty, BatchCurrent, OwnPostings, EmptyBatch, NoRow,
       SamePosting

LEMMA AgeStep ==
    ASSUME NoOverlap, TypeOK, AgeInv, [Next]_vars
    PROVE  AgeInv' /\ \A k \in Keys : NotOlder(k)
<1>1. CASE Next
  <2>1. CASE Passes
    BY <2>1, PassesKeepsAge, SameRowsNotOlder DEF Passes
  <2>2. ASSUME NEW p \in Posts, EditSite(p)
        PROVE  AgeInv' /\ \A k \in Keys : NotOlder(k)
    BY <2>2, EditKeepsAge, SameRowsNotOlder DEF EditSite, dbVars
  <2>3. ASSUME NEW w \in Workers, NEW L \in SUBSET Posts, FetchLinks(w, L)
        PROVE  AgeInv' /\ \A k \in Keys : NotOlder(k)
    BY <2>3, FetchKeepsAge, SameRowsNotOlder DEF FetchLinks, dbVars
  <2>4. ASSUME NEW w \in Workers, NEW p \in Posts, Scrape(w, p)
        PROVE  AgeInv' /\ \A k \in Keys : NotOlder(k)
    BY <2>4, ScrapeKeepsAge, SameRowsNotOlder DEF Scrape, dbVars
  <2>5. QED
    BY <1>1, <2>1, <2>2, <2>3, <2>4, AgeKinds, DeleteKeepsAge, UpsertKeepsAge DEF AgeInv
<1>2. CASE UNCHANGED vars
  BY <1>2, SameRowsNotOlder DEF vars, AgeInv, NoneAhead, StartsEmpty, BatchCurrent,
     OwnPostings, College
<1>3. QED BY <1>1, <1>2

(* While crawls of one college do not overlap, no row goes back to an older  *)
(* version of its posting, whatever is edited, misread, retried, redelivered *)
(* or deleted meanwhile: detail pages are read long before the upsert, but   *)
(* no other upsert of them comes between (crawl_service.py:319-353).         *)
THEOREM RowsNeverOlder == Spec /\ []NoOverlap => NeverOlder
<1>1. NoOverlap /\ TypeOK /\ AgeInv /\ [Next]_vars => AgeInv'
  BY AgeStep
<1>2. Spec /\ []NoOverlap => []AgeInv
  BY <1>1, InitAge, TypeCorrect, PTL DEF Spec
<1>3. NoOverlap /\ TypeOK /\ AgeInv /\ [Next]_vars
        => [\A k \in Keys :
              LET old == notices[k].content
                  new == notices'[k].content
              IN  old # NoContent /\ new # NoContent /\ old[1] = new[1]
                    => new[2] >= old[2]]_vars
  BY AgeStep DEF NotOlder, SamePosting
<1>4. QED BY <1>2, <1>3, TypeCorrect, PTL DEF Spec, NeverOlder

(* In particular with the one worker process the system is deployed with.    *)
THEOREM OneWorkerNeverOlder ==
    ASSUME \A v, w \in Workers : v = w
    PROVE  Spec => NeverOlder
<1>1. NoOverlap
  BY DEF NoOverlap
<1>2. QED BY <1>1, RowsNeverOlder, PTL
-------------------------------------------------------------------------------
(***************************************************************************)
(* Composition with the storage.  To the pipeline the table is an           *)
(* AtomicUpsert, which BulkUpsert, the statement with its locks, waiting    *)
(* and victims, implements (ImplementsAtomic of BulkUpsert_proofs).         *)
(***************************************************************************)

CrawlId(w) == <<"crawl", w>>
ScriptId(n) == <<"script", n>>
CrawlIds == {CrawlId(w) : w \in Workers}
ScriptIds == {ScriptId(n) : n \in 1..MaxDeletes}

(* A worker's transaction is open while it collects its batch; the n-th      *)
(* execution of the rerun script is the n-th deletion.                       *)
StoreContent == [k \in Keys |-> notices[k].content]
StoreBatch == [t \in CrawlIds |-> batch[t[2]]]
StoreReturned == [t \in CrawlIds |-> {h.key : h \in held[t[2]]}]
StoreStatus ==
    [t \in CrawlIds \union ScriptIds |->
        IF t[1] = "script" THEN IF t[2] <= deletes THEN "committed" ELSE "open"
        ELSE IF pc[t[2]] = "scrape" THEN "open"
        ELSE IF pc[t[2]] \in {"record", "handoff"} THEN "committed"
        ELSE "idle"]

Store == INSTANCE AtomicUpsert WITH
    Crawls <- CrawlIds, Scripts <- ScriptIds, content <- StoreContent,
    status <- StoreStatus, batch <- StoreBatch, returned <- StoreReturned

LEMMA IdsDiffer ==
    /\ \A t \in CrawlIds : t[1] = "crawl" /\ t[2] \in Workers /\ t = CrawlId(t[2])
    /\ \A t \in ScriptIds : t[1] = "script" /\ t[2] \in 1..MaxDeletes /\ t = ScriptId(t[2])
    /\ \A w \in Workers : CrawlId(w) \in CrawlIds /\ CrawlId(w)[1] = "crawl"
                          /\ CrawlId(w)[2] = w
    /\ \A n \in 1..MaxDeletes : ScriptId(n) \in ScriptIds /\ ScriptId(n)[1] = "script"
                               /\ ScriptId(n)[2] = n
BY DEF CrawlIds, ScriptIds, CrawlId, ScriptId

LEMMA UpsertApplies ==
    ASSUME TypeOK, HandoffInv, NEW w \in Workers, Upsert(w)
    PROVE  Store!Apply(CrawlId(w))
<1> DEFINE b == batch[w]
           t == CrawlId(w)
<1>1. /\ pc[w] = "scrape" /\ \A v \in Workers : pc'[v] = IF v = w THEN "record" ELSE pc[v]
      /\ UNCHANGED <<batch, deletes>>
  BY DEF Upsert, Transition, scanVars, envVars, TypeOK
<1>2. \A v \in Workers : held'[v] = IF v = w THEN Returned(b) ELSE held[v]
  BY UpsertCommits DEF TypeOK
<1>3. {h.key : h \in Returned(b)} = Touched(b)
  <2>1. \A h \in Returned(b) : h.key \in Touched(b)
    BY ReturnedChanges
  <2>2. \A k \in Touched(b) : \E h \in Returned(b) : h.key = k
    BY ReturnedChanges
  <2>3. QED BY <2>1, <2>2
<1>4. \A k \in Keys : notices'[k].content = IF k \in Touched(b) THEN b[k]
                                           ELSE notices[k].content
  BY DEF Upsert, RowAfter
<1>5. /\ t \in CrawlIds /\ t[1] = "crawl" /\ t[2] = w
      /\ \A u \in CrawlIds \union ScriptIds : u # t /\ u[1] # "script" => u[2] \in Workers \ {w}
  BY IdsDiffer
<1> HIDE DEF t
<1>6. /\ StoreBatch[t] = b /\ StoreBatch' = StoreBatch
      /\ Store!Payloads(b) = Payloads(b)
  BY <1>1, <1>5 DEF StoreBatch, Store!Payloads, Payloads
<1>7. StoreStatus[t] = "open" /\ StoreStatus' = [StoreStatus EXCEPT ![t] = "committed"]
  <2>1. StoreStatus[t] = "open"
    BY <1>1, <1>5 DEF StoreStatus
  <2>2. \A u \in CrawlIds \union ScriptIds :
          StoreStatus'[u] = IF u = t THEN "committed" ELSE StoreStatus[u]
    BY <1>1, <1>5 DEF StoreStatus
  <2>3. QED BY <2>1, <2>2 DEF StoreStatus
<1>8. StoreContent' = [k \in Keys |-> IF k \in Payloads(b) THEN b[k] ELSE StoreContent[k]]
  BY <1>4 DEF StoreContent, Touched
<1>9. StoreReturned' = [StoreReturned EXCEPT
                          ![t] = {k \in Payloads(b) : StoreContent[k] # b[k]}]
  <2>1. Touched(b) = {k \in Payloads(b) : StoreContent[k] # b[k]}
    BY DEF Touched, StoreContent, Payloads
  <2>2. StoreReturned'[t] = {h.key : h \in held'[w]} /\ held'[w] = Returned(b)
    BY <1>2, <1>5 DEF StoreReturned
  <2>3. \A u \in CrawlIds : u # t => held'[u[2]] = held[u[2]]
    BY <1>2, <1>5, IdsDiffer
  <2>4. \A u \in CrawlIds : u # t => StoreReturned'[u] = StoreReturned[u]
    BY <2>3 DEF StoreReturned
  <2>5. QED BY <1>3, <1>5, <2>1, <2>2, <2>4 DEF StoreReturned
<1> HIDE DEF b
<1>10. QED
  BY <1>6, <1>7, <1>8, <1>9 DEF Store!Apply, Store!Becomes, t

LEMMA DeleteRemoves ==
    ASSUME TypeOK, NEW c \in Colleges, NEW K \in SUBSET Keys, DeleteNotices(c, K)
    PROVE  \E d \in ScriptIds : Store!Remove(d, K)
<1> DEFINE n == deletes + 1
           t == ScriptId(n)
<1>1. /\ n \in 1..MaxDeletes /\ deletes' = n /\ UNCHANGED <<pc, batch, held>>
      /\ \A k \in Keys : notices'[k].content = IF k \in K THEN NoContent
                                               ELSE notices[k].content
  BY ConstantsOK DEF DeleteNotices, localVars, TypeOK, NoRow
<1>2. /\ t \in ScriptIds /\ t[1] = "script" /\ t[2] = n
      /\ \A u \in CrawlIds \union ScriptIds :
            u[1] = "script" => u = ScriptId(u[2]) /\ u[2] \in 1..MaxDeletes
  BY <1>1, IdsDiffer
<1>3. deletes \in Nat
  BY ConstantsOK DEF TypeOK
<1> HIDE DEF t
<1>4. StoreStatus[t] = "open" /\ StoreStatus' = [StoreStatus EXCEPT ![t] = "committed"]
  <2>1. StoreStatus[t] = "open"
    BY <1>2, <1>3 DEF StoreStatus
  <2>2. \A u \in CrawlIds \union ScriptIds :
          StoreStatus'[u] = IF u = t THEN "committed" ELSE StoreStatus[u]
    <3>1. SUFFICES ASSUME NEW u \in CrawlIds \union ScriptIds
                   PROVE  StoreStatus'[u] = IF u = t THEN "committed" ELSE StoreStatus[u]
      OBVIOUS
    <3>2. CASE u[1] = "script"
      BY <1>1, <1>2, <1>3, <3>2 DEF StoreStatus, t
    <3>3. CASE u[1] # "script"
      BY <1>1, <1>2, <3>3 DEF StoreStatus
    <3>4. QED BY <3>2, <3>3
  <2>3. QED BY <2>1, <2>2 DEF StoreStatus
<1>5. StoreContent' = [k \in Keys |-> IF k \in K THEN NoContent ELSE StoreContent[k]]
  BY <1>1 DEF StoreContent
<1>6. UNCHANGED <<StoreBatch, StoreReturned>>
  BY <1>1 DEF StoreBatch, StoreReturned
<1>7. QED BY <1>2, <1>4, <1>5, <1>6 DEF Store!Remove, Store!Becomes

(* The stored notices change in two ways only: by the atomic upsert of one   *)
(* attempt, which returns exactly the keys whose content it changed at that  *)
(* instant, and by the atomic removal of one run of the rerun script.        *)
THEOREM StoresAtomically ==
    Spec => [][\/ \E t \in CrawlIds : Store!Apply(t)
               \/ \E d \in ScriptIds, K \in SUBSET Keys : Store!Remove(d, K)]_StoreContent
<1>1. ASSUME TypeOK, HandoffInv, [Next]_vars
      PROVE  \/ \E t \in CrawlIds : Store!Apply(t)
             \/ \E d \in ScriptIds, K \in SUBSET Keys : Store!Remove(d, K)
             \/ UNCHANGED StoreContent
  <2>1. ASSUME NEW w \in Workers, Upsert(w) PROVE \E t \in CrawlIds : Store!Apply(t)
    BY <1>1, <2>1, UpsertApplies, IdsDiffer
  <2>2. CASE UNCHANGED notices
    BY <2>2 DEF StoreContent
  <2>3. QED BY <1>1, <2>1, <2>2, DeleteRemoves, NoticesChange DEF vars
<1>2. TypeOK /\ HandoffInv /\ [Next]_vars =>
        [\/ \E t \in CrawlIds : Store!Apply(t)
         \/ \E d \in ScriptIds, K \in SUBSET Keys : Store!Remove(d, K)]_StoreContent
  BY <1>1
<1>3. QED BY <1>2, TypeCorrect, HandoffInvariant, PTL DEF Spec
===============================================================================
