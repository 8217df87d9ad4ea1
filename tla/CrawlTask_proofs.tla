--------------------------- MODULE CrawlTask_proofs ---------------------------
(***************************************************************************)
(* Proofs about CrawlTask for any number of workers, tasks, colleges,      *)
(* postings, retries, redeliveries and failures.                           *)
(***************************************************************************)
EXTENDS CrawlTask, FiniteSetTheorems, TLAPS

(* What notices_upserted counts is a number: the payloads of a batch are     *)
(* among the finitely many keys.                                             *)
LEMMA PayloadsCounted ==
    ASSUME NEW b PROVE Cardinality(Payloads(b)) \in Nat
<1>1. IsFiniteSet(Payloads(b))
  BY ConstantsOK, FS_Subset DEF Payloads
<1>2. QED BY <1>1, FS_CardinalityType

LEMMA NextAttempt ==
    ASSUME NEW a \in Attempts, a.retry < MaxRetries
    PROVE  /\ [a EXCEPT !.retry = @ + 1] \in Attempts
           /\ [a EXCEPT !.retry = @ + 1].task = a.task
           /\ [a EXCEPT !.retry = @ + 1].copy = a.copy
BY ConstantsOK DEF Attempts

LEMMA NextCopy ==
    ASSUME NEW a \in Attempts, a.copy < MaxCopies
    PROVE  /\ [a EXCEPT !.copy = @ + 1] \in Attempts
           /\ [a EXCEPT !.copy = @ + 1].task = a.task
BY ConstantsOK DEF Attempts

LEMMA FirstAttempt ==
    ASSUME NEW t \in Tasks
    PROVE  [task |-> t, retry |-> 0, copy |-> 1] \in Attempts
BY ConstantsOK DEF Attempts

LEMMA EmptyBatchType == EmptyBatch \in [Keys -> Contents \union {NoContent}]
BY DEF EmptyBatch

LEMMA InitTypeOK == Init => TypeOK
<1> SUFFICES ASSUME Init PROVE TypeOK OBVIOUS
<1>1. NoRun \in RunRow /\ NoRow \in NoticeRow
  BY DEF NoRun, NoRow, RunRow, NoticeRow
<1>2. QED BY <1>1, ConstantsOK, EmptyBatchType DEF Init, TypeOK

LEMMA EndAttemptType ==
    ASSUME TypeOK, NEW w \in Workers, EndAttempt(w), UNCHANGED site
    PROVE  /\ pc' \in [Workers -> {"idle", "start", "links", "scrape", "record",
                                   "fail", "raise", "handoff"}]
           /\ job' \in [Workers -> Attempts \union {NoJob}]
           /\ \A v \in Workers : job'[v] = NoJob <=> pc'[v] = "idle"
           /\ todo' \in [Workers -> SUBSET {p \in Posts : site'[p] > 0}]
           /\ batch' \in [Workers -> [Keys -> Contents \union {NoContent}]]
           /\ raised' \in [Workers -> BOOLEAN]
           /\ cause' \in [Workers -> {"none", "network", "value"}]
           /\ held' \in [Workers -> SUBSET Change]
BY EmptyBatchType DEF TypeOK, EndAttempt

(* Type correctness, one lemma per action that needs more than unfolding. *)

LEMMA SubmitCrawlType ==
    ASSUME TypeOK, NEW t \in Tasks, SubmitCrawl(t) PROVE TypeOK'
BY FirstAttempt DEF SubmitCrawl, TypeOK, queueVars, dbVars, aiVars, scanVars, localVars, envVars

LEMMA RedeliverType ==
    ASSUME TypeOK, NEW a \in Attempts, Redeliver(a) PROVE TypeOK'
BY NextCopy DEF Redeliver, TypeOK, queueVars, dbVars, aiVars, scanVars, localVars, envVars

LEMMA EndingType ==
    ASSUME TypeOK, NEW w \in Workers,
           UnknownCollege(w) \/ UpsertRefused(w) \/ GiveUp(w) \/ Finish(w)
    PROVE  TypeOK'
<1>1. EndAttempt(w) /\ UNCHANGED <<queueVars, dbVars, aiVars, envVars>>
  BY DEF UnknownCollege, UpsertRefused, GiveUp, Finish
<1>2. QED BY <1>1, EndAttemptType DEF TypeOK, queueVars, dbVars, aiVars, scanVars, localVars, envVars

LEMMA ScrapeType ==
    ASSUME TypeOK, NEW w \in Workers, NEW p \in Posts, Scrape(w, p) PROVE TypeOK'
<1>1. <<p, site[p]>> \in Contents
  BY ConstantsOK DEF Scrape, TypeOK, Contents
<1>2. batch' \in [Workers -> [Keys -> Contents \union {NoContent}]]
  BY <1>1, ConstantsOK DEF Scrape, TypeOK
<1>3. QED BY <1>2 DEF Scrape, TypeOK, queueVars, dbVars, aiVars, scanVars, localVars, envVars

LEMMA RowAfterType ==
    ASSUME TypeOK, NEW w \in Workers, NEW k \in Touched(batch[w])
    PROVE  /\ k \in Keys
           /\ RowAfter(k, batch[w]) \in NoticeRow
           /\ RowAfter(k, batch[w]).rev = writes[k] + 1
           /\ RowAfter(k, batch[w]).id \in Nat
BY DEF TypeOK, Touched, Payloads, RowAfter, NoticeRow

LEMMA ReturnedType ==
    ASSUME TypeOK, NEW w \in Workers
    PROVE  Returned(batch[w]) \in SUBSET Change
BY RowAfterType DEF Returned, Change, TypeOK

LEMMA UpsertType ==
    ASSUME TypeOK, NEW w \in Workers, Upsert(w) PROVE TypeOK'
<1> DEFINE b == batch[w]
<1>0. \A k \in Touched(b) : RowAfter(k, b) \in NoticeRow
  BY RowAfterType
<1> HIDE DEF b
<1>1. notices' \in [Keys -> NoticeRow]
  <2>1. notices' = [k \in Keys |-> IF k \in Touched(b) THEN RowAfter(k, b)
                                   ELSE notices[k]]
    BY DEF Upsert, b
  <2>2. QED BY <1>0, <2>1 DEF TypeOK
<1>2. writes' \in [Keys -> Nat]
  BY DEF Upsert, TypeOK
<1>3. held' \in [Workers -> SUBSET Change]
  BY ReturnedType DEF Upsert, TypeOK
<1>4. QED BY <1>1, <1>2, <1>3 DEF Upsert, Transition, TypeOK, queueVars, dbVars, aiVars, scanVars, localVars, envVars

LEMMA RecordType ==
    ASSUME TypeOK, NEW w \in Workers, NEW a \in Attempts,
           RecordSuccess(w, a) \/ RecordFailure(w, a)
    PROVE  TypeOK'
<1> DEFINE n == Cardinality(Payloads(batch[w]))
<1>1. \/ runs' = [runs EXCEPT ![a] = [status |-> "success", upserted |-> n,
                                     error |-> runs[a].error]]
      \/ runs' = [runs EXCEPT ![a] = [status |-> "failed", error |-> TRUE,
                                     upserted |-> runs[a].upserted]]
  BY DEF RecordSuccess, RecordFailure, TypeOK, RunRow
<1>2. n \in Nat
  BY PayloadsCounted
<1> HIDE DEF n
<1>3. runs' \in [Attempts -> RunRow]
  <2>1. runs[a].error \in BOOLEAN /\ runs[a].upserted \in Nat
    BY DEF TypeOK, RunRow
  <2>2. /\ [status |-> "success", upserted |-> n, error |-> runs[a].error] \in RunRow
        /\ [status |-> "failed", error |-> TRUE, upserted |-> runs[a].upserted]
              \in RunRow
    BY <1>2, <2>1 DEF RunRow
  <2>3. QED BY <1>1, <2>2 DEF TypeOK
<1>4. CASE RecordSuccess(w, a)
  BY <1>3, <1>4 DEF RecordSuccess, Transition, TypeOK, queueVars, dbVars, aiVars, scanVars, localVars, envVars
<1>5. CASE RecordFailure(w, a)
  BY <1>3, <1>5 DEF RecordFailure, Transition, TypeOK, queueVars, dbVars, aiVars, scanVars, localVars, envVars
<1>6. QED BY <1>4, <1>5

LEMMA RetryType ==
    ASSUME TypeOK, NEW w \in Workers, Retry(w) PROVE TypeOK'
<1>1. job[w] \in Attempts /\ job[w].retry < MaxRetries
  BY DEF Retry, MayRetry, TypeOK
<1>2. [job[w] EXCEPT !.retry = @ + 1] \in Attempts
  BY <1>1, NextAttempt
<1>3. crawlQ' \subseteq Attempts /\ sent' \subseteq Attempts
  BY <1>2 DEF Retry, TypeOK
<1>4. EndAttempt(w) /\ UNCHANGED <<dbVars, aiVars, envVars>>
  BY DEF Retry
<1>5. QED BY <1>3, <1>4, EndAttemptType DEF TypeOK, queueVars, dbVars, aiVars, scanVars, localVars, envVars

LEMMA AbandonType ==
    ASSUME TypeOK, NEW w \in Workers, Abandon(w) PROVE TypeOK'
<1>1. lost' \subseteq Change /\ faults' \in 0..MaxFaults
  BY ConstantsOK DEF Abandon, TypeOK
<1>2. EndAttempt(w) /\ UNCHANGED <<queueVars, dbVars, published, site, deletes>>
  BY DEF Abandon
<1>3. QED BY <1>1, <1>2, EndAttemptType DEF TypeOK, queueVars, dbVars, aiVars, scanVars, localVars, envVars

LEMMA TypeOKStep == TypeOK /\ [Next]_vars => TypeOK'
<1> SUFFICES ASSUME TypeOK, [Next]_vars PROVE TypeOK'
  OBVIOUS
<1>1. CASE Environment
  <2>1. ASSUME NEW p \in Posts, EditSite(p) PROVE TypeOK'
    BY <2>1, ConstantsOK DEF EditSite, TypeOK, queueVars, dbVars, aiVars, localVars
  <2>2. ASSUME NEW c \in Colleges, NEW K \in SUBSET Keys, DeleteNotices(c, K)
        PROVE  TypeOK'
    BY <2>2, ConstantsOK DEF DeleteNotices, NoRow, NoticeRow, TypeOK, queueVars,
                             aiVars, localVars
  <2>3. QED BY <1>1, <2>1, <2>2, SubmitCrawlType, RedeliverType DEF Environment
<1>2. ASSUME NEW w \in Workers, Work(w) PROVE TypeOK'
  <2> USE DEF TypeOK, Transition, queueVars, dbVars, aiVars, scanVars, envVars
  <2>1. ASSUME NEW a \in Attempts, Receive(w, a) PROVE TypeOK'
    BY <2>1, ConstantsOK DEF Receive
  <2>2. ASSUME OpenRun(w) PROVE TypeOK'
    BY <2>2, ConstantsOK DEF OpenRun, NoRun, RunRow
  <2>3a. ASSUME RefuseCollege(w) PROVE TypeOK'
    BY <2>3a, ConstantsOK DEF RefuseCollege
  <2>3b. ASSUME FetchLinksFails(w) PROVE TypeOK'
    BY <2>3b, ConstantsOK DEF FetchLinksFails
  <2>4. ASSUME NEW L \in SUBSET Posts, FetchLinks(w, L) PROVE TypeOK'
    BY <2>4, ConstantsOK DEF FetchLinks
  <2>5a. ASSUME NEW p \in Posts, SkipPost(w, p) PROVE TypeOK'
    BY <2>5a, ConstantsOK DEF SkipPost
  <2>5b. ASSUME NEW p \in Posts, ScrapeFails(w, p) PROVE TypeOK'
    BY <2>5b, ConstantsOK DEF ScrapeFails
  <2>6. ASSUME NEW h \in held[w], EnqueueAi(w, h) PROVE TypeOK'
    BY <2>6, ConstantsOK DEF EnqueueAi
  <2> HIDE DEF TypeOK, Transition, queueVars, dbVars, aiVars, scanVars, envVars
  <2>7. QED
    BY <1>2, <2>1, <2>2, <2>3a, <2>3b, <2>4, <2>5a, <2>5b, <2>6, EndingType, ScrapeType,
       UpsertType, RecordType, RetryType DEF Work, Proceed
<1>3. ASSUME NEW w \in Workers, Fault(w) PROVE TypeOK'
  BY <1>3, AbandonType DEF Fault, Crash, DbError, BrokerError
<1>4. CASE UNCHANGED vars
  BY <1>4 DEF vars, TypeOK
<1>5. QED BY <1>1, <1>2, <1>3, <1>4 DEF Next

(* Type correctness for every size of the system; that no attempt is        *)
(* numbered past max_retries is part of it.                                  *)
THEOREM TypeCorrect == Spec => []TypeOK
BY InitTypeOK, TypeOKStep, PTL DEF Spec
-------------------------------------------------------------------------------
(***************************************************************************)
(* The hand-off of changed rows.  Seen from the changes, a step of the      *)
(* system is one of four: it commits a batch, publishes one AI task,        *)
(* abandons an attempt, or touches no change at all.                        *)
(***************************************************************************)

Quiet == UNCHANGED <<writes, published, lost, held, faults>>

LEMMA EndingIsQuiet ==
    ASSUME TypeOK, NEW w \in Workers, EndAttempt(w), held[w] = {}
    PROVE  held' = held
BY DEF EndAttempt, TypeOK

LEMMA StepKinds ==
    ASSUME TypeOK, HandoffInv, Next
    PROVE  \/ Quiet
           \/ \E w \in Workers : Upsert(w)
           \/ \E w \in Workers : \E h \in held[w] : EnqueueAi(w, h)
           \/ \E w \in Workers : Abandon(w)
<1> USE DEF Quiet, queueVars, dbVars, aiVars, scanVars, localVars, envVars
<1>1. CASE Environment
  BY <1>1 DEF Environment, EditSite, SubmitCrawl, Redeliver, DeleteNotices
<1>2. ASSUME NEW w \in Workers, Fault(w) PROVE Abandon(w)
  BY <1>2 DEF Fault, Crash, DbError, BrokerError
<1>3. ASSUME NEW w \in Workers, Work(w)
      PROVE  \/ Quiet
             \/ Upsert(w)
             \/ \E h \in held[w] : EnqueueAi(w, h)
  <2>1. ASSUME UnknownCollege(w) \/ UpsertRefused(w) \/ Retry(w) \/ GiveUp(w)
               \/ Finish(w)
        PROVE  Quiet
    <3>1. held[w] = {}
      BY <2>1 DEF UnknownCollege, UpsertRefused, Retry, GiveUp, Finish, HandoffInv
    <3>2. /\ EndAttempt(w)
          /\ UNCHANGED <<writes, published, lost, faults>>
      BY <2>1 DEF UnknownCollege, UpsertRefused, Retry, GiveUp, Finish
    <3>3. QED BY <3>1, <3>2, EndingIsQuiet
  <2>2. CASE \E a \in Attempts : Receive(w, a)
    BY <2>2 DEF Receive
  <2>3. CASE OpenRun(w) \/ RefuseCollege(w) \/ FetchLinksFails(w)
    BY <2>3 DEF OpenRun, RefuseCollege, FetchLinksFails
  <2>4. CASE \E L \in SUBSET Posts : FetchLinks(w, L)
    BY <2>4 DEF FetchLinks
  <2>5. CASE \E p \in Posts : Scrape(w, p) \/ SkipPost(w, p) \/ ScrapeFails(w, p)
    BY <2>5 DEF Scrape, SkipPost, ScrapeFails
  <2>6. CASE \E a \in Attempts : RecordSuccess(w, a) \/ RecordFailure(w, a)
    BY <2>6 DEF RecordSuccess, RecordFailure
  <2>7. QED BY <1>3, <2>1, <2>2, <2>3, <2>4, <2>5, <2>6 DEF Work, Proceed
<1>4. QED BY <1>1, <1>2, <1>3 DEF Next

LEMMA HeldPhaseStep ==
    ASSUME TypeOK, HandoffInv, Next
    PROVE  \A v \in Workers : held'[v] # {} => pc'[v] \in {"record", "handoff"}
<1> SUFFICES ASSUME NEW v \in Workers, held'[v] # {}
             PROVE  pc'[v] \in {"record", "handoff"}
  OBVIOUS
<1> USE DEF TypeOK, HandoffInv, Transition, EndAttempt
<1>1. CASE Environment
  BY <1>1 DEF Environment, EditSite, SubmitCrawl, Redeliver, DeleteNotices,
              localVars
<1>2. ASSUME NEW w \in Workers, Fault(w) PROVE pc'[v] \in {"record", "handoff"}
  BY <1>2 DEF Fault, Crash, DbError, BrokerError, Abandon
<1>3. ASSUME NEW w \in Workers, Work(w) PROVE pc'[v] \in {"record", "handoff"}
  <2>1. CASE UnknownCollege(w) \/ UpsertRefused(w) \/ Retry(w) \/ GiveUp(w)
             \/ Finish(w)
    BY <2>1 DEF UnknownCollege, UpsertRefused, Retry, GiveUp, Finish
  <2>2. CASE \E a \in Attempts : Receive(w, a)
    BY <2>2 DEF Receive
  <2>3. CASE OpenRun(w) \/ RefuseCollege(w) \/ FetchLinksFails(w)
    BY <2>3 DEF OpenRun, RefuseCollege, FetchLinksFails
  <2>4. CASE \E L \in SUBSET Posts : FetchLinks(w, L)
    BY <2>4 DEF FetchLinks
  <2>5. CASE \E p \in Posts : Scrape(w, p) \/ SkipPost(w, p) \/ ScrapeFails(w, p)
    BY <2>5 DEF Scrape, SkipPost, ScrapeFails
  <2>6. CASE \E a \in Attempts : RecordSuccess(w, a) \/ RecordFailure(w, a)
    BY <2>6 DEF RecordSuccess, RecordFailure
  <2>7. CASE Upsert(w)
    BY <2>7 DEF Upsert
  <2>8. CASE \E h \in held[w] : EnqueueAi(w, h)
    BY <2>8 DEF EnqueueAi
  <2>9. QED
    BY <1>3, <2>1, <2>2, <2>3, <2>4, <2>5, <2>6, <2>7, <2>8 DEF Work, Proceed
<1>4. QED BY <1>1, <1>2, <1>3 DEF Next

LEMMA QuietHandoff ==
    ASSUME HandoffInv, Quiet
    PROVE  HandoffTracked' /\ HandoffOnce'
BY DEF HandoffInv, HandoffTracked, HandoffOnce, Committed, InFlight, Quiet

(* What the committing statement returns: one change per key it writes, the  *)
(* write after the last one.                                                 *)
LEMMA ReturnedChanges ==
    ASSUME TypeOK, NEW w \in Workers
    PROVE  /\ \A h \in Returned(batch[w]) :
                 h.key \in Touched(batch[w]) /\ h.rev = writes[h.key] + 1
           /\ \A k \in Touched(batch[w]) : \E h \in Returned(batch[w]) : h.key = k
           /\ \A g, h \in Returned(batch[w]) : g.key = h.key => g = h
<1> DEFINE b == batch[w]
           T == Touched(b)
           R == {[key |-> k, id |-> RowAfter(k, b).id, rev |-> RowAfter(k, b).rev] :
                    k \in T}
<1>1. Returned(b) = R
  BY DEF Returned
<1>2. \A k \in T : RowAfter(k, b).rev = writes[k] + 1
  BY RowAfterType
<1> HIDE DEF b, T
<1>3. \A h \in R : h.key \in T /\ h.rev = writes[h.key] + 1
  BY <1>2
<1>4. ASSUME NEW k \in T PROVE \E h \in R : h.key = k
  <2> DEFINE h == [key |-> k, id |-> RowAfter(k, b).id, rev |-> RowAfter(k, b).rev]
  <2>1. h \in R /\ h.key = k
    OBVIOUS
  <2>2. QED BY <2>1
<1>5. \A g, h \in R : g.key = h.key => g = h
  OBVIOUS
<1>6. QED BY <1>1, <1>3, <1>4, <1>5 DEF b, T

LEMMA UpsertCommits ==
    ASSUME TypeOK, HandoffInv, NEW w \in Workers, Upsert(w)
    PROVE  /\ held[w] = {}
           /\ held' = [held EXCEPT ![w] = Returned(batch[w])]
           /\ UNCHANGED <<published, lost, faults>>
           /\ Committed' = Committed \union Returned(batch[w])
           /\ \A h \in Committed : h.rev \in 1..writes[h.key] /\ h.key \in Keys
           /\ Returned(batch[w]) \intersect Committed = {}
<1>1. held[w] = {}
  BY DEF Upsert, Transition, HandoffInv
<1>2. held' = [held EXCEPT ![w] = Returned(batch[w])]
      /\ UNCHANGED <<published, lost, faults>>
  BY DEF Upsert, aiVars, envVars
<1>3. InFlight' = InFlight \union Returned(batch[w])
  BY <1>1, <1>2 DEF InFlight, TypeOK
<1>4. Committed' = Committed \union Returned(batch[w])
  BY <1>2, <1>3 DEF Committed
<1>5. \A h \in Committed : h.rev \in 1..writes[h.key] /\ h.key \in Keys
  BY DEF HandoffInv, HandoffOnce, TypeOK, Committed, InFlight, Change
<1>6. Returned(batch[w]) \intersect Committed = {}
  BY <1>5, ReturnedChanges DEF TypeOK
<1>7. QED BY <1>1, <1>2, <1>4, <1>5, <1>6

LEMMA UpsertHandoff ==
    ASSUME TypeOK, HandoffInv, NEW w \in Workers, Upsert(w)
    PROVE  HandoffTracked' /\ HandoffOnce'
<1> DEFINE R == Returned(batch[w])
           T == Touched(batch[w])
<1>0. \A k \in Keys : writes'[k] = IF k \in T THEN writes[k] + 1 ELSE writes[k]
  BY DEF Upsert
<1>1. /\ \A h \in R : h.key \in T /\ h.rev = writes[h.key] + 1
      /\ \A k \in T : \E h \in R : h.key = k
      /\ \A g, h \in R : g.key = h.key => g = h
  BY ReturnedChanges
<1>2. T \subseteq Keys /\ writes \in [Keys -> Nat]
  BY DEF Touched, Payloads, TypeOK
<1>3. /\ held[w] = {}
      /\ held' = [held EXCEPT ![w] = R]
      /\ UNCHANGED <<published, lost, faults>>
      /\ Committed' = Committed \union R
      /\ \A h \in Committed : h.rev \in 1..writes[h.key] /\ h.key \in Keys
      /\ R \intersect Committed = {}
  BY UpsertCommits
<1> HIDE DEF R, T
<1>4. HandoffTracked'
  <2>1. ASSUME NEW k \in Keys, NEW n \in 1..writes'[k]
        PROVE  \E h \in Committed' : h.key = k /\ h.rev = n
    <3>1. CASE n \in 1..writes[k]
      BY <3>1, <1>3 DEF HandoffInv, HandoffTracked
    <3>2. CASE n \notin 1..writes[k]
      <4>1. k \in T /\ n = writes[k] + 1
        BY <3>2, <1>0, <1>2
      <4>2. QED BY <4>1, <1>1, <1>3
    <3>3. QED BY <3>1, <3>2
  <2>2. QED BY <2>1, <1>3 DEF HandoffTracked, HandoffInv
<1>5. HandoffOnce'
  <2>1. \A v \in Workers : held'[v] = IF v = w THEN R ELSE held[v]
    BY <1>3 DEF TypeOK
  <2>2. \A v \in Workers : held[v] \subseteq Committed
    BY DEF Committed, InFlight
  <2>3. \A v \in Workers : held'[v] \intersect (published' \union lost') = {}
    BY <2>1, <1>3 DEF HandoffInv, HandoffOnce, Committed
  <2>4. \A u, v \in Workers : u # v => held'[u] \intersect held'[v] = {}
    BY <2>1, <2>2, <1>3 DEF HandoffInv, HandoffOnce
  <2>5. published' \intersect lost' = {}
    BY <1>3 DEF HandoffInv, HandoffOnce
  <2>6. \A h \in Committed' : h.rev \in 1..writes'[h.key]
    BY <1>0, <1>1, <1>2, <1>3
  <2>7. \A g, h \in Committed' : g.key = h.key /\ g.rev = h.rev => g = h
    <3>1. ASSUME NEW g \in R, NEW h \in Committed, g.key = h.key
          PROVE  g.rev # h.rev
      BY <3>1, <1>1, <1>2, <1>3
    <3>2. QED BY <3>1, <1>1, <1>3 DEF HandoffInv, HandoffOnce
  <2>8. QED BY <2>3, <2>4, <2>5, <2>6, <2>7 DEF HandoffOnce
<1>6. QED BY <1>4, <1>5

LEMMA EnqueueMoves ==
    ASSUME TypeOK, HandoffInv, NEW w \in Workers, NEW h \in held[w], EnqueueAi(w, h)
    PROVE  /\ held' = [held EXCEPT ![w] = @ \ {h}]
           /\ published' = published \union {h}
           /\ UNCHANGED <<writes, lost, faults>>
           /\ Committed' = Committed
           /\ h \in Committed \ (published \union lost)
<1>1. /\ held' = [held EXCEPT ![w] = @ \ {h}]
      /\ published' = published \union {h}
      /\ UNCHANGED <<writes, lost, faults>>
  BY DEF EnqueueAi, dbVars, envVars
<1>2. InFlight' \union {h} = InFlight
  <2>1. InFlight' \union {h} \subseteq InFlight
    BY <1>1 DEF InFlight, TypeOK
  <2>2. InFlight \subseteq InFlight' \union {h}
    BY <1>1 DEF InFlight, TypeOK
  <2>3. QED BY <2>1, <2>2
<1>3. QED BY <1>1, <1>2 DEF Committed, InFlight, HandoffInv, HandoffOnce

LEMMA EnqueueHandoff ==
    ASSUME TypeOK, HandoffInv, NEW w \in Workers, NEW h \in held[w], EnqueueAi(w, h)
    PROVE  HandoffTracked' /\ HandoffOnce'
<1>1. /\ published' = published \union {h}
      /\ UNCHANGED <<writes, lost, faults>>
      /\ Committed' = Committed
      /\ h \in Committed \ (published \union lost)
  BY EnqueueMoves
<1>2. \A v \in Workers : held'[v] = IF v = w THEN held[v] \ {h} ELSE held[v]
  <2>1. held' = [held EXCEPT ![w] = @ \ {h}]
    BY EnqueueMoves
  <2>2. QED BY <2>1 DEF TypeOK
<1>3. \A v \in Workers : h \notin held'[v]
  BY <1>2 DEF HandoffInv, HandoffOnce
<1>4. HandoffTracked'
  BY <1>1 DEF HandoffInv, HandoffTracked
<1>5. HandoffOnce'
  <2>1. \A v \in Workers : held'[v] \subseteq held[v]
    BY <1>2
  <2>2. \A v \in Workers : held'[v] \intersect (published' \union lost') = {}
    BY <1>1, <1>3, <2>1 DEF HandoffInv, HandoffOnce
  <2>3. \A u, v \in Workers : u # v => held'[u] \intersect held'[v] = {}
    BY <2>1 DEF HandoffInv, HandoffOnce
  <2>4. published' \intersect lost' = {}
    BY <1>1 DEF HandoffInv, HandoffOnce
  <2>5. /\ \A g \in Committed' : g.rev \in 1..writes'[g.key]
        /\ \A f, g \in Committed' : f.key = g.key /\ f.rev = g.rev => f = g
    BY <1>1 DEF HandoffInv, HandoffOnce
  <2>6. QED BY <2>2, <2>3, <2>4, <2>5 DEF HandoffOnce
<1>6. QED BY <1>4, <1>5

LEMMA AbandonMoves ==
    ASSUME TypeOK, HandoffInv, NEW w \in Workers, Abandon(w)
    PROVE  /\ held' = [held EXCEPT ![w] = {}]
           /\ lost' = lost \union held[w]
           /\ UNCHANGED <<writes, published>>
           /\ faults' # 0
           /\ Committed' = Committed
           /\ held[w] \subseteq Committed \ (published \union lost)
<1>1. /\ held' = [held EXCEPT ![w] = {}]
      /\ lost' = lost \union held[w]
      /\ UNCHANGED <<writes, published>>
      /\ faults' # 0
  BY DEF Abandon, EndAttempt, dbVars, TypeOK
<1>2. InFlight' \union held[w] = InFlight
  <2>1. InFlight' \union held[w] \subseteq InFlight
    BY <1>1 DEF InFlight, TypeOK
  <2>2. InFlight \subseteq InFlight' \union held[w]
    BY <1>1 DEF InFlight, TypeOK
  <2>3. QED BY <2>1, <2>2
<1>3. QED BY <1>1, <1>2 DEF Committed, InFlight, HandoffInv, HandoffOnce

LEMMA AbandonHandoff ==
    ASSUME TypeOK, HandoffInv, NEW w \in Workers, Abandon(w)
    PROVE  HandoffTracked' /\ HandoffOnce'
<1>0. held \in [Workers -> SUBSET Change]
  BY DEF TypeOK
<1>1. /\ held' = [held EXCEPT ![w] = {}]
      /\ lost' = lost \union held[w]
      /\ UNCHANGED <<writes, published>>
      /\ faults' # 0
      /\ Committed' = Committed
      /\ held[w] \subseteq Committed \ (published \union lost)
  BY AbandonMoves
<1>2. \A v \in Workers : held'[v] = IF v = w THEN {} ELSE held[v]
  BY ONLY <1>0, <1>1, w \in Workers
<1>3. HandoffTracked'
  BY <1>1 DEF HandoffInv, HandoffTracked
<1>4. HandoffOnce'
  BY <1>1, <1>2 DEF HandoffInv, HandoffOnce
<1>5. QED BY <1>3, <1>4

LEMMA InitHandoff == Init => HandoffInv
BY DEF Init, HandoffInv, HandoffTracked, HandoffOnce, Committed, InFlight

LEMMA HandoffStep == TypeOK /\ HandoffInv /\ [Next]_vars => HandoffInv'
<1> SUFFICES ASSUME TypeOK, HandoffInv, [Next]_vars PROVE HandoffInv'
  OBVIOUS
<1>1. CASE Next
  <2>1. HandoffTracked' /\ HandoffOnce'
    BY <1>1, StepKinds, QuietHandoff, UpsertHandoff, EnqueueHandoff, AbandonHandoff
  <2>2. \A v \in Workers : held'[v] # {} => pc'[v] \in {"record", "handoff"}
    BY <1>1, HeldPhaseStep
  <2>3. QED BY <2>1, <2>2 DEF HandoffInv
<1>2. CASE UNCHANGED vars
  <2>1. Quiet
    BY <1>2 DEF vars, Quiet
  <2>2. QED BY <2>1, <1>2, QuietHandoff DEF vars, HandoffInv
<1>3. QED BY <1>1, <1>2

(* The bookkeeping of changes is right in every reachable state.             *)
THEOREM HandoffInvariant == Spec => []HandoffInv
BY InitHandoff, HandoffStep, TypeCorrect, PTL DEF Spec

(* Every write of a notice row is published, held by a live attempt, or lost *)
(* to a failure; without a failure nothing is lost.                          *)
THEOREM HandoffIsTracked == Spec => []HandoffTracked
BY HandoffInvariant, PTL DEF HandoffInv

(* Crawls that overlap and attempts that repeat never hand one write over    *)
(* twice.                                                                    *)
THEOREM HandoffAtMostOnce == Spec => []HandoffOnce
BY HandoffInvariant, PTL DEF HandoffInv
-------------------------------------------------------------------------------
(***************************************************************************)
(* What the AI task reads.  Only the upsert and the rerun script change     *)
(* table notices, and only the upsert adds to the changes.                  *)
(***************************************************************************)

LEMMA CommittedGrows ==
    ASSUME TypeOK, HandoffInv, Next
    PROVE  Committed' = Committed \/ \E w \in Workers : Upsert(w)
<1>1. Quiet => Committed' = Committed
  BY DEF Quiet, Committed, InFlight
<1>2. QED BY <1>1, StepKinds, EnqueueMoves, AbandonMoves

LEMMA NoticesChange ==
    ASSUME Next
    PROVE  \/ UNCHANGED <<notices, deletes>>
           \/ \E w \in Workers : Upsert(w)
           \/ \E c \in Colleges : \E K \in SUBSET Keys : DeleteNotices(c, K)
<1> USE DEF queueVars, dbVars, aiVars, scanVars, localVars, envVars
<1>1. CASE Environment
  BY <1>1 DEF Environment, EditSite, SubmitCrawl, Redeliver
<1>2. ASSUME NEW w \in Workers, Fault(w) PROVE UNCHANGED <<notices, deletes>>
  BY <1>2 DEF Fault, Crash, DbError, BrokerError, Abandon
<1>3. ASSUME NEW w \in Workers, Work(w)
      PROVE  UNCHANGED <<notices, deletes>> \/ Upsert(w)
  <2>1. CASE UnknownCollege(w) \/ UpsertRefused(w) \/ Retry(w) \/ GiveUp(w)
             \/ Finish(w)
    BY <2>1 DEF UnknownCollege, UpsertRefused, Retry, GiveUp, Finish
  <2>2. CASE \E a \in Attempts : Receive(w, a)
    BY <2>2 DEF Receive
  <2>3. CASE OpenRun(w) \/ RefuseCollege(w) \/ FetchLinksFails(w)
    BY <2>3 DEF OpenRun, RefuseCollege, FetchLinksFails
  <2>4. CASE \E L \in SUBSET Posts : FetchLinks(w, L)
    BY <2>4 DEF FetchLinks
  <2>5. CASE \E p \in Posts : Scrape(w, p) \/ SkipPost(w, p) \/ ScrapeFails(w, p)
    BY <2>5 DEF Scrape, SkipPost, ScrapeFails
  <2>6. CASE \E a \in Attempts : RecordSuccess(w, a) \/ RecordFailure(w, a)
    BY <2>6 DEF RecordSuccess, RecordFailure
  <2>7. CASE \E h \in held[w] : EnqueueAi(w, h)
    BY <2>7 DEF EnqueueAi
  <2>8. QED BY <1>3, <2>1, <2>2, <2>3, <2>4, <2>5, <2>6, <2>7 DEF Work, Proceed
<1>4. QED BY <1>1, <1>2, <1>3 DEF Next

(* Its rows have the ids and versions of the changes it returns.             *)
LEMMA ReturnedRows ==
    ASSUME TypeOK, NEW w \in Workers
    PROVE  /\ \A h \in Returned(batch[w]) :
                 h.key \in Touched(batch[w]) /\ h.id = RowAfter(h.key, batch[w]).id
           /\ \A k \in Touched(batch[w]) :
                 [key |-> k, id |-> RowAfter(k, batch[w]).id,
                  rev |-> RowAfter(k, batch[w]).rev] \in Returned(batch[w])
BY DEF Returned

LEMMA UpsertAiReads ==
    ASSUME TypeOK, HandoffInv, AiReadsCurrent, NEW w \in Workers, Upsert(w)
    PROVE  AiReadsCurrent'
<1> DEFINE b == batch[w]
           R == Returned(b)
           T == Touched(b)
<1>1. \A k \in Keys : notices'[k] = IF k \in T THEN RowAfter(k, b) ELSE notices[k]
  BY DEF Upsert
<1>2. /\ \A h \in R : /\ h.key \in T
                      /\ h.id = RowAfter(h.key, b).id
                      /\ h.rev = writes[h.key] + 1
      /\ \A k \in T : [key |-> k, id |-> RowAfter(k, b).id,
                       rev |-> RowAfter(k, b).rev] \in R
  BY ReturnedRows, ReturnedChanges
<1>3. /\ Committed' = Committed \union R
      /\ \A h \in Committed : h.rev \in 1..writes[h.key] /\ h.key \in Keys
  BY UpsertCommits
<1>4. T \subseteq Keys /\ writes \in [Keys -> Nat] /\ notices \in [Keys -> NoticeRow]
  BY DEF Touched, Payloads, TypeOK
<1>5. \A k \in T : /\ RowAfter(k, b).rev = writes[k] + 1
                   /\ IF notices[k] = NoRow
                      THEN RowAfter(k, b).id = writes[k] + 1
                      ELSE RowAfter(k, b).id = notices[k].id
  BY DEF RowAfter
<1>6. deletes' = deletes
  BY DEF Upsert, envVars
<1>7. \A k \in Keys : notices[k] # NoRow => notices[k].id > 0
  BY <1>4, <1>3 DEF AiReadsCurrent
<1> HIDE DEF b, R, T
<1>8. \A k \in T : RowAfter(k, b).id > 0
  BY <1>4, <1>5, <1>7
<1>9. ASSUME NEW h \in Committed'
      PROVE  /\ h.id > 0
             /\ TaskFinds(h)' => notices'[h.key].rev >= h.rev
             /\ deletes' = 0 => TaskFinds(h)'
  <2>1. CASE h \in R
    BY <2>1, <1>1, <1>2, <1>4, <1>5, <1>8 DEF TaskFinds
  <2>2. CASE h \in Committed /\ h.key \in T
    <3>1. /\ h.id > 0 /\ h.key \in Keys /\ h.rev \in 1..writes[h.key]
          /\ deletes = 0 => notices[h.key].id = h.id
      BY <2>2, <1>3 DEF AiReadsCurrent, TaskFinds
    <3>2. /\ notices'[h.key].rev = writes[h.key] + 1
          /\ notices[h.key] # NoRow => notices'[h.key].id = notices[h.key].id
      BY <2>2, <3>1, <1>1, <1>5
    <3>3. notices[h.key] = NoRow => deletes # 0
      BY <3>1 DEF NoRow
    <3>4. QED BY <3>1, <3>2, <3>3, <1>4, <1>6 DEF TaskFinds
  <2>3. CASE h \in Committed /\ h.key \notin T
    <3>1. notices'[h.key] = notices[h.key]
      BY <2>3, <1>1, <1>3
    <3>2. QED BY <2>3, <3>1, <1>6 DEF AiReadsCurrent, TaskFinds
  <2>4. QED BY <2>1, <2>2, <2>3, <1>3
<1>10. ASSUME NEW k \in Keys, notices'[k] # NoRow
       PROVE  [key |-> k, id |-> notices'[k].id, rev |-> notices'[k].rev] \in Committed'
  <2>1. CASE k \in T
    BY <2>1, <1>1, <1>2, <1>3
  <2>2. CASE k \notin T
    BY <2>2, <1>10, <1>1, <1>3 DEF AiReadsCurrent
  <2>3. QED BY <2>1, <2>2
<1>11. QED BY <1>9, <1>10 DEF AiReadsCurrent

LEMMA AiReadsStep ==
    TypeOK /\ HandoffInv /\ AiReadsCurrent /\ [Next]_vars => AiReadsCurrent'
<1> SUFFICES ASSUME TypeOK, HandoffInv, AiReadsCurrent, [Next]_vars
             PROVE  AiReadsCurrent'
  OBVIOUS
<1>1. CASE UNCHANGED <<notices, deletes>> /\ Committed' = Committed
  BY <1>1 DEF AiReadsCurrent, TaskFinds
<1>2. ASSUME NEW c \in Colleges, NEW K \in SUBSET Keys, DeleteNotices(c, K),
             Committed' = Committed
      PROVE  AiReadsCurrent'
  <2>1. /\ \A k \in Keys : notices'[k] = IF k \in K THEN NoRow ELSE notices[k]
        /\ deletes' # 0
    BY <1>2 DEF DeleteNotices, TypeOK
  <2>2. \A h \in Committed : h.key \in Keys
    BY DEF TypeOK, Committed, InFlight, Change
  <2>3. NoRow.id = 0
    BY DEF NoRow
  <2>4. QED BY <1>2, <2>1, <2>2, <2>3 DEF AiReadsCurrent, TaskFinds
<1>3. CASE Next
  <2>1. ASSUME NEW c \in Colleges, NEW K \in SUBSET Keys, DeleteNotices(c, K)
        PROVE  Committed' = Committed
    BY <2>1 DEF DeleteNotices, aiVars, localVars, Committed, InFlight
  <2>2. QED BY <1>1, <1>2, <1>3, <2>1, NoticesChange, CommittedGrows, UpsertAiReads
<1>4. CASE UNCHANGED vars
  BY <1>1, <1>4 DEF vars, Committed, InFlight
<1>5. QED BY <1>3, <1>4

LEMMA InitAiReads == Init => AiReadsCurrent
BY DEF Init, AiReadsCurrent, Committed, InFlight

(* An AI task finds its notice unless the rerun script has deleted it, never *)
(* reads a version older than its change, and no stored version is without   *)
(* one.                                                                      *)
THEOREM AiTaskReads == Spec => []AiReadsCurrent
BY InitAiReads, AiReadsStep, TypeCorrect, HandoffInvariant, PTL DEF Spec
-------------------------------------------------------------------------------
(***************************************************************************)
(* Refinement: the pipeline implements ChangeFeed.                         *)
(***************************************************************************)

LEMMA InitFeed == Init => Feed!Init
BY DEF Init, Feed!Init, Committed, InFlight

LEMMA CommittedType == TypeOK => Committed \subseteq Change
BY DEF TypeOK, Committed, InFlight

LEMMA FeedStep ==
    TypeOK /\ TypeOK' /\ HandoffInv /\ [Next]_vars => [Feed!Next]_(Feed!feedVars)
<1> SUFFICES ASSUME TypeOK, TypeOK', HandoffInv, [Next]_vars
             PROVE  [Feed!Next]_(Feed!feedVars)
  OBVIOUS
<1>1. CASE Quiet
  BY <1>1 DEF Quiet, Committed, InFlight, Feed!feedVars
<1>2. ASSUME NEW w \in Workers, Upsert(w) PROVE Feed!Commit
  <2>1. Committed \subseteq Committed' /\ UNCHANGED <<published, lost>>
    BY <1>2, UpsertCommits
  <2>2. Committed' \subseteq Change
    BY CommittedType, TypeOK' DEF TypeOK, Committed, InFlight
  <2>3. QED BY <2>1, <2>2 DEF Feed!Commit
<1>3. ASSUME NEW w \in Workers, NEW h \in held[w], EnqueueAi(w, h)
      PROVE  h \in Committed /\ Feed!Deliver(h)
  BY <1>3, EnqueueMoves DEF Feed!Deliver, Feed!Settled
<1>4. ASSUME NEW w \in Workers, Abandon(w)
      PROVE  held[w] \in SUBSET Committed /\ Feed!Drop(held[w])
  BY <1>4, AbandonMoves DEF Feed!Drop, Feed!Settled
<1>5. CASE UNCHANGED vars
  BY <1>5 DEF vars, Committed, InFlight, Feed!feedVars
<1>6. QED BY <1>1, <1>2, <1>3, <1>4, <1>5, StepKinds DEF Feed!Next

(* The crawl pipeline implements the change feed: whatever the interleaving  *)
(* of workers, retries and failures, a change becomes due once and is        *)
(* settled once, and only a change that was committed is published.          *)
THEOREM ImplementsFeed == Spec => FeedSpec
<1>1. Spec => [](TypeOK /\ HandoffInv)
  BY TypeCorrect, HandoffInvariant, PTL
<1>2. QED BY <1>1, InitFeed, FeedStep, PTL DEF Spec, FeedSpec, Feed!Spec
-------------------------------------------------------------------------------
(***************************************************************************)
(* Attempts of one delivery are sequential, and a recorded success stays.  *)
(***************************************************************************)

LineInv ==
    /\ OneLivePerLine
    /\ crawlQ \subseteq sent
    /\ \A w \in Workers : job[w] # NoJob => job[w] \in sent
    /\ \A a \in Attempts : runs[a].status # "none" => a \in sent

(* Seen from messages and attempts, a step publishes a message, delivers     *)
(* one, replaces an attempt by its retry, or at most ends an attempt.        *)
Endings ==
    /\ UNCHANGED <<crawlQ, sent>>
    /\ \A v \in Workers : job'[v] \in {job[v], NoJob}

LEMMA LineKinds ==
    ASSUME TypeOK, Next
    PROVE  \/ Endings
           \/ \E t \in Tasks : SubmitCrawl(t)
           \/ \E a \in Attempts : Redeliver(a)
           \/ \E w \in Workers, a \in Attempts : Receive(w, a)
           \/ \E w \in Workers : Retry(w)
<1> USE DEF Endings, TypeOK, EndAttempt, queueVars, localVars, scanVars
<1>1. CASE Environment
  BY <1>1 DEF Environment, EditSite, DeleteNotices
<1>2. ASSUME NEW w \in Workers, Fault(w) PROVE Endings
  BY <1>2 DEF Fault, Crash, DbError, BrokerError, Abandon
<1>3. ASSUME NEW w \in Workers, Work(w)
      PROVE  Endings \/ Retry(w) \/ \E a \in Attempts : Receive(w, a)
  <2>1. CASE UnknownCollege(w) \/ UpsertRefused(w) \/ GiveUp(w) \/ Finish(w)
    BY <2>1 DEF UnknownCollege, UpsertRefused, GiveUp, Finish
  <2>2. CASE OpenRun(w) \/ RefuseCollege(w) \/ FetchLinksFails(w)
    BY <2>2 DEF OpenRun, RefuseCollege, FetchLinksFails
  <2>3. CASE \E L \in SUBSET Posts : FetchLinks(w, L)
    BY <2>3 DEF FetchLinks
  <2>4. CASE \E p \in Posts : Scrape(w, p) \/ SkipPost(w, p) \/ ScrapeFails(w, p)
    BY <2>4 DEF Scrape, SkipPost, ScrapeFails
  <2>5. CASE \E a \in Attempts : RecordSuccess(w, a) \/ RecordFailure(w, a)
    BY <2>5 DEF RecordSuccess, RecordFailure
  <2>6. CASE Upsert(w)
    BY <2>6 DEF Upsert
  <2>7. CASE \E h \in held[w] : EnqueueAi(w, h)
    BY <2>7 DEF EnqueueAi
  <2>8. QED BY <1>3, <2>1, <2>2, <2>3, <2>4, <2>5, <2>6, <2>7 DEF Work, Proceed
<1>4. QED BY <1>1, <1>2, <1>3 DEF Next

(* Only an attempt that begins or ends writes to crawl_runs.                 *)
LEMMA RunsKinds ==
    ASSUME Next
    PROVE  \/ UNCHANGED runs
           \/ \E w \in Workers : OpenRun(w)
           \/ \E w \in Workers, b \in Attempts : RecordSuccess(w, b) \/ RecordFailure(w, b)
<1> USE DEF dbVars
<1>1. CASE Environment
  BY <1>1 DEF Environment, EditSite, SubmitCrawl, Redeliver, DeleteNotices
<1>2. ASSUME NEW w \in Workers, Fault(w) PROVE UNCHANGED runs
  BY <1>2 DEF Fault, Crash, DbError, BrokerError, Abandon
<1>3. ASSUME NEW w \in Workers, Work(w)
      PROVE  UNCHANGED runs \/ OpenRun(w)
               \/ \E b \in Attempts : RecordSuccess(w, b) \/ RecordFailure(w, b)
  BY <1>3 DEF Work, Proceed, Receive, UnknownCollege, RefuseCollege, FetchLinks,
              FetchLinksFails, Scrape, SkipPost, ScrapeFails, Upsert, UpsertRefused,
              Retry, GiveUp, EnqueueAi, Finish
<1>4. QED BY <1>1, <1>2, <1>3 DEF Next

(* What a step does to crawl_runs: a row appears for an attempt that runs,   *)
(* and only RecordSuccess makes a row a success.                             *)
LEMMA RunsStep ==
    ASSUME TypeOK, Next
    PROVE  /\ \A a \in Attempts : runs'[a].status # "none" =>
                 \/ runs[a].status # "none"
                 \/ \E w \in Workers : job[w] # NoJob /\ a = job[w]
           /\ \/ \A a \in Attempts :
                    runs'[a].status = "success" => runs[a].status = "success"
              \/ \E w \in Workers, a \in Attempts : RecordSuccess(w, a)
           /\ \A a \in Attempts : runs[a].status = "success" =>
                 \/ runs'[a].status = "success"
                 \/ \E w \in Workers : /\ job[w] # NoJob /\ pc[w] # "handoff"
                                       /\ job[w].task = a.task
<1>1. CASE UNCHANGED runs
  BY <1>1
<1>2. CASE \E w \in Workers : OpenRun(w)
  <2>1. PICK w \in Workers : OpenRun(w)
    BY <1>2
  <2>2. /\ job[w] # NoJob /\ pc[w] = "start"
        /\ runs' = [runs EXCEPT ![job[w]] = [NoRun EXCEPT !.status = "running"]]
    BY <2>1 DEF OpenRun, Transition, TypeOK
  <2>3. \A a \in Attempts : runs'[a] = IF a = job[w] THEN [NoRun EXCEPT !.status = "running"]
                                                      ELSE runs[a]
    BY <2>2 DEF TypeOK
  <2>4. [NoRun EXCEPT !.status = "running"].status = "running"
    BY DEF NoRun
  <2>5. QED BY <2>2, <2>3, <2>4
<1>3. ASSUME NEW w \in Workers, NEW b \in Attempts, RecordSuccess(w, b)
      PROVE  \A a \in Attempts :
                /\ runs'[a].status # "none" => runs[a].status # "none"
                /\ runs[a].status = "success" => runs'[a].status = "success"
  <2>1. runs[b].status # "none"
    BY <1>3 DEF RecordSuccess, RowsOf
  <2>2. \A a \in Attempts : runs'[a] = IF a = b
              THEN [runs[b] EXCEPT !.status = "success",
                                   !.upserted = Cardinality(Payloads(batch[w]))]
              ELSE runs[a]
    BY <1>3 DEF RecordSuccess, TypeOK
  <2>3. \A n : [runs[b] EXCEPT !.status = "success", !.upserted = n].status = "success"
    BY DEF TypeOK, RunRow
  <2>4. QED BY <2>1, <2>2, <2>3
<1>4. ASSUME NEW w \in Workers, NEW b \in Attempts, RecordFailure(w, b)
      PROVE  /\ job[w] # NoJob /\ pc[w] # "handoff" /\ job[w].task = b.task
             /\ \A a \in Attempts :
                  /\ runs'[a].status # "none" => runs[a].status # "none"
                  /\ runs'[a].status = "success" => runs[a].status = "success"
                  /\ a # b => runs'[a] = runs[a]
  <2>1. /\ runs[b].status # "none" /\ job[w].task = b.task
        /\ job[w] # NoJob /\ pc[w] = "fail"
    BY <1>4 DEF RecordFailure, RowsOf, Transition, TypeOK
  <2>2. \A a \in Attempts : runs'[a] = IF a = b
              THEN [runs[b] EXCEPT !.status = "failed", !.error = TRUE] ELSE runs[a]
    BY <1>4 DEF RecordFailure, TypeOK
  <2>3. [runs[b] EXCEPT !.status = "failed", !.error = TRUE].status = "failed"
    BY DEF TypeOK, RunRow
  <2>4. QED BY <2>1, <2>2, <2>3
<1>5. QED BY <1>1, <1>2, <1>3, <1>4, RunsKinds

LEMMA InitLine == Init => LineInv
BY DEF Init, LineInv, OneLivePerLine, NoRun

LEMMA LineStep == TypeOK /\ LineInv /\ [Next]_vars => LineInv'
<1> SUFFICES ASSUME TypeOK, LineInv, [Next]_vars PROVE LineInv'
  OBVIOUS
<1> DEFINE Lines ==
        /\ OneLivePerLine' /\ crawlQ' \subseteq sent' /\ sent \subseteq sent'
        /\ \A w \in Workers : job'[w] # NoJob => job'[w] \in sent'
<1> USE DEF OneLivePerLine, SameLine
<1>1. CASE Next
  <2>1. Lines
    <3>1. CASE Endings
      BY <3>1 DEF Endings, LineInv
    <3>2. ASSUME NEW t \in Tasks, SubmitCrawl(t) PROVE Lines
      <4> DEFINE first == [task |-> t, retry |-> 0, copy |-> 1]
      <4>1. /\ \A a \in sent : a.task # t
            /\ crawlQ' = crawlQ \union {first} /\ sent' = sent \union {first}
            /\ first.task = t
            /\ UNCHANGED job
        BY <3>2 DEF SubmitCrawl, localVars
      <4> HIDE DEF first
      <4>2. QED BY <4>1 DEF LineInv
    <3>3. ASSUME NEW a \in Attempts, Redeliver(a) PROVE Lines
      <4> DEFINE again == [a EXCEPT !.copy = @ + 1]
      <4>1. /\ a \in crawlQ
            /\ \A b \in sent : b.task = a.task => b.copy # again.copy
            /\ crawlQ' = crawlQ \union {again} /\ sent' = sent \union {again}
            /\ again.task = a.task
            /\ UNCHANGED job
        BY <3>3, NextCopy DEF Redeliver, localVars
      <4> HIDE DEF again
      <4>2. QED BY <4>1 DEF LineInv
    <3>4. ASSUME NEW w \in Workers, NEW a \in Attempts, Receive(w, a) PROVE Lines
      <4>1. /\ a \in crawlQ /\ crawlQ' = crawlQ \ {a} /\ UNCHANGED sent
            /\ \A v \in Workers : job'[v] = IF v = w THEN a ELSE job[v]
        BY <3>4 DEF Receive, TypeOK
      <4>2. QED BY <4>1 DEF LineInv
    <3>5. ASSUME NEW w \in Workers, Retry(w) PROVE Lines
      <4> DEFINE next == [job[w] EXCEPT !.retry = @ + 1]
      <4>1. /\ crawlQ' = crawlQ \union {next} /\ sent' = sent \union {next}
            /\ job[w] # NoJob /\ SameLine(next, job[w])
            /\ \A v \in Workers : job'[v] = IF v = w THEN NoJob ELSE job[v]
        BY <3>5, NextAttempt DEF Retry, MayRetry, EndAttempt, TypeOK
      <4> HIDE DEF next
      <4>2. QED BY <4>1 DEF LineInv
    <3>6. QED BY <1>1, <3>1, <3>2, <3>3, <3>4, <3>5, LineKinds
  <2>2. \A a \in Attempts : runs'[a].status # "none" => a \in sent'
    BY <1>1, <2>1, RunsStep DEF LineInv
  <2>3. QED BY <2>1, <2>2 DEF LineInv
<1>2. CASE UNCHANGED vars
  BY <1>2 DEF vars, LineInv
<1>3. QED BY <1>1, <1>2

LEMMA LineInvariant == Spec => []LineInv
BY InitLine, LineStep, TypeCorrect, PTL DEF Spec

(* A retry never runs beside the attempt it repeats, for any number of       *)
(* workers, tasks, redeliveries and failures.                                *)
THEOREM AttemptsAreSequential == Spec => []OneLivePerLine
BY LineInvariant, PTL DEF LineInv

(* When a message is delivered once, a success row belongs to a task that    *)
(* waits nowhere and at most hands its changes over.                         *)
SuccessInv ==
    \A a \in Attempts : runs[a].status = "success" =>
        /\ \A b \in crawlQ : b.task # a.task
        /\ \A w \in Workers :
              job[w] # NoJob /\ job[w].task = a.task => pc[w] = "handoff"

(* An attempt that hands changes over goes on doing so until it ends. *)
LEMMA HandoffPhaseStep ==
    ASSUME TypeOK, Next, NEW v \in Workers, pc[v] = "handoff"
    PROVE  job'[v] = NoJob \/ (pc'[v] = "handoff" /\ job'[v] = job[v])
<1> USE DEF TypeOK, Transition, EndAttempt
<1>1. CASE Environment
  BY <1>1 DEF Environment, EditSite, SubmitCrawl, Redeliver, DeleteNotices, localVars
<1>2. ASSUME NEW w \in Workers, Fault(w)
      PROVE  job'[v] = NoJob \/ (pc'[v] = "handoff" /\ job'[v] = job[v])
  BY <1>2 DEF Fault, Crash, DbError, BrokerError, Abandon
<1>3. ASSUME NEW w \in Workers, Work(w)
      PROVE  job'[v] = NoJob \/ (pc'[v] = "handoff" /\ job'[v] = job[v])
  <2>1. CASE UnknownCollege(w) \/ UpsertRefused(w) \/ Retry(w) \/ GiveUp(w)
             \/ Finish(w)
    BY <2>1 DEF UnknownCollege, UpsertRefused, Retry, GiveUp, Finish
  <2>2. CASE \E a \in Attempts : Receive(w, a)
    BY <2>2 DEF Receive
  <2>3. CASE OpenRun(w) \/ RefuseCollege(w) \/ FetchLinksFails(w)
    BY <2>3 DEF OpenRun, RefuseCollege, FetchLinksFails
  <2>4. CASE \E L \in SUBSET Posts : FetchLinks(w, L)
    BY <2>4 DEF FetchLinks
  <2>5. CASE \E p \in Posts : Scrape(w, p) \/ SkipPost(w, p) \/ ScrapeFails(w, p)
    BY <2>5 DEF Scrape, SkipPost, ScrapeFails
  <2>6. CASE \E a \in Attempts : RecordSuccess(w, a) \/ RecordFailure(w, a)
    BY <2>6 DEF RecordSuccess, RecordFailure
  <2>7. CASE Upsert(w)
    BY <2>7 DEF Upsert
  <2>8. CASE \E h \in held[w] : EnqueueAi(w, h)
    BY <2>8 DEF EnqueueAi
  <2>9. QED
    BY <1>3, <2>1, <2>2, <2>3, <2>4, <2>5, <2>6, <2>7, <2>8 DEF Work, Proceed
<1>4. QED BY <1>1, <1>2, <1>3 DEF Next

LEMMA OneLinePerTask ==
    ASSUME MaxCopies = 1, NEW a \in Attempts, NEW b \in Attempts, a.task = b.task
    PROVE  SameLine(a, b)
BY DEF Attempts, SameLine

LEMMA SuccessStep ==
    ASSUME MaxCopies = 1
    PROVE  TypeOK /\ LineInv /\ SuccessInv /\ [Next]_vars => SuccessInv'
<1> SUFFICES ASSUME TypeOK, LineInv, SuccessInv, [Next]_vars PROVE SuccessInv'
  OBVIOUS
<1>1. CASE Next
  <2> DEFINE Done(a) ==
        /\ \A b \in crawlQ : b.task # a.task
        /\ \A w \in Workers :
              job[w] # NoJob /\ job[w].task = a.task => pc[w] = "handoff"
  <2>1. ASSUME NEW a \in Attempts, runs[a].status = "success" PROVE Done(a)'
    <3>1. Done(a) /\ a \in sent
      BY <2>1 DEF SuccessInv, LineInv
    <3>2. CASE Endings
      BY <3>1, <3>2, HandoffPhaseStep, <1>1 DEF Endings
    <3>3. ASSUME NEW t \in Tasks, SubmitCrawl(t) PROVE Done(a)'
      <4> DEFINE first == [task |-> t, retry |-> 0, copy |-> 1]
      <4>1. /\ t # a.task /\ first.task = t
            /\ crawlQ' = crawlQ \union {first} /\ UNCHANGED <<job, pc>>
        BY <3>1, <3>3 DEF SubmitCrawl, localVars
      <4> HIDE DEF first
      <4>2. QED BY <3>1, <4>1
    <3>4. ASSUME NEW b \in Attempts, Redeliver(b) PROVE FALSE
      BY <3>4 DEF Redeliver, Attempts
    <3>5. ASSUME NEW w \in Workers, NEW b \in Attempts, Receive(w, b) PROVE Done(a)'
      <4>1. /\ b \in crawlQ /\ crawlQ' = crawlQ \ {b}
            /\ \A v \in Workers : v # w => job'[v] = job[v] /\ pc'[v] = pc[v]
            /\ job'[w] = b
        BY <3>5 DEF Receive, Transition, TypeOK
      <4>2. QED BY <3>1, <4>1
    <3>6. ASSUME NEW w \in Workers, Retry(w) PROVE Done(a)'
      <4> DEFINE next == [job[w] EXCEPT !.retry = @ + 1]
      <4>1. /\ crawlQ' = crawlQ \union {next} /\ next.task = job[w].task
            /\ job[w] # NoJob /\ pc[w] = "raise"
            /\ \A v \in Workers : v # w => job'[v] = job[v] /\ pc'[v] = pc[v]
            /\ job'[w] = NoJob
        BY <3>6, NextAttempt DEF Retry, MayRetry, EndAttempt, TypeOK
      <4> HIDE DEF next
      <4>2. QED BY <3>1, <4>1
    <3>7. QED BY <1>1, <3>2, <3>3, <3>4, <3>5, <3>6, LineKinds
  <2>2. ASSUME NEW w \in Workers, NEW b \in Attempts, RecordSuccess(w, b)
        PROVE  SuccessInv'
    <3>1. /\ job[w] # NoJob /\ job[w] \in Attempts /\ b.task = job[w].task
          /\ pc'[w] = "handoff"
          /\ \A a \in Attempts : a # b => runs'[a] = runs[a]
          /\ UNCHANGED <<crawlQ, job>>
      BY <2>2 DEF RecordSuccess, Transition, RowsOf, TypeOK, queueVars
    <3>2. \A v \in Workers : v # w /\ job[v] # NoJob => job[v].task # b.task
      BY <3>1, OneLinePerTask DEF LineInv, OneLivePerLine, TypeOK
    <3>3. \A c \in crawlQ : c.task # b.task
      BY <3>1, OneLinePerTask DEF LineInv, OneLivePerLine, SameLine, TypeOK
    <3>4. Done(b)'
      BY <3>1, <3>2, <3>3
    <3>5. QED BY <2>1, <3>1, <3>4 DEF SuccessInv
  <2>3. CASE \A a \in Attempts : runs'[a].status = "success" => runs[a].status = "success"
    BY <2>1, <2>3 DEF SuccessInv
  <2>4. QED BY <1>1, <2>2, <2>3, RunsStep
<1>2. CASE UNCHANGED vars
  BY <1>2 DEF vars, SuccessInv
<1>3. QED BY <1>1, <1>2

(* With one delivery per message a recorded success is final, although the   *)
(* update of a run picks any row of its task and a retry adds rows.          *)
THEOREM SuccessStays == ASSUME MaxCopies = 1 PROVE Spec => SuccessIsFinal
<1>1. Init => SuccessInv
  BY DEF Init, SuccessInv, NoRun
<1>2. Spec => []SuccessInv
  BY <1>1, SuccessStep, TypeCorrect, LineInvariant, PTL DEF Spec
<1>3. TypeOK /\ SuccessInv /\ [Next]_vars
        => [\A a \in Attempts :
              runs[a].status = "success" => runs'[a].status = "success"]_vars
  BY RunsStep DEF SuccessInv
<1>4. QED BY <1>2, <1>3, TypeCorrect, PTL DEF Spec, SuccessIsFinal
===============================================================================
