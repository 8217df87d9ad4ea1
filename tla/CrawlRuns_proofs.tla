---------------------------- MODULE CrawlRuns_proofs ----------------------------
(***************************************************************************)
(* Proofs about the attempts of a crawl and their rows in crawl_runs: each *)
(* attempt runs once, its row is there and says so while it runs, and it   *)
(* advances towards its end.                                               *)
(***************************************************************************)
EXTENDS CrawlTask_proofs

(* An attempt that waits or has just been received has no row yet.           *)
RowsToCome ==
    /\ \A a \in crawlQ : runs[a].status = "none"
    /\ \A w \in Workers : pc[w] = "start" => runs[job[w]].status = "none"

(* Of a delivery, the attempt that waits or runs is the last one published.  *)
LastAttempt ==
    /\ \A a \in sent, b \in crawlQ : SameLine(a, b) => a.retry <= b.retry
    /\ \A a \in sent, w \in Workers :
          job[w] # NoJob /\ SameLine(a, job[w]) => a.retry <= job[w].retry

(* The inductive invariant behind AttemptsRunOnce. *)
FreshInv == RowsToCome /\ LastAttempt
-------------------------------------------------------------------------------
(* Where a worker can be after a step, and with which job.                   *)
LEMMA PhaseStep ==
    ASSUME TypeOK, Next, NEW v \in Workers
    PROVE  /\ pc'[v] = "start" =>
                \/ pc[v] = "start" /\ job'[v] = job[v]
                \/ job'[v] \in crawlQ
           /\ pc'[v] \in {"links", "scrape", "record", "fail"} =>
                /\ job'[v] = job[v]
                /\ pc[v] \in {"links", "scrape", "record", "fail"} \/ OpenRun(v)
<1> DEFINE Goal ==
        /\ pc'[v] = "start" =>
             \/ pc[v] = "start" /\ job'[v] = job[v]
             \/ job'[v] \in crawlQ
        /\ pc'[v] \in {"links", "scrape", "record", "fail"} =>
             /\ job'[v] = job[v]
             /\ pc[v] \in {"links", "scrape", "record", "fail"} \/ OpenRun(v)
<1> USE DEF TypeOK, Transition, EndAttempt
<1>1. CASE Environment
  BY <1>1 DEF Environment, EditSite, SubmitCrawl, Redeliver, DeleteNotices, localVars
<1>2. ASSUME NEW w \in Workers, Fault(w) PROVE Goal
  BY <1>2 DEF Fault, Crash, DbError, BrokerError, Abandon
<1>3. ASSUME NEW w \in Workers, Work(w) PROVE Goal
  <2>1. CASE UnknownCollege(w) \/ UpsertRefused(w) \/ Retry(w) \/ GiveUp(w)
             \/ Finish(w)
    BY <2>1 DEF UnknownCollege, UpsertRefused, Retry, GiveUp, Finish
  <2>2. CASE \E a \in Attempts : Receive(w, a)
    BY <2>2 DEF Receive
  <2>3. CASE OpenRun(w)
    <3>1. /\ \A u \in Workers : u # w => pc'[u] = pc[u]
          /\ pc'[w] = "links" /\ job' = job
      BY <2>3 DEF OpenRun
    <3>2. QED BY <2>3, <3>1
  <2>4. CASE RefuseCollege(w) \/ FetchLinksFails(w)
    BY <2>4 DEF RefuseCollege, FetchLinksFails
  <2>5. CASE \E L \in SUBSET Posts : FetchLinks(w, L)
    BY <2>5 DEF FetchLinks
  <2>6. CASE \E p \in Posts : Scrape(w, p) \/ SkipPost(w, p) \/ ScrapeFails(w, p)
    BY <2>6 DEF Scrape, SkipPost, ScrapeFails
  <2>7. CASE \E a \in Attempts : RecordSuccess(w, a) \/ RecordFailure(w, a)
    BY <2>7 DEF RecordSuccess, RecordFailure
  <2>8. CASE Upsert(w)
    BY <2>8 DEF Upsert
  <2>9. CASE \E h \in held[w] : EnqueueAi(w, h)
    BY <2>9 DEF EnqueueAi
  <2>10. QED
    BY <1>3, <2>1, <2>2, <2>3, <2>4, <2>5, <2>6, <2>7, <2>8, <2>9 DEF Work, Proceed
<1>4. QED BY <1>1, <1>2, <1>3 DEF Next

(* The rows of crawl_runs after a step. *)
LEMMA OpenRunRow ==
    ASSUME TypeOK, NEW w \in Workers, OpenRun(w)
    PROVE  /\ job[w] \in Attempts /\ pc[w] = "start" /\ pc'[w] = "links"
           /\ \A a \in Attempts : IF a = job[w] THEN runs'[a].status = "running"
                                  ELSE runs'[a] = runs[a]
<1>1. job[w] \in Attempts /\ pc[w] = "start" /\ pc'[w] = "links"
  BY DEF OpenRun, Transition, TypeOK
<1>2. [NoRun EXCEPT !.status = "running"].status = "running"
  BY DEF NoRun
<1>3. QED BY <1>1, <1>2 DEF OpenRun, TypeOK

LEMMA RecordRow ==
    ASSUME TypeOK, NEW w \in Workers, NEW b \in Attempts,
           RecordSuccess(w, b) \/ RecordFailure(w, b)
    PROVE  /\ job[w] # NoJob /\ b.task = job[w].task
           /\ pc'[w] \in {"handoff", "raise"}
           /\ runs[b].status # "none" /\ runs'[b].status \in {"success", "failed"}
           /\ \A a \in Attempts \ {b} : runs'[a] = runs[a]
<1>1. /\ job[w] # NoJob /\ pc'[w] \in {"handoff", "raise"}
      /\ b \in RowsOf(job[w].task)
  BY DEF RecordSuccess, RecordFailure, Transition, TypeOK
<1>2. runs[b].status # "none" /\ b.task = job[w].task
  BY <1>1 DEF RowsOf
<1>3. ASSUME RecordSuccess(w, b)
      PROVE  /\ runs'[b].status \in {"success", "failed"}
             /\ \A a \in Attempts \ {b} : runs'[a] = runs[a]
  <2>2. \A a \in Attempts : runs'[a] = IF a = b
              THEN [runs[b] EXCEPT !.status = "success",
                                   !.upserted = Cardinality(Payloads(batch[w]))]
              ELSE runs[a]
    BY <1>3 DEF RecordSuccess, TypeOK
  <2>3. \A n : [runs[b] EXCEPT !.status = "success", !.upserted = n].status = "success"
    BY DEF TypeOK, RunRow
  <2>4. QED BY <2>2, <2>3
<1>4. ASSUME RecordFailure(w, b)
      PROVE  /\ runs'[b].status \in {"success", "failed"}
             /\ \A a \in Attempts \ {b} : runs'[a] = runs[a]
  <2>1. \A a \in Attempts : runs'[a] =
          IF a = b THEN [runs[b] EXCEPT !.status = "failed", !.error = TRUE]
                   ELSE runs[a]
    BY <1>4 DEF RecordFailure, TypeOK
  <2>2. [runs[b] EXCEPT !.status = "failed", !.error = TRUE].status = "failed"
    BY DEF TypeOK, RunRow
  <2>3. QED BY <2>1, <2>2
<1>5. QED BY <1>1, <1>2, <1>3, <1>4
-------------------------------------------------------------------------------
(***************************************************************************)
(* Each attempt runs once.                                                 *)
(***************************************************************************)

(* What is published was never published before: a retry is numbered past    *)
(* every attempt of its delivery.                                            *)
LEMMA NewMessages ==
    ASSUME TypeOK, LineInv, LastAttempt, Next
    PROVE  (crawlQ' \ crawlQ) \intersect sent = {}
<1>1. CASE Endings
  BY <1>1 DEF Endings
<1>2. ASSUME NEW t \in Tasks, SubmitCrawl(t) PROVE (crawlQ' \ crawlQ) \intersect sent = {}
  <2> DEFINE first == [task |-> t, retry |-> 0, copy |-> 1]
  <2>1. crawlQ' = crawlQ \union {first} /\ first.task = t /\ \A a \in sent : a.task # t
    BY <1>2 DEF SubmitCrawl
  <2> HIDE DEF first
  <2>2. QED BY <2>1
<1>3. ASSUME NEW a \in Attempts, Redeliver(a) PROVE (crawlQ' \ crawlQ) \intersect sent = {}
  <2> DEFINE again == [a EXCEPT !.copy = @ + 1]
  <2>1. /\ crawlQ' = crawlQ \union {again} /\ again.task = a.task
        /\ \A b \in sent : b.task = a.task => b.copy # again.copy
    BY <1>3, NextCopy DEF Redeliver
  <2> HIDE DEF again
  <2>2. QED BY <2>1
<1>4. ASSUME NEW w \in Workers, NEW a \in Attempts, Receive(w, a)
      PROVE  (crawlQ' \ crawlQ) \intersect sent = {}
  BY <1>4 DEF Receive
<1>5. ASSUME NEW w \in Workers, Retry(w) PROVE (crawlQ' \ crawlQ) \intersect sent = {}
  <2> DEFINE next == [job[w] EXCEPT !.retry = @ + 1]
  <2>1. /\ crawlQ' = crawlQ \union {next} /\ SameLine(next, job[w]) /\ job[w] # NoJob
        /\ job[w].retry \in Nat /\ next.retry = job[w].retry + 1
    BY <1>5, NextAttempt DEF Retry, MayRetry, TypeOK, SameLine, Attempts
  <2> HIDE DEF next
  <2>2. next \notin sent
    BY <2>1 DEF LastAttempt
  <2>3. QED BY <2>1, <2>2
<1>6. QED BY <1>1, <1>2, <1>3, <1>4, <1>5, LineKinds

LEMMA LastAttemptStep ==
    ASSUME TypeOK, LineInv, LastAttempt, Next
    PROVE  LastAttempt'
<1> USE DEF SameLine
<1>1. CASE Endings
  BY <1>1 DEF Endings, LastAttempt
<1>2. ASSUME NEW t \in Tasks, SubmitCrawl(t) PROVE LastAttempt'
  <2> DEFINE first == [task |-> t, retry |-> 0, copy |-> 1]
  <2>1. /\ crawlQ' = crawlQ \union {first} /\ sent' = sent \union {first}
        /\ first.task = t /\ first.retry <= first.retry
        /\ \A a \in sent : a.task # t
        /\ UNCHANGED job
    BY <1>2 DEF SubmitCrawl, localVars
  <2> HIDE DEF first
  <2>2. QED BY <2>1 DEF LineInv, LastAttempt
<1>3. ASSUME NEW a \in Attempts, Redeliver(a) PROVE LastAttempt'
  <2> DEFINE again == [a EXCEPT !.copy = @ + 1]
  <2>1. /\ crawlQ' = crawlQ \union {again} /\ sent' = sent \union {again}
        /\ again.task = a.task /\ again.retry \in Nat
        /\ \A b \in sent : b.task = a.task => b.copy # again.copy
        /\ UNCHANGED job
    BY <1>3, NextCopy DEF Redeliver, localVars, Attempts
  <2> HIDE DEF again
  <2>2. QED BY <2>1 DEF LineInv, LastAttempt
<1>4. ASSUME NEW w \in Workers, NEW a \in Attempts, Receive(w, a) PROVE LastAttempt'
  <2>1. /\ a \in crawlQ /\ crawlQ' = crawlQ \ {a} /\ UNCHANGED sent
        /\ \A v \in Workers : job'[v] = IF v = w THEN a ELSE job[v]
    BY <1>4 DEF Receive, TypeOK
  <2>2. QED BY <2>1 DEF LastAttempt
<1>5. ASSUME NEW w \in Workers, Retry(w) PROVE LastAttempt'
  <2> DEFINE next == [job[w] EXCEPT !.retry = @ + 1]
  <2>1. /\ crawlQ' = crawlQ \union {next} /\ sent' = sent \union {next}
        /\ SameLine(next, job[w]) /\ job[w] # NoJob
        /\ job[w].retry \in Nat /\ next.retry = job[w].retry + 1
        /\ \A v \in Workers : job'[v] = IF v = w THEN NoJob ELSE job[v]
    BY <1>5, NextAttempt DEF Retry, MayRetry, EndAttempt, TypeOK, Attempts
  <2>2. \A a \in sent : a.retry \in Nat
    BY DEF TypeOK, Attempts
  <2> HIDE DEF next
  <2>3. \A a \in sent : SameLine(a, next) => a.retry <= next.retry
    BY <2>1, <2>2 DEF LastAttempt
  <2>4. \A b \in crawlQ : ~SameLine(next, b)
    BY <2>1 DEF LineInv, OneLivePerLine
  <2>5. \A v \in Workers : v # w /\ job[v] # NoJob => ~SameLine(next, job[v])
    BY <2>1 DEF LineInv, OneLivePerLine
  <2>6. \A a \in sent', b \in crawlQ' : SameLine(a, b) => a.retry <= b.retry
    BY <2>1, <2>3, <2>4 DEF LastAttempt
  <2>7. \A a \in sent', v \in Workers :
          job'[v] # NoJob /\ SameLine(a, job'[v]) => a.retry <= job'[v].retry
    BY <2>1, <2>5 DEF LastAttempt
  <2>8. QED BY <2>6, <2>7 DEF LastAttempt
<1>6. QED BY <1>1, <1>2, <1>3, <1>4, <1>5, LineKinds

LEMMA RowsToComeStep ==
    ASSUME TypeOK, TypeOK', LineInv, LineInv', FreshInv, Next
    PROVE  RowsToCome'
<1>1. \A a \in crawlQ' : a \in Attempts /\ runs[a].status = "none"
  BY NewMessages DEF FreshInv, RowsToCome, LineInv, TypeOK
<1>2. \A v \in Workers : pc'[v] = "start" =>
        /\ job'[v] \in Attempts /\ runs[job'[v]].status = "none"
        /\ \/ pc[v] = "start" /\ job'[v] = job[v]
           \/ job'[v] \in crawlQ
  BY PhaseStep DEF FreshInv, RowsToCome, TypeOK
<1>3. CASE UNCHANGED runs
  BY <1>1, <1>2, <1>3 DEF RowsToCome
<1>4. ASSUME NEW w \in Workers, OpenRun(w) PROVE RowsToCome'
  <2>1. /\ job[w] # NoJob /\ UNCHANGED <<crawlQ, job>> /\ pc'[w] = "links"
        /\ \A a \in Attempts : a # job[w] => runs'[a] = runs[a]
    <3>1. UNCHANGED <<crawlQ, job>>
      BY <1>4 DEF OpenRun, queueVars
    <3>2. job[w] # NoJob
      BY <1>4, OpenRunRow, ConstantsOK
    <3>3. QED BY <1>4, <3>1, <3>2, OpenRunRow
  <2>2. \A a \in crawlQ : a # job[w]
    BY <2>1 DEF LineInv, OneLivePerLine, SameLine
  <2>3. \A v \in Workers : pc'[v] = "start" => job[v] # job[w]
    <3> SUFFICES ASSUME NEW v \in Workers, pc'[v] = "start" PROVE job[v] # job[w]
      OBVIOUS
    <3>1. v # w /\ job[v] \in Attempts
      BY <1>2, <2>1
    <3>2. job[v] # NoJob
      BY <3>1, ConstantsOK
    <3>3. ~SameLine(job[v], job[w])
      BY <2>1, <3>1, <3>2 DEF LineInv, OneLivePerLine
    <3>4. QED BY <3>3 DEF SameLine
  <2>4. QED BY <1>1, <1>2, <2>1, <2>2, <2>3 DEF RowsToCome
<1>5. ASSUME NEW w \in Workers, NEW b \in Attempts, RecordSuccess(w, b) \/ RecordFailure(w, b)
      PROVE  RowsToCome'
  <2>1. runs[b].status # "none" /\ \A a \in Attempts \ {b} : runs'[a] = runs[a]
    BY <1>5, RecordRow
  <2>2. QED BY <1>1, <1>2, <2>1 DEF RowsToCome
<1>6. QED BY <1>3, <1>4, <1>5, RunsKinds

LEMMA InitFresh == Init => FreshInv
BY DEF Init, FreshInv, RowsToCome, LastAttempt

LEMMA FreshStep ==
    TypeOK /\ TypeOK' /\ LineInv /\ LineInv' /\ FreshInv /\ [Next]_vars => FreshInv'
<1>1. CASE UNCHANGED vars
  BY <1>1 DEF vars, FreshInv, RowsToCome, LastAttempt
<1>2. QED BY <1>1, RowsToComeStep, LastAttemptStep DEF FreshInv

(* For any number of workers, tasks, redeliveries, retries and failures an   *)
(* attempt is published once and opens its crawl_runs row once, so that a    *)
(* delivery leads to at most max_retries + 1 crawls.                         *)
THEOREM RunsOnce == Spec => AttemptsRunOnce
<1>1. Spec => []FreshInv
  BY InitFresh, FreshStep, TypeCorrect, LineInvariant, PTL DEF Spec
<1>2. TypeOK /\ LineInv /\ FreshInv /\ [Next]_vars
        => [/\ (crawlQ' \ crawlQ) \intersect sent = {}
            /\ \A w \in Workers : OpenRun(w) => runs[job[w]].status = "none"]_vars
  BY NewMessages DEF FreshInv, RowsToCome, OpenRun, Transition
<1>3. QED BY <1>1, <1>2, TypeCorrect, LineInvariant, PTL DEF Spec, AttemptsRunOnce
-------------------------------------------------------------------------------
(***************************************************************************)
(* The row of an attempt, from its first commit to its last.               *)
(***************************************************************************)

(* Only the worker that executes an attempt of a task updates rows of that   *)
(* task.                                                                     *)
LEMMA OthersRow ==
    ASSUME TypeOK, LineInv, MaxCopies = 1, NEW v \in Workers, NEW w \in Workers,
           job[v] # NoJob, NEW b \in Attempts, v # w,
           RecordSuccess(w, b) \/ RecordFailure(w, b)
    PROVE  runs'[job[v]] = runs[job[v]]
<1>1. /\ job[w] # NoJob /\ b.task = job[w].task
      /\ \A a \in Attempts \ {b} : runs'[a] = runs[a]
  BY RecordRow
<1>2. job[v] \in Attempts /\ job[w] \in Attempts
  BY <1>1 DEF TypeOK
<1>3. ~SameLine(job[v], job[w])
  BY <1>1 DEF LineInv, OneLivePerLine
<1>4. job[v].task # job[w].task
  BY <1>2, <1>3, OneLinePerTask
<1>5. QED BY <1>1, <1>2, <1>4

LEMMA LiveRunsStep ==
    ASSUME TypeOK, TypeOK', LineInv, LiveRunsShown, Next
    PROVE  LiveRunsShown'
<1> SUFFICES ASSUME NEW v \in Workers, pc'[v] \in {"links", "scrape", "record", "fail"}
             PROVE  /\ runs'[job'[v]].status # "none"
                    /\ MaxCopies = 1 => runs'[job'[v]].status = "running"
  BY DEF LiveRunsShown
<1>1. /\ job'[v] = job[v]
      /\ pc[v] \in {"links", "scrape", "record", "fail"} \/ OpenRun(v)
  BY PhaseStep
<1>2. job[v] \in Attempts /\ job[v] # NoJob
  BY <1>1, ConstantsOK, OpenRunRow DEF TypeOK
<1>3. CASE OpenRun(v)
  BY <1>1, <1>2, <1>3, OpenRunRow
<1>4. CASE /\ pc[v] \in {"links", "scrape", "record", "fail"}
           /\ UNCHANGED runs
  BY <1>1, <1>4 DEF LiveRunsShown
<1>5. ASSUME pc[v] \in {"links", "scrape", "record", "fail"},
             NEW w \in Workers, OpenRun(w), w # v
      PROVE  /\ runs'[job[v]].status # "none"
             /\ MaxCopies = 1 => runs'[job[v]].status = "running"
  <2>1. job[w] # NoJob
    BY <1>5, OpenRunRow, ConstantsOK
  <2>2. job[v] # job[w]
    BY <1>2, <1>5, <2>1 DEF LineInv, OneLivePerLine, SameLine
  <2>3. runs'[job[v]] = runs[job[v]]
    BY <1>2, <1>5, <2>2, OpenRunRow
  <2>4. QED BY <1>5, <2>3 DEF LiveRunsShown
<1>6. ASSUME pc[v] \in {"links", "scrape", "record", "fail"},
             NEW w \in Workers, NEW b \in Attempts,
             RecordSuccess(w, b) \/ RecordFailure(w, b)
      PROVE  /\ runs'[job[v]].status # "none"
             /\ MaxCopies = 1 => runs'[job[v]].status = "running"
  <2>1. w # v
    BY <1>6, RecordRow
  <2>2. runs'[job[v]].status # "none"
    BY <1>2, <1>6, RecordRow DEF LiveRunsShown
  <2>3. MaxCopies = 1 => runs'[job[v]] = runs[job[v]]
    BY <1>2, <1>6, <2>1, OthersRow
  <2>4. QED BY <1>6, <2>2, <2>3 DEF LiveRunsShown
<1>7. QED BY <1>1, <1>3, <1>4, <1>5, <1>6, RunsKinds

(* For any number of workers, tasks and failures: update_crawl_run_sync      *)
(* finds a row whenever an attempt calls it, and while the broker delivers   *)
(* each message once the row of a crawl that runs says so.                   *)
THEOREM RunningShown == Spec => []LiveRunsShown
<1>1. Init => LiveRunsShown
  BY DEF Init, LiveRunsShown
<1>2. TypeOK /\ TypeOK' /\ LineInv /\ LiveRunsShown /\ [Next]_vars => LiveRunsShown'
  <2>1. CASE UNCHANGED vars
    BY <2>1 DEF vars, LiveRunsShown
  <2>2. QED BY <2>1, LiveRunsStep
<1>3. QED BY <1>1, <1>2, TypeCorrect, LineInvariant, PTL DEF Spec
-------------------------------------------------------------------------------
(***************************************************************************)
(* Progress: what an attempt has still to do only ever gets less.          *)
(***************************************************************************)

(* How far an attempt is from its end, by the phase it is in. *)
Stage(phase) ==
    CASE phase = "start"   -> 5
      [] phase = "links"   -> 4
      [] phase = "scrape"  -> 3
      [] phase = "record"  -> 2
      [] phase = "fail"    -> 2
      [] phase = "handoff" -> 1
      [] phase = "raise"   -> 1
      [] phase = "idle"    -> 0

(* The attempt of worker w has come nearer to its end: it has passed to a    *)
(* later phase, or it has one link less to scrape, or one change less to     *)
(* hand over.                                                                *)
Nearer(w) ==
    \/ Stage(pc'[w]) < Stage(pc[w])
    \/ /\ pc'[w] = pc[w] /\ job'[w] = job[w]
       /\ \/ \E p \in todo[w] : todo'[w] = todo[w] \ {p} /\ held'[w] = held[w]
          \/ \E h \in held[w] : held'[w] = held[w] \ {h} /\ todo'[w] = todo[w]

(* The work of a worker is left as it is. *)
Untouched(w) ==
    pc'[w] = pc[w] /\ job'[w] = job[w] /\ todo'[w] = todo[w] /\ held'[w] = held[w]

(* What any step of the system does to the attempt of any worker: nothing,   *)
(* or it brings it nearer to its end.                                        *)
AttemptsAdvance ==
    [][\A w \in Workers : pc[w] # "idle" => Untouched(w) \/ Nearer(w)]_vars

LEMMA EndIsNearer ==
    ASSUME TypeOK, NEW w \in Workers, pc[w] # "idle", EndAttempt(w)
    PROVE  /\ Nearer(w)
           /\ \A v \in Workers : v # w => Untouched(v)
<1>1. pc'[w] = "idle" /\ \A v \in Workers : v # w => Untouched(v)
  BY DEF EndAttempt, Untouched, TypeOK
<1>2. pc[w] \in {"start", "links", "scrape", "record", "fail", "handoff", "raise"}
  BY DEF TypeOK
<1>3. QED BY <1>1, <1>2 DEF Nearer, Stage

LEMMA AdvanceStep ==
    ASSUME TypeOK, Next, NEW v \in Workers, pc[v] # "idle"
    PROVE  Untouched(v) \/ Nearer(v)
<1> DEFINE Goal == Untouched(v) \/ Nearer(v)
<1>1. CASE Environment
  BY <1>1 DEF Environment, EditSite, SubmitCrawl, Redeliver, DeleteNotices,
              localVars, Untouched
<1>2. ASSUME NEW w \in Workers, pc[w] # "idle", EndAttempt(w) PROVE Goal
  BY <1>2, EndIsNearer
<1>3. ASSUME NEW w \in Workers, NEW from, NEW to, Transition(w, from, to),
             Stage(to) < Stage(from), UNCHANGED job,
             \A u \in Workers : u # w => todo'[u] = todo[u] /\ held'[u] = held[u]
      PROVE  Goal
  <2>1. pc[w] = from /\ \A u \in Workers : pc'[u] = IF u = w THEN to ELSE pc[u]
    BY <1>3 DEF Transition, TypeOK
  <2>2. QED BY <1>3, <2>1 DEF Untouched, Nearer
<1>4. ASSUME NEW w \in Workers, Fault(w) PROVE Goal
  BY <1>4, <1>2 DEF Fault, Crash, DbError, BrokerError, Abandon
<1>5. ASSUME NEW w \in Workers, Work(w) PROVE Goal
  <2>1. CASE UnknownCollege(w) \/ UpsertRefused(w) \/ Retry(w) \/ GiveUp(w)
             \/ Finish(w)
    BY <2>1, <1>2 DEF UnknownCollege, UpsertRefused, Retry, GiveUp, Finish
  <2>2. CASE \E a \in Attempts : Receive(w, a)
    <3>1. /\ pc[w] = "idle" /\ UNCHANGED <<todo, held>>
          /\ \A u \in Workers : u # w => pc'[u] = pc[u] /\ job'[u] = job[u]
      BY <2>2 DEF Receive, Transition, scanVars, TypeOK
    <3>2. QED BY <3>1 DEF Untouched
  <2>3. CASE OpenRun(w)
    <3>1. Transition(w, "start", "links") /\ UNCHANGED <<job, todo, held>>
      BY <2>3 DEF OpenRun, scanVars
    <3>2. QED BY <3>1, <1>3 DEF Stage
  <2>4. CASE RefuseCollege(w) \/ FetchLinksFails(w)
    <3>1. Transition(w, "links", "fail") /\ UNCHANGED <<job, todo, held>>
      BY <2>4 DEF RefuseCollege, FetchLinksFails, scanVars
    <3>2. QED BY <3>1, <1>3 DEF Stage
  <2>5. CASE \E L \in SUBSET Posts : FetchLinks(w, L)
    <3>1. /\ Transition(w, "links", "scrape") /\ UNCHANGED <<job, held>>
          /\ \A u \in Workers : u # w => todo'[u] = todo[u]
      BY <2>5 DEF FetchLinks, TypeOK
    <3>2. QED BY <3>1, <1>3 DEF Stage
  <2>6. CASE \E p \in Posts : Scrape(w, p) \/ SkipPost(w, p) \/ ScrapeFails(w, p)
    <3>1. PICK p \in todo[w] : /\ todo' = [todo EXCEPT ![w] = @ \ {p}]
                               /\ UNCHANGED <<pc, job, held>>
      BY <2>6 DEF Scrape, SkipPost, ScrapeFails
    <3>2. \A u \in Workers : todo'[u] = IF u = w THEN todo[w] \ {p} ELSE todo[u]
      BY <3>1 DEF TypeOK
    <3>3. QED BY <3>1, <3>2 DEF Untouched, Nearer
  <2>7. CASE \E a \in Attempts : RecordSuccess(w, a) \/ RecordFailure(w, a)
    <3>1. /\ Transition(w, "record", "handoff") \/ Transition(w, "fail", "raise")
          /\ UNCHANGED <<job, todo, held>>
      BY <2>7 DEF RecordSuccess, RecordFailure, scanVars
    <3>2. QED BY <3>1, <1>3 DEF Stage
  <2>8. CASE Upsert(w)
    <3>1. /\ Transition(w, "scrape", "record") /\ UNCHANGED <<job, todo>>
          /\ \A u \in Workers : u # w => held'[u] = held[u]
      BY <2>8 DEF Upsert, scanVars, TypeOK
    <3>2. QED BY <3>1, <1>3 DEF Stage
  <2>9. CASE \E h \in held[w] : EnqueueAi(w, h)
    <3>1. PICK h \in held[w] : /\ held' = [held EXCEPT ![w] = @ \ {h}]
                               /\ UNCHANGED <<pc, job, todo>>
      BY <2>9 DEF EnqueueAi, scanVars
    <3>2. \A u \in Workers : held'[u] = IF u = w THEN held[w] \ {h} ELSE held[u]
      BY <3>1 DEF TypeOK
    <3>3. QED BY <3>1, <3>2 DEF Untouched, Nearer
  <2>10. QED
    BY <1>5, <2>1, <2>2, <2>3, <2>4, <2>5, <2>6, <2>7, <2>8, <2>9 DEF Work, Proceed
<1>6. QED BY <1>1, <1>4, <1>5 DEF Next

(* For any instance, no interleaving and no failure sends an attempt back:   *)
(* with the bound on retries (TypeCorrect) this is why a task settles once   *)
(* its worker keeps working (TasksSettle, which TLC checks).                 *)
THEOREM NoAttemptGoesBack == Spec => AttemptsAdvance
<1>1. TypeOK /\ [Next]_vars
        => [\A w \in Workers : pc[w] # "idle" => Untouched(w) \/ Nearer(w)]_vars
  BY AdvanceStep
<1>2. QED BY <1>1, TypeCorrect, PTL DEF Spec, AttemptsAdvance
===============================================================================
