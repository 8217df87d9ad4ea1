------------------------------- MODULE CrawlTask -------------------------------
(***************************************************************************)
(* The crawl pipeline of the Celery worker: crawl_college_task             *)
(* (app/services/tasks.py) running crawl_college_sync                      *)
(* (app/services/crawl_service.py) against the tables crawl_runs and       *)
(* notices, fed by the crawl queue and feeding the AI queue.               *)
(*                                                                         *)
(* A worker process executes one attempt at a time.  Each action is the    *)
(* code between two points where other processes or a failure can act: a   *)
(* commit, a network request, or a publication to the broker.              *)
(***************************************************************************)
EXTENDS Naturals, FiniteSets

CONSTANTS
    Workers,       \* worker processes
    Tasks,         \* Celery task ids, one per POST /internal/trigger-crawl entry
    Colleges,      \* college codes
    Seeded,        \* colleges with a row in table colleges
    Configured,    \* colleges with a crawler module and list URL
    CollegeOf,     \* the argument of each task
    Posts,         \* postings on the colleges' sites
    HomeOf,        \* the college that publishes a posting
    Keys,          \* (college_id, external_id) pairs, the key of table notices
    KeyOf,         \* the key build_notice_payload derives for a posting
    BadPosts,      \* postings whose row the database refuses (title over 512)
    MaxRetries,    \* Celery's default max_retries, 3 in production
    MaxCopies,     \* deliveries of one message (1: the broker never redelivers)
    MaxEdits,      \* bound: versions of a posting
    MaxFaults,     \* bound: crashes, database errors and broker errors
    MaxDeletes,    \* bound: executions of delete_notices_for_rerun.py
    NoJob, NoContent

Attempts == [task : Tasks, retry : 0..MaxRetries, copy : 1..MaxCopies]
Contents == Posts \X (1..MaxEdits)

ASSUME ConstantsOK ==
    /\ Seeded \subseteq Colleges
    /\ Configured \subseteq Colleges
    /\ CollegeOf \in [Tasks -> Colleges]
    /\ HomeOf \in [Posts -> Colleges]
    /\ KeyOf \in [Posts -> Keys]
    /\ \A p, q \in Posts : KeyOf[p] = KeyOf[q] => HomeOf[p] = HomeOf[q]
    /\ BadPosts \subseteq Posts
    /\ IsFiniteSet(Keys)
    /\ MaxRetries \in Nat
    /\ MaxCopies \in Nat \ {0}
    /\ MaxEdits \in Nat /\ MaxFaults \in Nat /\ MaxDeletes \in Nat
    /\ NoJob \notin Attempts
    /\ NoContent \notin Contents

VARIABLES
    site,       \* site[p]: version of posting p now on the web, 0 if not posted
    crawlQ,     \* crawl messages in the broker
    sent,       \* history: every crawl message ever published
    runs,       \* table crawl_runs, one slot per attempt
    notices,    \* table notices, one slot per key
    writes,     \* writes[k]: inserts and updates of key k so far (orders updated_at)
    published,  \* AI tasks ever published (process_notice_ai_task.delay)
    lost,       \* history: changes whose publication a failure prevented
    pc,         \* where each worker stands in crawl_college_task
    job,        \* the attempt each worker executes
    todo,       \* links still to scrape
    batch,      \* payloads collected so far: the list `notices`, by external id
    raised,     \* history: some scrape of this attempt raised an exception
    cause,      \* the exception being handled: "none", "network" or "value"
    held,       \* rows changed by this attempt, not yet handed to the AI queue
    faults, deletes    \* failures and script executions so far

queueVars == <<crawlQ, sent>>
dbVars    == <<runs, notices, writes>>
aiVars    == <<published, lost>>
scanVars  == <<todo, batch, raised>>
localVars == <<pc, job, todo, batch, raised, cause, held>>
envVars   == <<site, faults, deletes>>
vars == <<site, crawlQ, sent, runs, notices, writes, published, lost,
          pc, job, todo, batch, raised, cause, held, faults, deletes>>

NoRow == [id |-> 0, rev |-> 0, content |-> NoContent]
NoRun == [status |-> "none", upserted |-> 0, error |-> FALSE]
EmptyBatch == [k \in Keys |-> NoContent]

(* A change of a row: its key, the row's id, and which write it was. *)
Change == [key : Keys, id : Nat, rev : Nat]

Transition(w, from, to) ==
    /\ pc[w] = from
    /\ pc' = [pc EXCEPT ![w] = to]

(* The attempt is over: the worker forgets everything about it. *)
EndAttempt(w) ==
    /\ pc' = [pc EXCEPT ![w] = "idle"]
    /\ job' = [job EXCEPT ![w] = NoJob]
    /\ todo' = [todo EXCEPT ![w] = {}]
    /\ batch' = [batch EXCEPT ![w] = EmptyBatch]
    /\ raised' = [raised EXCEPT ![w] = FALSE]
    /\ cause' = [cause EXCEPT ![w] = "none"]
    /\ held' = [held EXCEPT ![w] = {}]

Init ==
    /\ site = [p \in Posts |-> 0]
    /\ crawlQ = {} /\ sent = {}
    /\ runs = [a \in Attempts |-> NoRun]
    /\ notices = [k \in Keys |-> NoRow]
    /\ writes = [k \in Keys |-> 0]
    /\ published = {} /\ lost = {}
    /\ pc = [w \in Workers |-> "idle"]
    /\ job = [w \in Workers |-> NoJob]
    /\ todo = [w \in Workers |-> {}]
    /\ batch = [w \in Workers |-> EmptyBatch]
    /\ raised = [w \in Workers |-> FALSE]
    /\ cause = [w \in Workers |-> "none"]
    /\ held = [w \in Workers |-> {}]
    /\ faults = 0 /\ deletes = 0
-------------------------------------------------------------------------------
(***************************************************************************)
(* Environment: the sites, the trigger, the broker, the rerun script.      *)
(***************************************************************************)

(* A college posts or edits a notice; an edit is a text never posted before. *)
EditSite(p) ==
    /\ site[p] < MaxEdits
    /\ site' = [site EXCEPT ![p] = @ + 1]
    /\ UNCHANGED <<queueVars, dbVars, aiVars, localVars, faults, deletes>>

(* POST /internal/trigger-crawl publishes a message under a fresh task id. *)
SubmitCrawl(t) ==
    /\ \A a \in sent : a.task # t
    /\ LET first == [task |-> t, retry |-> 0, copy |-> 1] IN
         /\ crawlQ' = crawlQ \union {first}
         /\ sent' = sent \union {first}
    /\ UNCHANGED <<dbVars, aiVars, localVars, envVars>>

(* A message unacknowledged past visibility_timeout is delivered once more. *)
Redeliver(a) ==
    LET again == [a EXCEPT !.copy = @ + 1] IN
    /\ a \in crawlQ
    /\ a.copy < MaxCopies
    /\ \A b \in sent : b.task = a.task => b.copy # again.copy
    /\ crawlQ' = crawlQ \union {again}
    /\ sent' = sent \union {again}
    /\ UNCHANGED <<dbVars, aiVars, localVars, envVars>>

(* delete_notices_for_rerun.py removes rows of one college (those in a      *)
(* created_at range, so any of them) in one transaction.                    *)
DeleteNotices(c, K) ==
    /\ deletes < MaxDeletes
    /\ c \in Seeded
    /\ K \subseteq {KeyOf[p] : p \in {q \in Posts : HomeOf[q] = c}}
    /\ \A k \in K : notices[k] # NoRow
    /\ notices' = [k \in Keys |-> IF k \in K THEN NoRow ELSE notices[k]]
    /\ deletes' = deletes + 1
    /\ UNCHANGED <<site, queueVars, runs, writes, aiVars, localVars, faults>>
-------------------------------------------------------------------------------
(***************************************************************************)
(* One attempt of crawl_college_task, executed by worker w.                *)
(***************************************************************************)

College(w) == CollegeOf[job[w].task]

(* Faulty variant: the message stays in the broker (acks_late). *)
ReceiveLateAck(w, a) ==
    /\ a \in crawlQ
    /\ Transition(w, "idle", "start")
    /\ job' = [job EXCEPT ![w] = a]
    /\ UNCHANGED <<queueVars, dbVars, aiVars, scanVars, cause, held, envVars>>

(* Celery acknowledges a message when it hands it to the task (acks_early), *)
(* whatever becomes of the attempt.                                         *)
Receive(w, a) ==
    /\ a \in crawlQ
    /\ Transition(w, "idle", "start")
    /\ job' = [job EXCEPT ![w] = a]
    /\ crawlQ' = crawlQ \ {a}
    /\ UNCHANGED <<sent, dbVars, aiVars, scanVars, cause, held, envVars>>

(* ValueError before any crawl_runs row exists; not in autoretry_for. *)
UnknownCollege(w) ==
    /\ pc[w] = "start"
    /\ College(w) \notin Seeded
    /\ EndAttempt(w)
    /\ UNCHANGED <<queueVars, dbVars, aiVars, envVars>>

(* Faulty variant: a retry is taken to have a crawl_runs row already. *)
OpenRunFirst(w) ==
    /\ Transition(w, "start", "links")
    /\ College(w) \in Seeded
    /\ runs' = IF job[w].retry = 0
               THEN [runs EXCEPT ![job[w]] = [NoRun EXCEPT !.status = "running"]]
               ELSE runs
    /\ UNCHANGED <<queueVars, notices, writes, aiVars, job, scanVars, cause,
                   held, envVars>>

(* create_crawl_run_sync always inserts, also on a retry; then commit. *)
OpenRun(w) ==
    /\ Transition(w, "start", "links")
    /\ College(w) \in Seeded
    /\ runs' = [runs EXCEPT ![job[w]] = [NoRun EXCEPT !.status = "running"]]
    /\ UNCHANGED <<queueVars, notices, writes, aiVars, job, scanVars, cause,
                   held, envVars>>

(* No module or list URL for the college: ValueError. *)
RefuseCollege(w) ==
    /\ Transition(w, "links", "fail")
    /\ College(w) \notin Configured
    /\ cause' = [cause EXCEPT ![w] = "value"]
    /\ UNCHANGED <<queueVars, dbVars, aiVars, job, scanVars, held, envVars>>

(* The list page yields some of the college's postings: parsers skip items  *)
(* they cannot read and return [] for a page they do not recognise.         *)
FetchLinks(w, L) ==
    /\ Transition(w, "links", "scrape")
    /\ College(w) \in Configured
    /\ L \subseteq {p \in Posts : HomeOf[p] = College(w) /\ site[p] > 0}
    /\ todo' = [todo EXCEPT ![w] = L]
    /\ UNCHANGED <<queueVars, dbVars, aiVars, job, batch, raised, cause, held,
                   envVars>>

(* get_links raises RequestException (timeout, refused, bad status). *)
FetchLinksFails(w) ==
    /\ Transition(w, "links", "fail")
    /\ College(w) \in Configured
    /\ cause' = [cause EXCEPT ![w] = "network"]
    /\ UNCHANGED <<queueVars, dbVars, aiVars, job, scanVars, held, envVars>>

(* Faulty variant: a detail page comes from a cache of unknown age. *)
ScrapeCached(w, p) ==
    /\ pc[w] = "scrape"
    /\ p \in todo[w]
    /\ todo' = [todo EXCEPT ![w] = @ \ {p}]
    /\ \E v \in 1..site[p] : batch' = [batch EXCEPT ![w][KeyOf[p]] = <<p, v>>]
    /\ UNCHANGED <<queueVars, dbVars, aiVars, pc, job, raised, cause, held,
                   envVars>>

(* A detail page becomes a payload; of several links with one external id   *)
(* the first wins.                                                          *)
Scrape(w, p) ==
    /\ pc[w] = "scrape"
    /\ p \in todo[w]
    /\ todo' = [todo EXCEPT ![w] = @ \ {p}]
    /\ batch' = IF batch[w][KeyOf[p]] = NoContent
                THEN [batch EXCEPT ![w][KeyOf[p]] = <<p, site[p]>>]
                ELSE batch
    /\ UNCHANGED <<queueVars, dbVars, aiVars, pc, job, raised, cause, held,
                   envVars>>

(* build_notice_payload returns None: no title, a placeholder, too large. *)
SkipPost(w, p) ==
    /\ pc[w] = "scrape"
    /\ p \in todo[w]
    /\ todo' = [todo EXCEPT ![w] = @ \ {p}]
    /\ UNCHANGED <<queueVars, dbVars, aiVars, pc, job, batch, raised, cause,
                   held, envVars>>

(* scrape_fn raises; both except clauses log and continue with the loop. *)
ScrapeFails(w, p) ==
    /\ pc[w] = "scrape"
    /\ p \in todo[w]
    /\ todo' = [todo EXCEPT ![w] = @ \ {p}]
    /\ raised' = [raised EXCEPT ![w] = TRUE]
    /\ UNCHANGED <<queueVars, dbVars, aiVars, pc, job, batch, cause, held,
                   envVars>>

Payloads(b) == {k \in Keys : b[k] # NoContent}

(* INSERT ... ON CONFLICT DO UPDATE WHERE content_hash IS DISTINCT FROM      *)
(* excluded.content_hash: the keys it inserts or rewrites.                   *)
Touched(b) == {k \in Payloads(b) : notices[k].content # b[k]}

(* Faulty variant: a changed notice is replaced by a new row. *)
RowAfterReplace(k, b) ==
    [id |-> writes[k] + 1, rev |-> writes[k] + 1, content |-> b[k]]

(* A rewritten row keeps its id, a new one gets an id never used for its key. *)
RowAfter(k, b) ==
    [id |-> IF notices[k] = NoRow THEN writes[k] + 1 ELSE notices[k].id,
     rev |-> writes[k] + 1,
     content |-> b[k]]

(* Faulty variants: only inserted rows are returned; every row of the batch  *)
(* is returned, also those whose hash is unchanged.                          *)
ReturnedInserts(b) ==
    {[key |-> k, id |-> RowAfter(k, b).id, rev |-> RowAfter(k, b).rev] :
        k \in {q \in Touched(b) : notices[q] = NoRow}}

ReturnedBatch(b) ==
    {[key |-> k, id |-> RowAfter(k, b).id,
      rev |-> IF k \in Touched(b) THEN RowAfter(k, b).rev ELSE notices[k].rev] :
        k \in Payloads(b)}

(* RETURNING id: exactly the rows the statement wrote. *)
Returned(b) ==
    {[key |-> k, id |-> RowAfter(k, b).id, rev |-> RowAfter(k, b).rev] :
        k \in Touched(b)}

(* The bulk upsert and its commit; with no payload neither is executed. *)
Upsert(w) ==
    /\ todo[w] = {}
    /\ \A k \in Payloads(batch[w]) : batch[w][k][1] \notin BadPosts
    /\ Transition(w, "scrape", "record")
    /\ notices' = [k \in Keys |-> IF k \in Touched(batch[w])
                                  THEN RowAfter(k, batch[w]) ELSE notices[k]]
    /\ writes' = [k \in Keys |-> IF k \in Touched(batch[w])
                                 THEN writes[k] + 1 ELSE writes[k]]
    /\ held' = [held EXCEPT ![w] = Returned(batch[w])]
    /\ UNCHANGED <<queueVars, runs, aiVars, job, scanVars, cause, envVars>>

(* One row the database refuses rolls the whole statement back.  The except *)
(* handler's SELECT then fails in the aborted transaction, so its exception *)
(* leaves the task: the run is not updated and Celery does not retry.       *)
UpsertRefused(w) ==
    /\ pc[w] = "scrape" /\ todo[w] = {}
    /\ \E k \in Payloads(batch[w]) : batch[w][k][1] \in BadPosts
    /\ EndAttempt(w)
    /\ UNCHANGED <<queueVars, dbVars, aiVars, envVars>>

(* update_crawl_run_sync looks its row up by task id with LIMIT 1 and no    *)
(* ORDER BY: after a retry any row of the task may be the one it gets.      *)
RowsOf(t) == {a \in Attempts : a.task = t /\ runs[a].status # "none"}

RecordSuccess(w, a) ==
    /\ Transition(w, "record", "handoff")
    /\ a \in RowsOf(job[w].task)
    /\ runs' = [runs EXCEPT
                  ![a].status = "success",
                  ![a].upserted = Cardinality(Payloads(batch[w]))]
    /\ UNCHANGED <<queueVars, notices, writes, aiVars, job, scanVars, cause,
                   held, envVars>>

(* Faulty variant: the retry is published before the attempt has ended. *)
RecordFailureAndRetry(w, a) ==
    /\ Transition(w, "fail", "raise")
    /\ a \in RowsOf(job[w].task)
    /\ runs' = [runs EXCEPT ![a].status = "failed", ![a].error = TRUE]
    /\ crawlQ' = crawlQ \union {job[w]}
    /\ UNCHANGED <<sent, notices, writes, aiVars, job, scanVars, cause, held,
                   envVars>>

RecordFailure(w, a) ==
    /\ Transition(w, "fail", "raise")
    /\ a \in RowsOf(job[w].task)
    /\ runs' = [runs EXCEPT ![a].status = "failed", ![a].error = TRUE]
    /\ UNCHANGED <<queueVars, notices, writes, aiVars, job, scanVars, cause,
                   held, envVars>>

(* Faulty variant: one retry more than max_retries. *)
MayRetryOnceMore(w) == cause[w] = "network" /\ job[w].retry <= MaxRetries

MayRetry(w) == cause[w] = "network" /\ job[w].retry < MaxRetries

(* Faulty variant: the retry does not count as one. *)
RetryUncounted(w) ==
    /\ pc[w] = "raise"
    /\ MayRetry(w)
    /\ crawlQ' = crawlQ \union {job[w]}
    /\ EndAttempt(w)
    /\ UNCHANGED <<sent, dbVars, aiVars, envVars>>

(* autoretry_for: the same task id goes back to the broker. *)
Retry(w) ==
    LET next == [job[w] EXCEPT !.retry = @ + 1] IN
    /\ pc[w] = "raise"
    /\ MayRetry(w)
    /\ crawlQ' = crawlQ \union {next}
    /\ sent' = sent \union {next}
    /\ EndAttempt(w)
    /\ UNCHANGED <<dbVars, aiVars, envVars>>

GiveUp(w) ==
    /\ pc[w] = "raise"
    /\ ~MayRetry(w)
    /\ EndAttempt(w)
    /\ UNCHANGED <<queueVars, dbVars, aiVars, envVars>>

(* One process_notice_ai_task.delay(nid) of the final loop. *)
EnqueueAi(w, h) ==
    /\ pc[w] = "handoff"
    /\ h \in held[w]
    /\ published' = published \union {h}
    /\ held' = [held EXCEPT ![w] = @ \ {h}]
    /\ UNCHANGED <<queueVars, dbVars, lost, pc, job, scanVars, cause, envVars>>

(* Faulty variant: the loop may end before every id is published. *)
FinishEarly(w) ==
    /\ pc[w] = "handoff"
    /\ EndAttempt(w)
    /\ UNCHANGED <<queueVars, dbVars, aiVars, envVars>>

Finish(w) ==
    /\ pc[w] = "handoff"
    /\ held[w] = {}
    /\ EndAttempt(w)
    /\ UNCHANGED <<queueVars, dbVars, aiVars, envVars>>
-------------------------------------------------------------------------------
(***************************************************************************)
(* Failures.  All of them abandon the attempt: what it has committed stays,*)
(* what it had still to do is forgotten.                                   *)
(***************************************************************************)

Abandon(w) ==
    /\ faults < MaxFaults
    /\ faults' = faults + 1
    /\ lost' = lost \union held[w]
    /\ EndAttempt(w)
    /\ UNCHANGED <<queueVars, dbVars, published, site, deletes>>

(* The worker process is killed (deploy, out of memory). *)
Crash(w) == pc[w] # "idle" /\ Abandon(w)

(* A statement or commit fails: in the try block the handler's own query     *)
(* fails too (see UpsertRefused); outside it nothing handles the error.      *)
DbError(w) ==
    /\ \/ pc[w] \in {"start", "links", "record", "fail"}
       \/ pc[w] = "scrape" /\ todo[w] = {} /\ Payloads(batch[w]) # {}
    /\ Abandon(w)

(* The broker refuses a publication: kombu's OperationalError is not in     *)
(* autoretry_for, and a retry that cannot be published is rejected.         *)
BrokerError(w) ==
    /\ \/ pc[w] = "raise" /\ MayRetry(w)
       \/ pc[w] = "handoff" /\ held[w] # {}
    /\ Abandon(w)
-------------------------------------------------------------------------------
Environment ==
    \/ \E p \in Posts : EditSite(p)
    \/ \E t \in Tasks : SubmitCrawl(t)
    \/ \E a \in Attempts : Redeliver(a)
    \/ \E c \in Colleges : \E K \in SUBSET Keys \ {{}} : DeleteNotices(c, K)

(* What a live worker does next with the attempt it holds. *)
Proceed(w) ==
    \/ UnknownCollege(w) \/ OpenRun(w) \/ RefuseCollege(w)
    \/ \E L \in SUBSET Posts : FetchLinks(w, L)
    \/ FetchLinksFails(w)
    \/ \E p \in Posts : Scrape(w, p) \/ SkipPost(w, p) \/ ScrapeFails(w, p)
    \/ Upsert(w) \/ UpsertRefused(w)
    \/ \E a \in Attempts : RecordSuccess(w, a) \/ RecordFailure(w, a)
    \/ Retry(w) \/ GiveUp(w)
    \/ \E h \in held[w] : EnqueueAi(w, h)
    \/ Finish(w)

Work(w) == (\E a \in Attempts : Receive(w, a)) \/ Proceed(w)

Fault(w) == Crash(w) \/ DbError(w) \/ BrokerError(w)

Next == Environment \/ \E w \in Workers : Work(w) \/ Fault(w)

Spec == Init /\ [][Next]_vars

(* A worker that is up keeps working; nothing forces the environment or a   *)
(* failure.  Every network call has a timeout (crawl_http.fetch_html), so a *)
(* step of an attempt ends.                                                 *)
FairSpec == Spec /\ \A w \in Workers : WF_vars(Work(w))
-------------------------------------------------------------------------------
(***************************************************************************)
(* Properties.                                                             *)
(***************************************************************************)

RunRow == [status : {"none", "running", "success", "failed"},
           upserted : Nat, error : BOOLEAN]
NoticeRow == [id : Nat, rev : Nat, content : Contents \union {NoContent}]

(* Every variable has its type; in particular no attempt is ever numbered   *)
(* past max_retries.                                                        *)
TypeOK ==
    /\ site \in [Posts -> 0..MaxEdits]
    /\ crawlQ \subseteq Attempts
    /\ sent \subseteq Attempts
    /\ runs \in [Attempts -> RunRow]
    /\ notices \in [Keys -> NoticeRow]
    /\ writes \in [Keys -> Nat]
    /\ published \subseteq Change
    /\ lost \subseteq Change
    /\ pc \in [Workers -> {"idle", "start", "links", "scrape", "record",
                            "fail", "raise", "handoff"}]
    /\ job \in [Workers -> Attempts \union {NoJob}]
    /\ \A w \in Workers : job[w] = NoJob <=> pc[w] = "idle"
    /\ todo \in [Workers -> SUBSET {p \in Posts : site[p] > 0}]
    /\ batch \in [Workers -> [Keys -> Contents \union {NoContent}]]
    /\ raised \in [Workers -> BOOLEAN]
    /\ cause \in [Workers -> {"none", "network", "value"}]
    /\ held \in [Workers -> SUBSET Change]
    /\ faults \in 0..MaxFaults
    /\ deletes \in 0..MaxDeletes

InFlight == UNION {held[w] : w \in Workers}
Committed == published \union lost \union InFlight

(* tasks.py:60-72 commits first and publishes afterwards.  Whatever the      *)
(* interleaving, each write of a notice row is published, or still in the    *)
(* hands of a live attempt, or was lost to a failure: never just forgotten   *)
(* (a RETURNING that misses a row, a loop left early, a handler that drops   *)
(* the ids).                                                                 *)
HandoffTracked ==
    /\ \A k \in Keys : \A n \in 1..writes[k] :
          \E h \in Committed : h.key = k /\ h.rev = n
    /\ faults = 0 => lost = {}

(* The hash comparison of the upsert makes concurrent crawls and retries     *)
(* hand a change over at most once: no two attempts hold one write of one    *)
(* row, none holds a write already published or lost, and every change       *)
(* handed over is a write that took place.                                   *)
HandoffOnce ==
    /\ \A w \in Workers : held[w] \intersect (published \union lost) = {}
    /\ \A v, w \in Workers : v # w => held[v] \intersect held[w] = {}
    /\ published \intersect lost = {}
    /\ \A h \in Committed : h.rev \in 1..writes[h.key]
    /\ \A g, h \in Committed : g.key = h.key /\ g.rev = h.rev => g = h

(* The inductive invariant behind both: only an attempt that has committed   *)
(* holds changes.                                                            *)
HandoffInv ==
    /\ HandoffTracked
    /\ HandoffOnce
    /\ \A w \in Workers : held[w] # {} => pc[w] \in {"record", "handoff"}

(* process_notice_ai_task looks its notice up by the id it was given.        *)
TaskFinds(h) == notices[h.key].id = h.id

(* tasks.py:97 skips a notice it does not find and reads the one it finds as *)
(* it is by then.  Unless the rerun script has deleted it, the notice of a   *)
(* change is found, however late the AI task runs and whatever crawls did    *)
(* since; it is never older than the change; and the version stored under a  *)
(* key is always one an AI task was due for, under the id the row has now.   *)
AiReadsCurrent ==
    /\ \A h \in Committed :
          /\ h.id > 0
          /\ TaskFinds(h) => notices[h.key].rev >= h.rev
          /\ deletes = 0 => TaskFinds(h)
    /\ \A k \in Keys : notices[k] # NoRow =>
          [key |-> k, id |-> notices[k].id, rev |-> notices[k].rev] \in Committed

SameLine(a, b) == a.task = b.task /\ a.copy = b.copy

(* Retries are sequential: while an attempt of a delivery runs, no other     *)
(* attempt of it runs or waits in the broker (the retry is published as the  *)
(* last thing an attempt does).                                              *)
OneLivePerLine ==
    /\ \A v, w \in Workers :
          v # w /\ job[v] # NoJob /\ job[w] # NoJob => ~SameLine(job[v], job[w])
    /\ \A w \in Workers : \A a \in crawlQ :
          job[w] # NoJob => ~SameLine(job[w], a)
    /\ \A a, b \in crawlQ : SameLine(a, b) => a = b

(* Each attempt of a delivery runs once, so that max_retries bounds the      *)
(* crawls of a delivery: nothing that was published is published again, and  *)
(* no attempt inserts a crawl_runs row a second time.                        *)
AttemptsRunOnce ==
    [][/\ (crawlQ' \ crawlQ) \intersect sent = {}
       /\ \A w \in Workers : OpenRun(w) => runs[job[w]].status = "none"]_vars

(* From its commit to its last update the row of an attempt is there, so     *)
(* that update_crawl_run_sync always finds one, and /internal/crawl-stats    *)
(* shows a crawl that runs as running: no earlier attempt of the task writes *)
(* over it, as long as the broker delivers a message once.                   *)
LiveRunsShown ==
    \A w \in Workers : pc[w] \in {"links", "scrape", "record", "fail"} =>
        /\ runs[job[w]].status # "none"
        /\ MaxCopies = 1 => runs[job[w]].status = "running"

(* A crawl_runs row that says success keeps saying so, although a later      *)
(* update may pick any row of the task: true as long as the broker delivers  *)
(* a message once.                                                           *)
SuccessIsFinal ==
    [][\A a \in Attempts :
         runs[a].status = "success" => runs'[a].status = "success"]_vars

(* The pipeline implements the change feed: every change is settled exactly  *)
(* once, by a publication or by a failure.                                   *)
Feed == INSTANCE ChangeFeed WITH
            Changes <- Change, due <- Committed,
            delivered <- published, dropped <- lost
FeedSpec == Feed!Spec

Settled(t) == /\ \A a \in crawlQ : a.task # t
              /\ \A w \in Workers : job[w] # NoJob => job[w].task # t

(* Retries are bounded: a crawl request is eventually over, whatever the     *)
(* sites, the database and the broker do.                                    *)
TasksSettle ==
    \A t \in Tasks : (\E a \in sent : a.task = t) ~> Settled(t)

(* Every committed change is eventually published or lost to a failure: an   *)
(* attempt does not keep changes to itself.                                  *)
ChangesResolved ==
    \A k \in Keys : \A n \in 1..Cardinality(Tasks) :
        (writes[k] >= n) ~> (\E h \in published \union lost :
                               h.key = k /\ h.rev = n)

(* With the one worker process of DEPLOYMENT.md:149 a row never goes back to *)
(* an older version of its posting.                                          *)
NeverOlder ==
    [][\A k \in Keys :
         LET old == notices[k].content
             new == notices'[k].content
         IN  old # NoContent /\ new # NoContent /\ old[1] = new[1]
               => new[2] >= old[2]]_vars

(* ROADMAP.md:248: for a changed or new notice the AI task is enqueued.      *)
ChangesReachAi ==
    \A k \in Keys : \A n \in 1..Cardinality(Tasks) :
        (writes[k] >= n) ~> (\E h \in published : h.key = k /\ h.rev = n)

(* ROADMAP.md:287: a RequestException is raised so that the task is retried, *)
(* and no code returns normally after catching one.                          *)
ScrapeErrorsRaise ==
    \A w \in Workers : pc[w] = "record" => ~raised[w]

(* ROADMAP.md:310: one bad notice does not roll the others back.             *)
ValidRowsStored ==
    [][\A w \in Workers : UpsertRefused(w) =>
         \A k \in Payloads(batch[w]) :
            batch[w][k][1] \notin BadPosts => notices'[k].content = batch[w][k]]_vars

(* crawl_run.py:1: the history records success or failure of every crawl: a  *)
(* task that is over, in a world without failures of the infrastructure,     *)
(* leaves no row saying "running".                                           *)
NoRunLeftOpen ==
    \A a \in Attempts : runs[a].status = "running" => ~Settled(a.task)
===============================================================================
