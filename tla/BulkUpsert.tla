------------------------------ MODULE BulkUpsert ------------------------------
(***************************************************************************)
(* The statement upsert_notices_bulk_sync                                  *)
(* (app/repositories/notice_repository.py) sends, as PostgreSQL executes   *)
(* it: row by row, each row locked until the transaction ends, while other *)
(* crawls and scripts/delete_notices_for_rerun.py do the same in another   *)
(* order.  Two statements can wait for each other; PostgreSQL then aborts  *)
(* one of them.                                                            *)
(***************************************************************************)
EXTENDS Naturals

CONSTANTS
    Crawls,       \* crawls, each with one transaction that upserts
    Scripts,      \* executions of the rerun script
    Keys,         \* (college_id, external_id) pairs
    Contents,     \* contents told apart by content_hash
    Pages,        \* batches the crawls may come to
    NoContent, NoKey, NoTx

Txs == Crawls \union Scripts
Batches == [Keys -> Contents \union {NoContent}]
Row == [id : Nat, content : Contents \union {NoContent}]

ASSUME StorageOK ==
    /\ Crawls \intersect Scripts = {}
    /\ Pages \subseteq Batches
    /\ NoContent \notin Contents
    /\ NoKey \notin Keys
    /\ NoTx \notin Txs

VARIABLES
    table,     \* table notices as committed, one slot per key
    serial,    \* last value of the id sequence
    lock,      \* the transaction that has locked or inserted a key's row
    draft,     \* the row under each key as the holder of its lock sees it
    state,     \* "idle", "running", "committed", "victim" or "failed"
    batch,     \* the VALUES of each crawl's statement, by key
    seen,      \* the rows (ids) a script's statement sees when it starts
    left,      \* keys the statement has still to visit
    want,      \* the key whose row it is at, or waits for
    returned   \* keys of the rows it has inserted or updated: RETURNING

stmtVars == <<batch, seen, left, want, returned>>
vars == <<table, serial, lock, draft, state, batch, seen, left, want, returned>>

NoRow == [id |-> 0, content |-> NoContent]
Payloads(b) == {k \in Keys : b[k] # NoContent}

Init ==
    /\ table = [k \in Keys |-> NoRow] /\ serial = 0
    /\ lock = [k \in Keys |-> NoTx] /\ draft = table
    /\ state = [t \in Txs |-> "idle"]
    /\ batch = [t \in Crawls |-> [k \in Keys |-> NoContent]]
    /\ seen = [d \in Scripts |-> [k \in Keys |-> 0]]
    /\ left = [t \in Txs |-> {}]
    /\ want = [t \in Txs |-> NoKey]
    /\ returned = [t \in Crawls |-> {}]
-------------------------------------------------------------------------------
(* A batch without payloads sends no statement; a batch names a key once.    *)
BeginUpsert(t, b) ==
    /\ state[t] = "idle"
    /\ Payloads(b) # {}
    /\ state' = [state EXCEPT ![t] = "running"]
    /\ batch' = [batch EXCEPT ![t] = b]
    /\ left' = [left EXCEPT ![t] = Payloads(b)]
    /\ UNCHANGED <<table, serial, lock, draft, seen, want, returned>>

(* DELETE of the rows of a college, within a range of created_at: any of    *)
(* those that are committed when the statement starts.                      *)
BeginDelete(d, K) ==
    /\ state[d] = "idle"
    /\ \A k \in K : table[k] # NoRow
    /\ state' = [state EXCEPT ![d] = "running"]
    /\ seen' = [seen EXCEPT ![d] = [k \in Keys |-> table[k].id]]
    /\ left' = [left EXCEPT ![d] = K]
    /\ UNCHANGED <<table, serial, lock, draft, batch, want, returned>>

(* The next row: in the order of the list page, or of the table's pages.  No *)
(* two statements need agree on it.                                          *)
Reach(t, k) ==
    /\ state[t] = "running"
    /\ want[t] = NoKey
    /\ k \in left[t]
    /\ want' = [want EXCEPT ![t] = k]
    /\ left' = [left EXCEPT ![t] = @ \ {k}]
    /\ UNCHANGED <<table, serial, lock, draft, state, batch, seen, returned>>

At(t, k) == state[t] = "running" /\ want[t] = k

(* content_hash IS DISTINCT FROM excluded.content_hash, or no row at all. *)
Differs(k, b) == table[k].content # b[k]

RowAfter(k, b) ==
    [id |-> IF table[k] = NoRow THEN serial + 1 ELSE table[k].id, content |-> b[k]]

(* Faulty variant: the comparison is made before the lock is obtained. *)
WriteRowUnlocked(t, k) ==
    /\ At(t, k)
    /\ lock' = [lock EXCEPT ![k] = t]
    /\ draft' = [draft EXCEPT ![k] = IF Differs(k, batch[t])
                                     THEN RowAfter(k, batch[t]) ELSE table[k]]
    /\ returned' = [returned EXCEPT ![t] = IF Differs(k, batch[t])
                                           THEN @ \union {k} ELSE @]
    /\ serial' = IF table[k] = NoRow THEN serial + 1 ELSE serial
    /\ want' = [want EXCEPT ![t] = NoKey]
    /\ UNCHANGED <<table, state, batch, seen, left>>

(* Faulty variant: rows that need no update are not locked. *)
WriteRowLocksWritten(t, k) ==
    /\ At(t, k) /\ lock[k] = NoTx
    /\ lock' = [lock EXCEPT ![k] = IF Differs(k, batch[t]) THEN t ELSE NoTx]
    /\ draft' = [draft EXCEPT ![k] = IF Differs(k, batch[t])
                                     THEN RowAfter(k, batch[t]) ELSE table[k]]
    /\ returned' = [returned EXCEPT ![t] = IF Differs(k, batch[t])
                                           THEN @ \union {k} ELSE @]
    /\ serial' = IF table[k] = NoRow THEN serial + 1 ELSE serial
    /\ want' = [want EXCEPT ![t] = NoKey]
    /\ UNCHANGED <<table, state, batch, seen, left>>

(* INSERT ... ON CONFLICT DO UPDATE at one row: it waits for a transaction   *)
(* that has written or inserted the row, locks it, compares the hashes of    *)
(* the row as it is now and inserts, updates or leaves it.  The lock is kept *)
(* in each case.                                                             *)
WriteRow(t, k) ==
    /\ At(t, k) /\ lock[k] = NoTx
    /\ lock' = [lock EXCEPT ![k] = t]
    /\ draft' = [draft EXCEPT ![k] = IF Differs(k, batch[t])
                                     THEN RowAfter(k, batch[t]) ELSE table[k]]
    /\ returned' = [returned EXCEPT ![t] = IF Differs(k, batch[t])
                                           THEN @ \union {k} ELSE @]
    /\ serial' = IF table[k] = NoRow THEN serial + 1 ELSE serial
    /\ want' = [want EXCEPT ![t] = NoKey]
    /\ UNCHANGED <<table, state, batch, seen, left>>

(* DELETE at one row; a row deleted while it waited is passed over, also if *)
(* a crawl has stored the notice again under another id.                    *)
DeleteRow(d, k) ==
    /\ At(d, k) /\ lock[k] = NoTx
    /\ IF table[k].id = seen[d][k]
       THEN /\ lock' = [lock EXCEPT ![k] = d]
            /\ draft' = [draft EXCEPT ![k] = NoRow]
       ELSE UNCHANGED <<lock, draft>>
    /\ want' = [want EXCEPT ![d] = NoKey]
    /\ UNCHANGED <<table, serial, state, batch, seen, left, returned>>

(* Faulty variant: a session is not closed when its statement fails. *)
EndUnclosed(t, outcome) ==
    /\ state' = [state EXCEPT ![t] = outcome]
    /\ table' = [k \in Keys |-> IF lock[k] = t /\ outcome = "committed"
                                THEN draft[k] ELSE table[k]]
    /\ draft' = [k \in Keys |-> IF lock[k] = t THEN table'[k] ELSE draft[k]]
    /\ lock' = [k \in Keys |-> IF lock[k] = t /\ outcome = "committed"
                               THEN NoTx ELSE lock[k]]
    /\ left' = [left EXCEPT ![t] = {}]
    /\ want' = [want EXCEPT ![t] = NoKey]
    /\ seen' = [d \in Scripts |-> IF d = t THEN [k \in Keys |-> 0] ELSE seen[d]]
    /\ UNCHANGED <<serial, batch, returned>>

(* The transaction ends: its locks are released, its drafts are the table's *)
(* rows (commit) or are thrown away (rollback), its statement is forgotten.  *)
End(t, outcome) ==
    /\ state' = [state EXCEPT ![t] = outcome]
    /\ table' = [k \in Keys |-> IF lock[k] = t /\ outcome = "committed"
                                THEN draft[k] ELSE table[k]]
    /\ draft' = [k \in Keys |-> IF lock[k] = t THEN table'[k] ELSE draft[k]]
    /\ lock' = [k \in Keys |-> IF lock[k] = t THEN NoTx ELSE lock[k]]
    /\ left' = [left EXCEPT ![t] = {}]
    /\ want' = [want EXCEPT ![t] = NoKey]
    /\ seen' = [d \in Scripts |-> IF d = t THEN [k \in Keys |-> 0] ELSE seen[d]]
    /\ UNCHANGED <<serial, batch, returned>>

(* session.commit() after the statement has visited every row. *)
Commit(t) ==
    /\ state[t] = "running"
    /\ left[t] = {} /\ want[t] = NoKey
    /\ End(t, "committed")

(* The transaction t waits for. *)
Blocker(t) == IF state[t] = "running" /\ want[t] # NoKey THEN lock[want[t]] ELSE NoTx

(* Faulty variant: a statement is aborted because it takes long. *)
Overdue(t) == state[t] = "running"

(* t is part of a cycle of transactions that wait for each other. *)
Deadlocked(t) ==
    \E C \in SUBSET Txs : t \in C /\ {Blocker(u) : u \in C} = C

(* After deadlock_timeout PostgreSQL aborts one transaction of the cycle.    *)
(* The OperationalError is not in autoretry_for: the crawl fails for good.   *)
AbortVictim(t) == Deadlocked(t) /\ End(t, "victim")

(* The worker dies, the connection breaks, the database refuses a row. *)
Fail(t) == state[t] = "running" /\ End(t, "failed")

Step(t) ==
    \/ \E k \in Keys : \/ Reach(t, k)
                       \/ t \in Crawls /\ WriteRow(t, k)
                       \/ t \in Scripts /\ DeleteRow(t, k)
    \/ Commit(t)

Next ==
    \/ \E t \in Crawls : \E b \in Pages : BeginUpsert(t, b)
    \/ \E d \in Scripts : \E K \in SUBSET Keys : BeginDelete(d, K)
    \/ \E t \in Txs : Step(t) \/ AbortVictim(t) \/ Fail(t)

Spec == Init /\ [][Next]_vars

(* PostgreSQL executes a statement that need not wait, and runs its deadlock *)
(* detector.                                                                 *)
FairSpec ==
    /\ Spec
    /\ \A t \in Txs : WF_vars(Step(t))
    /\ WF_vars(\E t \in Txs : AbortVictim(t))
-------------------------------------------------------------------------------
TypeOK ==
    /\ table \in [Keys -> Row]
    /\ serial \in Nat
    /\ lock \in [Keys -> Txs \union {NoTx}]
    /\ draft \in [Keys -> Row]
    /\ state \in [Txs -> {"idle", "running", "committed", "victim", "failed"}]
    /\ batch \in [Crawls -> Batches]
    /\ seen \in [Scripts -> [Keys -> Nat]]
    /\ left \in [Txs -> SUBSET Keys]
    /\ want \in [Txs -> Keys \union {NoKey}]
    /\ returned \in [Crawls -> SUBSET Keys]
    /\ \A k \in Keys : lock[k] # NoTx => state[lock[k]] = "running"

(* notice_repository.py:182 returns the rows that really changed.  A         *)
(* statement decides row by row, long before its commit, which rows change;  *)
(* no commit of anybody else makes such a decision wrong before its own.     *)
DecisionsStand ==
    \A t \in Crawls : state[t] = "running" =>
        \A k \in Payloads(batch[t]) \ (left[t] \union {want[t]}) :
            /\ draft[k].content = batch[t][k]
            /\ k \in returned[t] <=> table[k].content # batch[t][k]

(* Aborting victims does not stop everybody: when some transaction was       *)
(* aborted to end a deadlock and nothing else fails, another one is running  *)
(* or has committed.                                                         *)
VictimMakesWay ==
    (\E t \in Txs : state[t] = "victim") =>
        \E u \in Txs : state[u] \in {"running", "committed", "failed"}

(* Whoever waits, waits for a running transaction or in a cycle the detector *)
(* will part: among transactions that wait for no others, if one is running, *)
(* one need not wait or is deadlocked.  No lock outlives its transaction.    *)
WaitsEnd ==
    \A S \in SUBSET Txs :
        /\ \E t \in S : state[t] = "running"
        /\ \A t \in S : Blocker(t) \in S \union {NoTx}
        => \E t \in S : state[t] = "running" /\ (Blocker(t) = NoTx \/ Deadlocked(t))

(* Row by row, with waiting and victims, the statement implements the upsert *)
(* that takes effect at once or not at all.                                  *)
Atomic == INSTANCE AtomicUpsert WITH
    content <- [k \in Keys |-> table[k].content],
    status <- [t \in Txs |-> [idle |-> "idle", running |-> "open",
                              committed |-> "committed", victim |-> "aborted",
                              failed |-> "aborted"][state[t]]],
    returned <- [t \in Crawls |-> IF state[t] = "committed" THEN returned[t] ELSE {}]
AtomicSpec == Atomic!Spec

(* crawl_service.py:351-355 keeps its transaction open until the statement   *)
(* has ended.  It does end: statements that wait for each other are parted,  *)
(* and those that wait for a failed one go on.                               *)
StatementsEnd == []<>(\A t \in Txs : state[t] # "running")
===============================================================================
