----------------------------- MODULE AtomicUpsert -----------------------------
(***************************************************************************)
(* What the crawl pipeline relies on when it stores a batch: the bulk      *)
(* upsert of one crawl takes effect at one instant or not at all, whatever *)
(* other crawls and the rerun script do, and its RETURNING names exactly   *)
(* the notices whose content it changed at that instant.  (Upsert and      *)
(* DeleteNotices of CrawlTask are such instants.)                          *)
(***************************************************************************)
CONSTANTS Crawls, Scripts, Keys, Contents, NoContent

VARIABLES content,     \* content[k]: what table notices holds under key k
          status,      \* "idle", "open", "committed" or "aborted"
          batch,       \* the payloads of each crawl
          returned     \* the keys its upsert has returned

upsertVars == <<content, status, batch, returned>>

Batches == [Keys -> Contents \union {NoContent}]
Payloads(b) == {k \in Keys : b[k] # NoContent}

Init == /\ content = [k \in Keys |-> NoContent]
        /\ status = [t \in Crawls \union Scripts |-> "idle"]
        /\ batch = [t \in Crawls |-> [k \in Keys |-> NoContent]]
        /\ returned = [t \in Crawls |-> {}]

Becomes(t, from, to) ==
    /\ status[t] = from
    /\ status' = [status EXCEPT ![t] = to]

Open(t, b) ==
    /\ Becomes(t, "idle", "open")
    /\ batch' = [batch EXCEPT ![t] = b]
    /\ UNCHANGED <<content, returned>>

OpenScript(d) ==
    /\ Becomes(d, "idle", "open")
    /\ UNCHANGED <<content, batch, returned>>

Apply(t) ==
    LET P == Payloads(batch[t]) IN
    /\ Becomes(t, "open", "committed")
    /\ content' = [k \in Keys |-> IF k \in P THEN batch[t][k] ELSE content[k]]
    /\ returned' = [returned EXCEPT ![t] = {k \in P : content[k] # batch[t][k]}]
    /\ UNCHANGED batch

Remove(d, K) ==
    /\ Becomes(d, "open", "committed")
    /\ content' = [k \in Keys |-> IF k \in K THEN NoContent ELSE content[k]]
    /\ UNCHANGED <<batch, returned>>

Abort(t) ==
    /\ Becomes(t, "open", "aborted")
    /\ UNCHANGED <<content, batch, returned>>

Next == \/ \E t \in Crawls : \E b \in Batches : Open(t, b)
        \/ \E t \in Crawls : Apply(t)
        \/ \E d \in Scripts : OpenScript(d) \/ \E K \in SUBSET Keys : Remove(d, K)
        \/ \E t \in Crawls \union Scripts : Abort(t)

Spec == Init /\ [][Next]_upsertVars
===============================================================================
