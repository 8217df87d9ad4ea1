-------------------------------- MODULE Trigger --------------------------------
(***************************************************************************)
(* POST /internal/trigger-crawl (app/api/internal.py): a cron job asks for *)
(* the crawl of one college or of all; the handler publishes one message   *)
(* per college, the i-th with a countdown of i staggering intervals.  A    *)
(* broker that fails in the middle ends the request with what is already   *)
(* published; the client can only repeat all of it.                        *)
(***************************************************************************)
EXTENDS Naturals, FiniteSets

CONSTANTS
    Calls,       \* requests to the endpoint
    Colleges     \* COLLEGE_CODE_TO_MODULE

ASSUME CollegesOK == IsFiniteSet(Colleges)

VARIABLES
    queue,       \* messages published: college, request and countdown
    asked,       \* colleges each request names
    told,        \* the answer's task list, as long as it is being built
    reply        \* "none", "open", "ok", "refused" or "failed"

triggerVars == <<queue, asked, told, reply>>

Message == [college : Colleges, by : Calls, countdown : Nat]

TriggerInit ==
    /\ queue = {}
    /\ asked = [q \in Calls |-> {}]
    /\ told = [q \in Calls |-> {}]
    /\ reply = [q \in Calls |-> "none"]

Of(q) == {m \in queue : m.by = q}
-------------------------------------------------------------------------------
(* The secret is right; no college_code, or a known one. *)
CallTrigger(q, C) ==
    /\ reply[q] = "none"
    /\ C = Colleges \/ \E c \in Colleges : C = {c}
    /\ asked' = [asked EXCEPT ![q] = C]
    /\ reply' = [reply EXCEPT ![q] = "open"]
    /\ UNCHANGED <<queue, told>>

(* 503 without a configured secret, 401 for a wrong one, 400 for an unknown *)
(* college: all before the loop.                                            *)
RefuseTrigger(q) ==
    /\ reply[q] = "none"
    /\ reply' = [reply EXCEPT ![q] = "refused"]
    /\ UNCHANGED <<queue, asked, told>>

ToldColleges(q) == {m.college : m \in told[q]}

(* Faulty variant: the countdown does not follow the position. *)
NextMessageAtOnce(q, c) == [college |-> c, by |-> q, countdown |-> 0]

(* apply_async(args=[code], countdown=i * CRAWL_STAGGER_SECONDS); the unit   *)
(* of a countdown is one interval.                                          *)
NextMessage(q, c) == [college |-> c, by |-> q, countdown |-> Cardinality(told[q])]

Publish(q, c) ==
    /\ reply[q] = "open"
    /\ c \in asked[q] \ ToldColleges(q)
    /\ queue' = queue \union {NextMessage(q, c)}
    /\ told' = [told EXCEPT ![q] = @ \union {NextMessage(q, c)}]
    /\ UNCHANGED <<asked, reply>>

(* Faulty variant: the loop goes on after a failed publication. *)
BrokerFailsQuietly(q, c) ==
    /\ reply[q] = "open"
    /\ c \in asked[q] \ ToldColleges(q)
    /\ queue' = queue
    /\ told' = [told EXCEPT ![q] = @ \union {NextMessage(q, c)}]
    /\ UNCHANGED <<asked, reply>>

(* Redis fails: the exception ends the loop and becomes a 500.  The message *)
(* may have been stored although its acknowledgement was lost.              *)
BrokerFails(q, c) ==
    /\ reply[q] = "open"
    /\ c \in asked[q] \ ToldColleges(q)
    /\ queue' \in {queue, queue \union {NextMessage(q, c)}}
    /\ reply' = [reply EXCEPT ![q] = "failed"]
    /\ UNCHANGED <<asked, told>>

(* 200 with the list of tasks. *)
Enqueued(q) ==
    /\ reply[q] = "open"
    /\ ToldColleges(q) = asked[q]
    /\ reply' = [reply EXCEPT ![q] = "ok"]
    /\ UNCHANGED <<queue, asked, told>>

TriggerCrash ==
    /\ reply' = [q \in Calls |-> IF reply[q] = "open" THEN "failed" ELSE reply[q]]
    /\ UNCHANGED <<queue, asked, told>>

TriggerStep(q) ==
    \/ \E c \in Colleges : Publish(q, c) \/ BrokerFails(q, c)
    \/ Enqueued(q)
-------------------------------------------------------------------------------
TriggerTypeOK ==
    /\ queue \subseteq Message
    /\ asked \in [Calls -> SUBSET Colleges]
    /\ told \in [Calls -> SUBSET Message]
    /\ reply \in [Calls -> {"none", "open", "ok", "refused", "failed"}]

(* internal.py:70-79: an answer 200 names exactly the messages published,    *)
(* one for every college asked for, whatever the broker did meanwhile; any   *)
(* other outcome has published at most one message per college asked for.    *)
AnswerTellsQueue ==
    \A q \in Calls :
        /\ reply[q] = "ok" => Of(q) = told[q] /\ ToldColleges(q) = asked[q]
        /\ \A m \in Of(q) : m.college \in asked[q]
        /\ \A m, n \in Of(q) : m.college = n.college => m = n

(* internal.py:17 spreads the start of the crawls: two messages of one       *)
(* request never start together, also when the broker has failed.            *)
CrawlsSpread ==
    \A m, n \in queue : m.by = n.by /\ m.countdown = n.countdown => m = n
===============================================================================
