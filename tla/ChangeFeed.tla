------------------------------ MODULE ChangeFeed ------------------------------
(***************************************************************************)
(* What the crawler promises to the AI stage, without workers, sessions or *)
(* queues: a set of changes (a notice row inserted, or rewritten because   *)
(* its content hash differs) becomes due when a crawl commits it, and each *)
(* due change is settled once, either delivered to the AI queue or dropped *)
(* by a failure.  CrawlTask is shown to implement this module.             *)
(***************************************************************************)
CONSTANT Changes          \* every change a row can undergo

VARIABLES due,            \* committed changes
          delivered,      \* changes whose AI task has been published
          dropped         \* changes whose AI task will never be published

feedVars == <<due, delivered, dropped>>

Settled == delivered \union dropped

Init == /\ due = {}
        /\ delivered = {}
        /\ dropped = {}

(* A crawl commits changes nobody has committed before. *)
Commit ==
    /\ due \subseteq due'
    /\ due' \subseteq Changes
    /\ UNCHANGED <<delivered, dropped>>

(* One due change reaches the AI queue, for the first and only time. *)
Deliver(c) ==
    /\ c \in due \ Settled
    /\ delivered' = delivered \union {c}
    /\ UNCHANGED <<due, dropped>>

(* A failure loses due changes nobody had delivered. *)
Drop(S) ==
    /\ S \subseteq due \ Settled
    /\ dropped' = dropped \union S
    /\ UNCHANGED <<due, delivered>>

Next == \/ Commit
        \/ \E c \in due : Deliver(c)
        \/ \E S \in SUBSET due : Drop(S)

Spec == Init /\ [][Next]_feedVars
===============================================================================
