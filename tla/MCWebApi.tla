------------------------------- MODULE MCWebApi -------------------------------
(* Instance of WebApi for TLC. *)
EXTENDS WebApi

CONSTANTS a1, a2, c1, c2, c3, e1

(* Two codes of one account, the first without a profile; one of another. *)
CodeOwner   == [c \in Codes |-> IF c = c3 THEN a2 ELSE a1]
CodeProfile == [c \in Codes |-> IF c = c2 THEN e1 ELSE NoProfile]

(* DB_CONNECT_RETRIES: as deployed, smaller, and nonsense. *)
Retries == {-1, 0, 2}
===============================================================================
