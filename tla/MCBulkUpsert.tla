---------------------------- MODULE MCBulkUpsert ----------------------------
(* Instance of BulkUpsert for TLC. *)
EXTENDS BulkUpsert

CONSTANTS k1, k2, x, y

(* The list page before and after the notice k1 was edited. *)
Before == [k \in Keys |-> x]
After  == [k \in Keys |-> IF k = k1 THEN y ELSE x]
TwoPages == {Before, After}
===============================================================================
