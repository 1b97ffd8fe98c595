--------------------------- MODULE MCPendingCalls ---------------------------
(* Small instances of PendingCalls for TLC.                                *)
EXTENDS PendingCalls, TLC

UnitSymmetry == Permutations(Units)

(* One thread does everything, the others run guest code in the core.      *)
CallHost ==
    LET first == CHOOSE t \in Threads : TRUE IN
    [t \in Threads |->
       IF t = first THEN {"core", "replacement", "resident", "callback", "park"}
       ELSE {"core"}]
=============================================================================
