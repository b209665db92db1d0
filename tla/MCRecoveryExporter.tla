-------------------------- MODULE MCRecoveryExporter --------------------------
(* The two ranges, three cells each, every cell told apart by its place;   *)
(* one reader, reads of one or two cells.                                  *)
EXTENDS RecoveryExporter

CONSTANTS f1

TheRegions == {"ramoops", "reserved"}
OneFile    == {f1}
Placed     == {[r \in TheRegions |-> [i \in 1 .. 3 |-> <<r, i>>]]}

==============================================================================
