--------------------------- MODULE MCAdminConsole ---------------------------
(* Instances of AdminConsole for TLC. *)
EXTENDS AdminConsole, TLC

CONSTANTS r1, r2

SlotSymmetry == Permutations(Slots)
=============================================================================
