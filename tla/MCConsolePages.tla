--------------------------- MODULE MCConsolePages ---------------------------
(* Instances of ConsolePages for TLC. *)
EXTENDS ConsolePages, TLC

CONSTANTS s1, s2

\* The flows are interchangeable.
SlotSymmetry == Permutations(Slots)
=============================================================================
