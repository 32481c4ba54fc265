----------------------------- MODULE MCSession -----------------------------
(* Instances of Session for TLC. *)
EXTENDS Session, TLC

CONSTANTS ann, bob, r1, r2

SlotSymmetry == Permutations(Slots)
=============================================================================
