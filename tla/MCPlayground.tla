---------------------------- MODULE MCPlayground ----------------------------
(* Instances of Playground for TLC. *)
EXTENDS Playground

CONSTANTS s1, s2, mine, wrong
=============================================================================
