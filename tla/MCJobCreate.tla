--------------------------- MODULE MCJobCreate ---------------------------
(* JobCreate on three requests, two job identifiers and a spare. *)
EXTENDS JobCreate, TLC

CONSTANTS r1, r2, r3, j1, j2, j3

\* Requests and job identifiers are interchangeable in every invariant.
ReqJobSymmetry == Permutations(Jobs) \cup Permutations(Reqs)
==========================================================================
