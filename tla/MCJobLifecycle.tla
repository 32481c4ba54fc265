--------------------------- MODULE MCJobLifecycle ---------------------------
(* JobLifecycle on one or two jobs and accounts, one worker, one API thread  *)
(* outside the queue.                                                     *)
EXTENDS JobLifecycle, TLC

CONSTANTS s1, s2, c1, t1, t2, r1, r2, ann, bob

\* Handlers and threads are interchangeable.
HandlerSymmetry == Permutations(Reqs) \cup Permutations(Threads)
=============================================================================
