---------------------------- MODULE MCFetchLadder ----------------------------
(* FetchLadder with a thread that pays and one that may not in the API process, *)
(* which share its memory.                                                      *)
EXTENDS FetchLadder

OneProc == {"api"}
Few == [t \in Threads |-> IF t \in Paid THEN 2 ELSE 1]
InApi == [t \in Threads |-> "api"]
=============================================================================
