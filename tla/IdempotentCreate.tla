-------------------------- MODULE IdempotentCreate --------------------------
(***************************************************************************)
(* What POST /v1/crawl and the async POST /v1/scrape promise to a client   *)
(* that sends an Idempotency-Key: a key (within one account and endpoint)  *)
(* is bound to one job, once and for ever, and every answer to a request   *)
(* with that key names the job it is bound to.  No table, no transaction   *)
(* and no race appears here; JobCreate implements it.                      *)
(***************************************************************************)

CONSTANTS
  Jobs,       \* job identifiers (uuid4 values in the code)
  Bindings,   \* the (account, Idempotency-Key, endpoint) triples
  NoJob

VARIABLES
  binding,    \* [Bindings -> Jobs \cup {NoJob}]
  used,       \* the identifiers given to a job so far
  answered    \* the pairs <<binding, job>> clients have been told

absVars == <<binding, used, answered>>

AbsInit ==
  /\ binding = [b \in Bindings |-> NoJob]
  /\ used = {}
  /\ answered = {}

\* A new job for a key that has none.
Bind(b, j) ==
  /\ binding[b] = NoJob
  /\ j \notin used
  /\ binding' = [binding EXCEPT ![b] = j]
  /\ used' = used \cup {j}
  /\ UNCHANGED answered

\* A new job for a request that carries no key.
Allocate(j) ==
  /\ j \notin used
  /\ used' = used \cup {j}
  /\ UNCHANGED <<binding, answered>>

\* The client learns the job of its key, at once or on any replay.
Answer(b) ==
  /\ binding[b] # NoJob
  /\ answered' = answered \cup {<<b, binding[b]>>}
  /\ UNCHANGED <<binding, used>>

AbsNext ==
  \/ \E b \in Bindings, j \in Jobs : Bind(b, j)
  \/ \E j \in Jobs : Allocate(j)
  \/ \E b \in Bindings : Answer(b)

AbsSpec == AbsInit /\ [][AbsNext]_absVars
=============================================================================
