----------------------------- MODULE JobCreate -----------------------------
(***************************************************************************)
(* jobs_service.create_job_with_idempotency, called by concurrent requests *)
(* of the two job endpoints (FastAPI runs these handlers in a thread pool),*)
(* cut at every statement another connection can come between: the SELECT  *)
(* of the idempotency key, the BEGIN IMMEDIATE ... COMMIT transaction, and *)
(* the second SELECT after an IntegrityError.                              *)
(***************************************************************************)
CONSTANTS
  Reqs,        \* HTTP requests; each also names the secret generated for it
  Jobs,        \* job identifiers
  Users, Keys, \* accounts, Idempotency-Key values
  Kinds,       \* the endpoints "/v1/scrape" and "/v1/crawl"
  NoUser,      \* no authenticated account (API_REQUIRE_AUTH=false)
  NoKey,       \* no Idempotency-Key header, or a blank one
  NoJob,
  NoRow        \* this job identifier was never inserted

VARIABLES
  pc,       \* [Reqs -> where the handler is]
  asked,    \* [Reqs -> what the request carries]; chosen once
  job,      \* [Reqs -> the handler's job_id]
  users,    \* the rows of users
  row,      \* [Jobs -> its row of jobs; a deleted row stays, not live]
  idem,     \* the rows of idempotency_keys, by their UNIQUE columns
  answers   \* what clients were told

vars == <<pc, asked, job, users, row, idem, answers>>

Params   == [user : Users \cup {NoUser}, key : Keys \cup {NoKey}, kind : Kinds]
Bindings == [user : Users, key : Keys, kind : Kinds]

\* `if user_id and ik`
Keyed(p) == p.user # NoUser /\ p.key # NoKey

\* `madeFor` is what the row was inserted for, `signer` the request whose
\* webhook_secret it stores, which signs every delivery for the job.
Rows == [live : BOOLEAN, madeFor : Params, signer : Reqs]

ASSUME NoValues ==
  /\ NoUser \notin Users
  /\ NoKey \notin Keys
  /\ NoJob \notin Jobs
  /\ NoRow \notin Rows

TypeOK ==
  /\ pc \in [Reqs -> {"new", "lookup", "insert", "relookup", "dispatch",
                      "done", "error"}]
  /\ asked \in [Reqs -> Params]
  /\ job \in [Reqs -> Jobs \cup {NoJob}]
  /\ users \in SUBSET Users
  /\ row \in [Jobs -> Rows \cup {NoRow}]
  /\ idem \in [Bindings -> Jobs \cup {NoJob}]
  /\ answers \in SUBSET [to : Params, job : Jobs, secret : Reqs]

Init ==
  /\ pc = [r \in Reqs |-> "new"]
  /\ asked \in [Reqs -> Params]
  /\ job = [r \in Reqs |-> NoJob]
  /\ users = Users
  /\ row = [j \in Jobs |-> NoRow]
  /\ idem = [b \in Bindings |-> NoJob]
  /\ answers = {}

Goto(r, label) == pc' = [pc EXCEPT ![r] = label]

----------------------------------------------------------------------------
\* The request is authenticated and its handler starts.
Submit(r) ==
  /\ pc[r] = "new"
  /\ asked[r].user \in users \cup {NoUser}
  /\ Goto(r, IF Keyed(asked[r]) THEN "lookup" ELSE "insert")
  /\ UNCHANGED <<asked, job, users, row, idem, answers>>

\* Mutant: the SELECT forgets `AND endpoint = ?`.
SelectMutantAnyEndpoint(r, label, miss) ==
  LET hits == {b \in Bindings : /\ idem[b] # NoJob
                                /\ b.user = asked[r].user
                                /\ b.key = asked[r].key}
  IN /\ pc[r] = label
     /\ IF hits # {}
          THEN /\ \E b \in hits : job' = [job EXCEPT ![r] = idem[b]]
               /\ Goto(r, "dispatch")
          ELSE /\ Goto(r, miss)
               /\ UNCHANGED job
     /\ UNCHANGED <<asked, users, row, idem, answers>>

\* `SELECT job_id FROM idempotency_keys`: a hit is returned, a miss inserts.
Select(r, label, miss) ==
  /\ pc[r] = label
  /\ IF idem[asked[r]] # NoJob
       THEN /\ job' = [job EXCEPT ![r] = idem[asked[r]]]
            /\ Goto(r, "dispatch")
       ELSE /\ Goto(r, miss)
            /\ UNCHANGED job
  /\ UNCHANGED <<asked, users, row, idem, answers>>

Lookup(r) == Select(r, "lookup", "insert")

\* jobs.user_id references users; UNIQUE(user_id, idempotency_key, endpoint).
ForeignKeyHolds(p) == p.user \in users \cup {NoUser}
\* Mutant: the table is created without the UNIQUE constraint.
UniqueHoldsMutant(p) == TRUE
UniqueHolds(p) == Keyed(p) => idem[p] = NoJob

\* The transaction commits: the job row and the key's row, or neither.
Insert(r) ==
  /\ pc[r] = "insert"
  /\ ForeignKeyHolds(asked[r])
  /\ UniqueHolds(asked[r])
  /\ \E j \in Jobs :
       /\ row[j] = NoRow
       /\ row' = [row EXCEPT ![j] = [live |-> TRUE, madeFor |-> asked[r],
                                     signer |-> r]]
       /\ idem' = IF Keyed(asked[r]) THEN [idem EXCEPT ![asked[r]] = j]
                                     ELSE idem
       /\ job' = [job EXCEPT ![r] = j]
  /\ Goto(r, "dispatch")
  /\ UNCHANGED <<asked, users, answers>>

\* Mutant: the job row is committed although the key's row was refused.
InsertConflictMutantNoRollback(r) ==
  /\ pc[r] = "insert"
  /\ ~(ForeignKeyHolds(asked[r]) /\ UniqueHolds(asked[r]))
  /\ \E j \in Jobs :
       /\ row[j] = NoRow
       /\ row' = [row EXCEPT ![j] = [live |-> TRUE, madeFor |-> asked[r],
                                     signer |-> r]]
  /\ Goto(r, IF Keyed(asked[r]) THEN "relookup" ELSE "error")
  /\ UNCHANGED <<asked, job, users, idem, answers>>

\* IntegrityError: rollback, then look again if the request carries a key.
InsertConflict(r) ==
  /\ pc[r] = "insert"
  /\ ~(ForeignKeyHolds(asked[r]) /\ UniqueHolds(asked[r]))
  /\ Goto(r, IF Keyed(asked[r]) THEN "relookup" ELSE "error")
  /\ UNCHANGED <<asked, job, users, row, idem, answers>>

\* Mutant: `except sqlite3.Error`, a lock timeout taken for a conflict.
InsertLockedMutantAsConflict(r) ==
  /\ pc[r] = "insert"
  /\ Goto(r, IF Keyed(asked[r]) THEN "relookup" ELSE "error")
  /\ UNCHANGED <<asked, job, users, row, idem, answers>>

\* BEGIN IMMEDIATE waits at most busy_timeout for the single writer.
InsertLocked(r) ==
  /\ pc[r] = "insert"
  /\ Goto(r, "error")
  /\ UNCHANGED <<asked, job, users, row, idem, answers>>

\* The second SELECT: nothing found re-raises the IntegrityError.
Relookup(r) == Select(r, "relookup", "error")

\* The 202 answer: the job id and, for a webhook without a secret of its
\* own, the secret generated for THIS request.
Respond(r) ==
  /\ pc[r] = "dispatch"
  /\ answers' = answers \cup {[to |-> asked[r], job |-> job[r], secret |-> r]}
  /\ Goto(r, "done")
  /\ UNCHANGED <<asked, job, users, row, idem>>

\* Mutant: deleting the job deletes its idempotency_keys rows.
DeleteJobMutantCascade(j) ==
  /\ row[j] # NoRow
  /\ row[j].live
  /\ row' = [row EXCEPT ![j].live = FALSE]
  /\ idem' = [b \in Bindings |-> IF idem[b] = j THEN NoJob ELSE idem[b]]
  /\ UNCHANGED <<pc, asked, job, users, answers>>

\* admin_delete_job: idempotency_keys has no foreign key to jobs, so its
\* rows outlive the job.
DeleteJob(j) ==
  /\ row[j] # NoRow
  /\ row[j].live
  /\ row' = [row EXCEPT ![j].live = FALSE]
  /\ UNCHANGED <<pc, asked, job, users, idem, answers>>

\* admin_delete_user: nor has it one to users.
DeleteUser(u) ==
  /\ u \in users
  /\ users' = users \ {u}
  /\ UNCHANGED <<pc, asked, job, row, idem, answers>>

\* The API process dies: its handlers are gone, what was committed stays.
Crash ==
  /\ \E r \in Reqs : pc[r] \notin {"new", "done", "error"}
  /\ pc' = [r \in Reqs |->
              IF pc[r] \in {"new", "done"} THEN pc[r] ELSE "error"]
  /\ UNCHANGED <<asked, job, users, row, idem, answers>>

Next ==
  \/ \E r \in Reqs :
       \/ Submit(r)
       \/ Lookup(r)
       \/ Insert(r)
       \/ InsertConflict(r)
       \/ InsertLocked(r)
       \/ Relookup(r)
       \/ Respond(r)
  \/ \E j \in Jobs : DeleteJob(j)
  \/ \E u \in Users : DeleteUser(u)
  \/ Crash

Spec == Init /\ [][Next]_vars

----------------------------------------------------------------------------
\* Whatever the interleaving, the deletions and the crashes, all answers to
\* one Idempotency-Key of one account and endpoint name the same job
\* (test_api.py::test_idempotency_replay_returns_same_job, sequentially).
AnswersAgree ==
  \A a, b \in answers : Keyed(a.to) /\ a.to = b.to => a.job = b.job

\* At most one job row is ever inserted for one key: the loser of the race
\* between SELECT and INSERT leaves no row behind.
OneRowPerKey ==
  \A i, j \in Jobs :
    /\ row[i] # NoRow /\ row[j] # NoRow
    /\ Keyed(row[i].madeFor)
    /\ row[i].madeFor = row[j].madeFor
    => i = j

\* A client is only ever told of a job that was made for what it asked: same
\* account, same endpoint, whatever rows were deleted in between.
AnswerIsOwnJob ==
  \A a \in answers : row[a.job] # NoRow /\ row[a.job].madeFor = a.to

\* The `raise` after the second SELECT is reached only when the account was
\* deleted under the request: a race on the key alone never fails a request.
RelookupFinds ==
  \A r \in Reqs :
    pc[r] = "relookup" /\ asked[r].user \in users => idem[asked[r]] # NoJob

\* The secret shown with an answer is the one that signs the job's webhooks
\* ("Store this secret to verify webhook signatures", api_server.py).
ShownSecretSigns ==
  \A a \in answers : row[a.job].signer = a.secret

\* The abstract promise.
Abstract == INSTANCE IdempotentCreate WITH
  binding  <- idem,
  used     <- {j \in Jobs : row[j] # NoRow},
  answered <- {<<a.to, a.job>> : a \in {x \in answers : Keyed(x.to)}}

\* Every step is a step of IdempotentCreate or a stutter.
ImplementsAbstract == Abstract!AbsSpec
=============================================================================
