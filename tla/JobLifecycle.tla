---------------------------- MODULE JobLifecycle ----------------------------
(***************************************************************************)
(* A scrape or crawl job from the HTTP request that accepts it to the      *)
(* webhook that announces its end: the API process (request handlers, the  *)
(* fallback threads, recovery at start-up), Redis with its two RQ queues,  *)
(* the one RQ worker process, and the SQLite rows they all write.  Every   *)
(* COMMIT, every Redis call and every read of a row that is used later is  *)
(* a step of its own; processes interleave and die between steps.          *)
(*                                                                         *)
(* Creating the row is one step here: JobCreate shows that its statements, *)
(* however interleaved, bind an Idempotency-Key to one job.                *)
(***************************************************************************)
EXTENDS Naturals, Sequences, FiniteSets, SequencesExt

CONSTANTS
  Scrapes, Crawls, \* job identifiers, by the type of the job
  Users, NoUser,   \* accounts (each with one API key); an anonymous caller
  Reqs,            \* concurrent request handlers
  Threads,         \* API threads that run jobs: fallback and synchronous scrapes
  Worker,          \* the RQ worker process
  NoJob,
  BadCreds,        \* accounts whose stored provider credential cannot be decrypted
  RecoveryLimit,   \* LIMIT of the recovery query (100 in the code)
  MaxPages,        \* bound: result rows of a crawl
  MaxReplays,      \* bound: requests that repeat an Idempotency-Key
  MaxApiCrashes, MaxWorkerCrashes, MaxOutages  \* bounds on failures

Jobs == Scrapes \cup Crawls
Runners == Threads \cup {Worker}
Callers == Users \cup {NoUser}

\* What a run is started with: the account, and whether the API key and the
\* options are those of the request or recovery's minimal defaults.
Args == [user : Callers, asked : BOOLEAN]
NoArgs == [user |-> NoUser, asked |-> FALSE]

ASSUME Constants ==
  /\ Scrapes \cap Crawls = {}
  /\ NoJob \notin Jobs
  /\ NoUser \notin Users
  /\ Worker \notin Threads
  /\ BadCreds \subseteq Users
  /\ RecoveryLimit \in Nat /\ MaxPages \in Nat /\ MaxReplays \in Nat
  /\ MaxApiCrashes \in Nat /\ MaxWorkerCrashes \in Nat /\ MaxOutages \in Nat

VARIABLES
  \* the database
  status,    \* [Jobs -> jobs.status; "none" before, "deleted" after the row]
  owner,     \* [Jobs -> jobs.user_id]
  pages,     \* [Jobs -> number of rows of results]
  users, keys, \* accounts; accounts whose API key exists
  keyed,     \* jobs an Idempotency-Key is bound to
  \* Redis
  redis,     \* does it answer
  queue,     \* firescrapling-jobs: a list of job identifiers
  hash,      \* [Jobs -> the arguments stored under the RQ job's identifier]
  hooks,     \* firescrapling-webhooks
  \* the API process
  api,       \* "up", "down", "recovering"
  req,       \* [Reqs -> the job a handler has created and not dispatched]
  todo, pending, \* recovery: rows still to treat, the one between its two steps
  \* whoever runs jobs
  at, on, args, \* [Runners -> where it is, its job, its arguments]
  \* history, for the properties
  maker,     \* [Jobs -> who created it]
  sent,      \* [Jobs -> how often it was dispatched]
  told,      \* [Jobs -> the webhook events raised, in order]
  replays, apiCrashes, workerCrashes, outages

db    == <<status, owner, pages, users, keys, keyed>>
rq    == <<redis, queue, hash, hooks>>
proc  == <<api, req, todo, pending>>
run   == <<at, on, args>>
hist  == <<maker, sent, told>>
bound == <<replays, apiCrashes, workerCrashes, outages>>
vars  == <<db, rq, proc, run, hist, bound>>

Steps == {"idle", "context", "start", "log", "work", "usage", "notify",
          "fail", "failUsage", "failNotify", "deliver"}

Statuses == {"none", "queued", "running", "completed", "failed", "deleted"}

DbOK ==
  /\ status \in [Jobs -> Statuses] /\ owner \in [Jobs -> Callers]
  /\ pages \in [Jobs -> Nat]
  /\ users \in SUBSET Users /\ keys \in SUBSET users /\ keyed \in SUBSET Jobs

RqOK ==
  /\ redis \in BOOLEAN
  /\ queue \in Seq(Jobs) /\ hash \in [Jobs -> Args] /\ hooks \in Seq(Jobs)

ProcOK ==
  /\ api \in {"up", "down", "recovering"}
  /\ req \in [Reqs -> Jobs \cup {NoJob}]
  /\ todo \in SUBSET Jobs /\ pending \in Jobs \cup {NoJob}

RunOK ==
  /\ at \in [Runners -> Steps] /\ args \in [Runners -> Args]
  /\ on \in [Runners -> Jobs \cup {NoJob}]
  /\ \A w \in Runners : at[w] # "idle" => on[w] \in Jobs

HistOK ==
  /\ maker \in [Jobs -> Callers] /\ sent \in [Jobs -> Nat]
  /\ told \in [Jobs -> Seq({"completed", "failed"})]

BoundOK ==
  replays \in Nat /\ apiCrashes \in Nat /\ workerCrashes \in Nat /\ outages \in Nat

TypeOK == DbOK /\ RqOK /\ ProcOK /\ RunOK /\ HistOK /\ BoundOK

Init ==
  /\ status = [j \in Jobs |-> "none"] /\ owner = [j \in Jobs |-> NoUser]
  /\ pages = [j \in Jobs |-> 0] /\ users = Users /\ keys = Users
  /\ keyed = {}
  /\ redis = TRUE /\ queue = <<>> /\ hash = [j \in Jobs |-> NoArgs]
  /\ hooks = <<>>
  /\ api = "up" /\ req = [r \in Reqs |-> NoJob] /\ todo = {} /\ pending = NoJob
  /\ at = [w \in Runners |-> "idle"] /\ on = [w \in Runners |-> NoJob]
  /\ args = [w \in Runners |-> NoArgs]
  /\ maker = [j \in Jobs |-> NoUser] /\ sent = [j \in Jobs |-> 0]
  /\ told = [j \in Jobs |-> <<>>]
  /\ replays = 0 /\ apiCrashes = 0 /\ workerCrashes = 0 /\ outages = 0

Exists(j) == status[j] \notin {"none", "deleted"}

\* UPDATE jobs SET status = s WHERE id = j: no row, no effect.
SetStatus(j, s) ==
  status' = IF Exists(j) THEN [status EXCEPT ![j] = s] ELSE status

\* Mutant: no `if not user_id: return`.
UsageAcceptedMutant(a) ==
  a.user \in users /\ (a.asked => a.user \in keys)

\* api_usage.user_id and key_id are foreign keys; a caller without an account
\* is not recorded.
UsageAccepted(a) == \/ a.user = NoUser
                    \/ a.user \in users /\ (a.asked => a.user \in keys)

Become(w, step) == at' = [at EXCEPT ![w] = step]
BeginRun(w, j, a, step) ==
  /\ Become(w, step)
  /\ on' = [on EXCEPT ![w] = j]
  /\ args' = [args EXCEPT ![w] = a]
Finished(w) == BeginRun(w, NoJob, NoArgs, "idle")

----------------------------------------------------------------------------
(* The API's request handlers. *)

\* POST /v1/crawl or an async POST /v1/scrape inserts its row (JobCreate).
Accept(r, j, u) ==
  /\ api = "up" /\ req[r] = NoJob
  /\ status[j] = "none"
  /\ u \in keys \cup {NoUser}
  /\ status' = [status EXCEPT ![j] = "queued"]
  /\ owner' = [owner EXCEPT ![j] = u]
  /\ maker' = [maker EXCEPT ![j] = u]
  /\ keyed' = IF u = NoUser THEN keyed ELSE keyed \cup {j}
  /\ req' = [req EXCEPT ![r] = j]
  /\ UNCHANGED <<pages, users, keys, rq, api, todo, pending, run, sent, told,
                 bound>>

\* The same request again: it finds the bound job, deleted or not.
Replay(r, j) ==
  /\ api = "up" /\ req[r] = NoJob
  /\ replays < MaxReplays
  /\ j \in keyed /\ maker[j] \in keys
  /\ req' = [req EXCEPT ![r] = j]
  /\ replays' = replays + 1
  /\ UNCHANGED <<db, rq, api, todo, pending, run, hist, apiCrashes,
                 workerCrashes, outages>>

\* Mutant: no `return` after the enqueue: the thread is started as well.
SendMutantBoth(j, a) ==
  /\ sent' = [sent EXCEPT ![j] = @ + 1]
  /\ IF redis THEN queue' = Append(queue, j) /\ hash' = [hash EXCEPT ![j] = a]
              ELSE UNCHANGED <<queue, hash>>
  /\ \E t \in Threads : at[t] = "idle" /\ BeginRun(t, j, a, "context")
  /\ UNCHANGED <<redis, hooks>>

\* dispatch_job: into RQ when Redis answers, else a daemon thread.  Enqueuing
\* an identifier again overwrites its stored arguments and lists it twice.
Send(j, a) ==
  /\ sent' = [sent EXCEPT ![j] = @ + 1]
  /\ \/ /\ redis
        /\ queue' = Append(queue, j)
        /\ hash' = [hash EXCEPT ![j] = a]
        /\ UNCHANGED run
     \/ /\ ~redis
        /\ \E t \in Threads : at[t] = "idle" /\ BeginRun(t, j, a, "context")
        /\ UNCHANGED <<queue, hash>>
  /\ UNCHANGED <<redis, hooks>>

\* Mutant: nothing is dispatched for an anonymous caller.
DispatchMutantDrops(r) ==
  /\ req[r] # NoJob
  /\ IF maker[req[r]] = NoUser
       THEN UNCHANGED <<rq, run, sent>>
       ELSE Send(req[r], [user |-> maker[req[r]], asked |-> TRUE])
  /\ req' = [req EXCEPT ![r] = NoJob]
  /\ UNCHANGED <<db, api, todo, pending, maker, told, bound>>

\* A handler dispatches its job, new or replayed, and answers 202.
Dispatch(r) ==
  /\ req[r] # NoJob
  /\ Send(req[r], [user |-> maker[req[r]], asked |-> TRUE])
  /\ req' = [req EXCEPT ![r] = NoJob]
  /\ UNCHANGED <<db, api, todo, pending, maker, told, bound>>

\* Redis answers the ping and fails the enqueue: the handler answers 500 and
\* the row stays queued.
DispatchFails(r) ==
  /\ req[r] # NoJob
  /\ redis /\ outages < MaxOutages
  /\ redis' = FALSE /\ outages' = outages + 1
  /\ req' = [req EXCEPT ![r] = NoJob]
  /\ UNCHANGED <<db, queue, hash, hooks, api, todo, pending, run, hist,
                 replays, apiCrashes, workerCrashes>>

\* A synchronous POST /v1/scrape inserts its row running and runs it itself.
SyncScrape(t, j, u) ==
  /\ api = "up" /\ at[t] = "idle"
  /\ status[j] = "none" /\ j \in Scrapes
  /\ u \in (keys \cup {NoUser}) \ BadCreds
  /\ status' = [status EXCEPT ![j] = "running"]
  /\ owner' = [owner EXCEPT ![j] = u]
  /\ maker' = [maker EXCEPT ![j] = u]
  /\ sent' = [sent EXCEPT ![j] = 1]
  /\ BeginRun(t, j, [user |-> u, asked |-> TRUE], "log")
  /\ UNCHANGED <<pages, users, keys, keyed, rq, proc, told, bound>>

\* admin_delete_job: results and logs cascade.
DeleteJob(j) ==
  /\ api = "up" /\ Exists(j)
  /\ status' = [status EXCEPT ![j] = "deleted"]
  /\ pages' = [pages EXCEPT ![j] = 0]
  /\ owner' = [owner EXCEPT ![j] = NoUser]
  /\ UNCHANGED <<users, keys, keyed, rq, proc, run, hist, bound>>

\* delete_api_key.
DeleteKey(u) ==
  /\ api = "up" /\ u \in keys
  /\ keys' = keys \ {u}
  /\ UNCHANGED <<status, owner, pages, users, keyed, rq, proc, run, hist, bound>>

\* admin_delete_user: keys cascade, jobs.user_id is set NULL.
DeleteUser(u) ==
  /\ api = "up" /\ u \in users
  /\ users' = users \ {u}
  /\ keys' = keys \ {u}
  /\ owner' = [j \in Jobs |-> IF owner[j] = u THEN NoUser ELSE owner[j]]
  /\ UNCHANGED <<status, pages, keyed, rq, proc, run, hist, bound>>

----------------------------------------------------------------------------
(* Running a job: the generators of crawl_runner.  A runner is the RQ worker *)
(* or a thread of the API process.                                          *)

\* RQ pops an identifier and reads its arguments; jobs come before webhooks.
TakeJob ==
  /\ redis /\ at[Worker] = "idle" /\ queue # <<>>
  /\ BeginRun(Worker, Head(queue), hash[Head(queue)], "context")
  /\ queue' = Tail(queue)
  /\ UNCHANGED <<db, redis, hash, hooks, proc, hist, bound>>

\* build_fetch_context comes before the row is touched and outside the try: a
\* credential that cannot be decrypted ends the run with the row as it was.
Context(w) ==
  /\ at[w] = "context"
  /\ IF args[w].user \in BadCreds THEN Finished(w)
                                  ELSE Become(w, "start") /\ UNCHANGED <<on, args>>
  /\ UNCHANGED <<db, rq, proc, hist, bound>>

\* UPDATE jobs SET status = 'running', whatever the status was.
Start(w) ==
  /\ at[w] = "start"
  /\ SetStatus(on[w], "running")
  /\ Become(w, "log")
  /\ UNCHANGED <<owner, pages, users, keys, keyed, rq, proc, on, args, hist,
                 bound>>

\* The first log row; logs.job_id is a foreign key.
FirstLog(w) ==
  /\ at[w] = "log"
  /\ Become(w, IF Exists(on[w]) THEN "work" ELSE "fail")
  /\ UNCHANGED <<db, rq, proc, on, args, hist, bound>>

\* A crawled page: its results row and the progress, one commit.
StorePage(w) ==
  /\ at[w] = "work" /\ on[w] \in Crawls
  /\ IF Exists(on[w])
       THEN /\ pages[on[w]] < MaxPages
            /\ pages' = [pages EXCEPT ![on[w]] = @ + 1]
            /\ UNCHANGED at
       ELSE Become(w, "fail") /\ UNCHANGED pages
  /\ UNCHANGED <<status, owner, users, keys, keyed, rq, proc, on, args, hist,
                 bound>>

\* A fetch, an extraction or RQ's job timeout raises.
WorkFails(w) ==
  /\ at[w] = "work"
  /\ Become(w, "fail")
  /\ UNCHANGED <<db, rq, proc, on, args, hist, bound>>

\* Mutant: the status is committed before the results row.
FinishScrapeMutantEarly(w) ==
  /\ at[w] = "work" /\ on[w] \in Scrapes
  /\ SetStatus(on[w], "completed")
  /\ Become(w, "usage")
  /\ UNCHANGED <<owner, pages, users, keys, keyed, rq, proc, on, args, hist,
                 bound>>

\* Mutant: PRAGMA foreign_keys is off, the row goes in without its job.
FinishScrapeMutantNoForeignKey(w) ==
  /\ at[w] = "work" /\ on[w] \in Scrapes
  /\ pages' = [pages EXCEPT ![on[w]] = @ + 1]
  /\ SetStatus(on[w], "completed")
  /\ Become(w, "usage")
  /\ UNCHANGED <<owner, users, keys, keyed, rq, proc, on, args, hist, bound>>

\* The end of a scrape: its results row and status 'completed', one commit.
FinishScrape(w) ==
  /\ at[w] = "work" /\ on[w] \in Scrapes
  /\ IF Exists(on[w])
       THEN /\ pages' = [pages EXCEPT ![on[w]] = @ + 1]
            /\ SetStatus(on[w], "completed")
            /\ Become(w, "usage")
       ELSE Become(w, "fail") /\ UNCHANGED <<status, pages>>
  /\ UNCHANGED <<owner, users, keys, keyed, rq, proc, on, args, hist, bound>>

\* The end of a crawl, with whatever pages it stored.
FinishCrawl(w) ==
  /\ at[w] = "work" /\ on[w] \in Crawls
  /\ SetStatus(on[w], "completed")
  /\ Become(w, "usage")
  /\ UNCHANGED <<owner, pages, users, keys, keyed, rq, proc, on, args, hist,
                 bound>>

\* record_api_usage, after the commit and still inside the try: a refused row
\* raises into `except Exception`.
Usage(w) ==
  /\ at[w] = "usage"
  /\ Become(w, IF UsageAccepted(args[w]) THEN "notify" ELSE "fail")
  /\ UNCHANGED <<db, rq, proc, on, args, hist, bound>>

\* The except clause: status 'failed', committed.
Fail(w) ==
  /\ at[w] = "fail"
  /\ SetStatus(on[w], "failed")
  /\ Become(w, "failUsage")
  /\ UNCHANGED <<owner, pages, users, keys, keyed, rq, proc, on, args, hist,
                 bound>>

\* Mutant: the except clause returns without _notify_job_webhook.
FailUsageMutant(w) ==
  /\ at[w] = "failUsage"
  /\ Finished(w)
  /\ UNCHANGED <<db, rq, proc, hist, bound>>

\* record_api_usage in the except clause: refused, it leaves the generator.
FailUsage(w) ==
  /\ at[w] = "failUsage"
  /\ IF UsageAccepted(args[w])
       THEN Become(w, "failNotify") /\ UNCHANGED <<on, args>>
       ELSE Finished(w)
  /\ UNCHANGED <<db, rq, proc, hist, bound>>

\* _notify_job_webhook: nothing for a row that is gone; into the webhook
\* queue, or delivered inline when Redis is down.  Every job has a webhook.
Announce(w, step, event) ==
  /\ at[w] = step
  /\ IF Exists(on[w])
       THEN /\ told' = [told EXCEPT ![on[w]] = Append(@, event)]
            /\ hooks' = IF redis THEN Append(hooks, on[w]) ELSE hooks
       ELSE UNCHANGED <<told, hooks>>
  /\ Finished(w)
  /\ UNCHANGED <<db, redis, queue, hash, proc, maker, sent, bound>>

Notify(w) == Announce(w, "notify", "completed")
FailNotify(w) == Announce(w, "failNotify", "failed")

\* The worker of the jobs is the worker of the webhooks.
TakeHook ==
  /\ redis /\ at[Worker] = "idle" /\ queue = <<>> /\ hooks # <<>>
  /\ BeginRun(Worker, Head(hooks), NoArgs, "deliver")
  /\ hooks' = Tail(hooks)
  /\ UNCHANGED <<db, redis, queue, hash, proc, hist, bound>>

\* deliver_webhook returns, at the latest after its last attempt.
Delivered ==
  /\ at[Worker] = "deliver"
  /\ Finished(Worker)
  /\ UNCHANGED <<db, rq, proc, hist, bound>>

----------------------------------------------------------------------------
(* Processes that die, and what start-up recovers. *)

\* The API process and its threads die; RQ's lists are Redis's.
ApiCrash ==
  /\ api # "down" /\ apiCrashes < MaxApiCrashes
  /\ api' = "down" /\ apiCrashes' = apiCrashes + 1
  /\ req' = [r \in Reqs |-> NoJob]
  /\ todo' = {} /\ pending' = NoJob
  /\ at' = [w \in Runners |-> IF w \in Threads THEN "idle" ELSE at[w]]
  /\ on' = [w \in Runners |-> IF w \in Threads THEN NoJob ELSE on[w]]
  /\ args' = [w \in Runners |-> IF w \in Threads THEN NoArgs ELSE args[w]]
  /\ UNCHANGED <<db, rq, hist, replays, workerCrashes, outages>>

\* The worker dies with its job, which RQ moves to its failed registry, and is
\* started again.
WorkerCrash ==
  /\ at[Worker] # "idle" /\ workerCrashes < MaxWorkerCrashes
  /\ Finished(Worker)
  /\ workerCrashes' = workerCrashes + 1
  /\ UNCHANGED <<db, rq, proc, hist, replays, apiCrashes, outages>>

\* Mutant: recovery forgets the rows that never started.
UnfinishedMutant == {j \in Jobs : status[j] = "running"}

Unfinished == {j \in Jobs : status[j] \in {"queued", "running"}}

\* recover_orphaned_jobs reads its rows before the API serves a request.
ApiStart ==
  /\ api = "down"
  /\ IF redis
       THEN /\ api' = "recovering"
            /\ \E S \in SUBSET Unfinished :
                 /\ Cardinality(S) = IF Cardinality(Unfinished) <= RecoveryLimit
                                       THEN Cardinality(Unfinished)
                                       ELSE RecoveryLimit
                 /\ todo' = S
       ELSE api' = "up" /\ UNCHANGED todo
  /\ UNCHANGED <<db, rq, req, pending, run, hist, bound>>

\* UPDATE jobs SET status = 'queued', whatever became of the row since.
Requeue(j) ==
  /\ api = "recovering" /\ pending = NoJob /\ j \in todo
  /\ SetStatus(j, "queued")
  /\ pending' = j /\ todo' = todo \ {j}
  /\ UNCHANGED <<owner, pages, users, keys, keyed, rq, api, req, run, hist,
                 bound>>

\* ... and dispatch it again, without the request's key and options.
Redispatch ==
  /\ pending # NoJob
  /\ Send(pending, [user |-> owner[pending], asked |-> FALSE])
  /\ pending' = NoJob
  /\ UNCHANGED <<db, api, req, todo, maker, told, bound>>

\* An enqueue that raises ends the whole recovery; the API starts anyway.
RecoveryFails ==
  /\ pending # NoJob
  /\ redis /\ outages < MaxOutages
  /\ redis' = FALSE /\ outages' = outages + 1
  /\ api' = "up" /\ todo' = {} /\ pending' = NoJob
  /\ UNCHANGED <<db, queue, hash, hooks, req, run, hist, replays, apiCrashes,
                 workerCrashes>>

RecoveryDone ==
  /\ api = "recovering" /\ todo = {} /\ pending = NoJob
  /\ api' = "up"
  /\ UNCHANGED <<db, rq, req, todo, pending, run, hist, bound>>

RedisDown ==
  /\ redis /\ outages < MaxOutages
  /\ redis' = FALSE /\ outages' = outages + 1
  /\ UNCHANGED <<db, queue, hash, hooks, proc, run, hist, replays, apiCrashes,
                 workerCrashes>>

RedisUp ==
  /\ ~redis /\ redis' = TRUE
  /\ UNCHANGED <<db, queue, hash, hooks, proc, run, hist, bound>>

----------------------------------------------------------------------------
Handler(r) ==
  \/ \E j \in Jobs, u \in Callers : Accept(r, j, u)
  \/ \E j \in Jobs : Replay(r, j)
  \/ Dispatch(r)
  \/ DispatchFails(r)

RunStep(w) ==
  \/ Context(w)
  \/ Start(w)
  \/ FirstLog(w)
  \/ StorePage(w)
  \/ WorkFails(w)
  \/ FinishScrape(w)
  \/ FinishCrawl(w)
  \/ Usage(w)
  \/ Notify(w)
  \/ Fail(w)
  \/ FailUsage(w)
  \/ FailNotify(w)

WorkerStep == TakeJob \/ TakeHook \/ Delivered

Recovery ==
  \/ ApiStart
  \/ \E j \in Jobs : Requeue(j)
  \/ Redispatch
  \/ RecoveryDone

Next ==
  \/ \E r \in Reqs : Handler(r)
  \/ \E t \in Threads, j \in Jobs, u \in Callers : SyncScrape(t, j, u)
  \/ \E w \in Runners : RunStep(w)
  \/ WorkerStep
  \/ Recovery
  \/ RecoveryFails
  \/ \E j \in Jobs : DeleteJob(j)
  \/ \E u \in Users : DeleteKey(u) \/ DeleteUser(u)
  \/ ApiCrash
  \/ WorkerCrash
  \/ RedisDown
  \/ RedisUp

Spec == Init /\ [][Next]_vars

\* Handlers, runs and recovery do not stop of themselves: threads are
\* scheduled, every fetch has a timeout; whoever operates the stack starts a dead
\* API process and Redis again.  No fairness on requests, deletions or failures.
Fairness ==
  /\ \A r \in Reqs : WF_vars(Dispatch(r))
  /\ \A w \in Runners : WF_vars(RunStep(w))
  /\ WF_vars(WorkerStep)
  /\ WF_vars(Recovery)
  /\ WF_vars(RedisUp)

FairSpec == Spec /\ Fairness

----------------------------------------------------------------------------
Terminal == {"completed", "failed"}

\* The account and the API key the job was asked with are still there.
Intact(j) == maker[j] = NoUser \/ maker[j] \in keys

Running(j) == {w \in Runners : on[w] = j /\ at[w] # "deliver"}

\* Every handler, list entry, runner and recovery step that will still run j.
Holders(j) ==
  Cardinality({r \in Reqs : req[r] = j})
    + Cardinality({i \in DOMAIN queue : queue[i] = j})
    + Cardinality(Running(j))
    + Cardinality({pending} \cap {j})

\* No failure and no repeated request so far: what the rest of the code may
\* rely on in an undisturbed life.
Undisturbed == apiCrashes = 0 /\ workerCrashes = 0 /\ outages = 0 /\ replays = 0

\* A scrape is completed only together with its result, whatever is deleted,
\* repeated, crashed or recovered: a client that polls 'completed' finds it.
CompletedHasResult ==
  \A j \in Scrapes : status[j] = "completed" => pages[j] > 0

\* A run that outlives its job's row leaves nothing behind in its tables.
NothingAfterDelete == \A j \in Jobs : ~Exists(j) => pages[j] = 0 /\ owner[j] = NoUser

\* Nobody runs a job twice, not even on the way from queue to thread, unless a
\* request is repeated or the API process restarts.
RunOnce ==
  apiCrashes = 0 /\ replays = 0 => \A j \in Jobs : Holders(j) <= 1

\* A job that is still queued is in somebody's hands; only a broken
\* credential drops it (Context).
QueuedIsHeld ==
  \A j \in Jobs :
    Undisturbed /\ status[j] = "queued" /\ maker[j] \notin BadCreds
      => Holders(j) = 1

\* When the one run of a job is over, exactly one event was raised and it is
\* the one the status shows.
ToldOnce ==
  \A j \in Jobs :
    /\ Undisturbed /\ Intact(j)
    /\ status[j] \in Terminal /\ Running(j) = {}
    => told[j] = <<status[j]>>

\* A customer who is told 'scrape.completed' finds the result, unless the job
\* was deleted, whatever crashed, was repeated or recovered around it.
EventHasResult ==
  \A j \in Scrapes :
    "completed" \in ToSet(told[j]) /\ Exists(j) => pages[j] > 0

\* A final status stays, except that the row may be deleted: pollers and the
\* event stream stop at it.  Repeats, restarts of the API and a lost account
\* or key are what breaks it (see JobFailedNotTold.cfg).
FinalStays ==
  [][\A j \in Jobs :
       status[j] \in Terminal /\ sent[j] = 1 /\ apiCrashes = 0 /\ Intact(j)
         => status'[j] \in {status[j], "deleted"}]_vars

\* Every accepted job reaches a final status or is deleted.
EveryJobSettles ==
  \A j \in Jobs :
    status[j] \in {"queued", "running"}
      ~> status[j] \in {"completed", "failed", "deleted"}

----------------------------------------------------------------------------
(* What the repository says and the code does not keep. *)

\* saas-webhooks.tsx: 'scrape.failed' is "Fired when a scrape fails", and
\* 'crawl.failed' "when a crawl job fails".
FailedIsTold ==
  \A j \in Jobs :
    Undisturbed /\ status[j] = "failed" /\ Running(j) = {}
      => "failed" \in ToSet(told[j])

\* recover_orphaned_jobs: "Re-enqueue jobs left in queued/running after a
\* process crash": never one that has reached a final status meanwhile.
RecoversUnfinished ==
  [][\A j \in Jobs : status[j] \in Terminal => status'[j] # "queued"]_vars
=============================================================================
