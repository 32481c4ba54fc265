------------------------ MODULE JobLifecycle_proofs ------------------------
(***************************************************************************)
(* JobLifecycle for every number of jobs, accounts, threads and handlers   *)
(* and every bound on the failures: the types, the safety properties that  *)
(* no crash, repeat, outage or deletion may break (IInv), and those that   *)
(* hold until the API restarts or a request is repeated: a job is run      *)
(* once, its end is announced once and its final status stays (OnceInv).   *)
(***************************************************************************)
EXTENDS JobLifecycle, FiniteSetTheorems, SequenceTheorems, TLAPS

\* A run that has committed 'completed' for a scrape has left its result, and
\* the row was there.
PastCommit ==
  \A w \in Runners :
    at[w] \in {"usage", "notify"} /\ on[w] \in Scrapes
      => status[on[w]] # "none" /\ (Exists(on[w]) => pages[on[w]] > 0)

\* A job that never existed has announced nothing.
NoneToldNothing == \A j \in Jobs : status[j] = "none" => told[j] = <<>>

\* What makes CompletedHasResult, NothingAfterDelete and EventHasResult
\* inductive together.
IInv ==
  /\ TypeOK
  /\ CompletedHasResult
  /\ NothingAfterDelete
  /\ PastCommit
  /\ NoneToldNothing
  /\ EventHasResult

----------------------------------------------------------------------------
(* Types. *)

\* The constants that a bare step introduces are well typed.
LEMMA ArgsTypes == NoArgs \in Args /\ NoUser \in Callers
BY DEF Args, NoArgs, Callers

\* Starting a run, or ending one, keeps the runners' types.
LEMMA BeginRunTypes ==
  ASSUME RunOK, NEW w \in Runners, NEW j \in Jobs \cup {NoJob}, NEW a \in Args,
         NEW step \in Steps, step # "idle" => j \in Jobs, BeginRun(w, j, a, step)
  PROVE  RunOK'
BY DEF RunOK, BeginRun, Become

\* Ending a run keeps the runners' types.
LEMMA FinishedTypes ==
  ASSUME RunOK, NEW w \in Runners, Finished(w)
  PROVE  RunOK'
<1>1. "idle" \in Steps
  BY DEF Steps
<1> QED BY <1>1, ArgsTypes, BeginRunTypes DEF Finished

\* A run that moves on keeps its job.
LEMMA BecomeTypes ==
  ASSUME RunOK, NEW w \in Runners, at[w] # "idle", NEW step \in Steps,
         Become(w, step), UNCHANGED <<on, args>>
  PROVE  RunOK'
BY DEF RunOK, Become

\* An UPDATE keeps the status a status.
LEMMA SetStatusTypes ==
  ASSUME status \in [Jobs -> Statuses], NEW j, NEW s \in Statuses, SetStatus(j, s)
  PROVE  status' \in [Jobs -> Statuses]
BY DEF SetStatus

\* A dispatch keeps the types of Redis, of the runners and of the history.
LEMMA SendTypes ==
  ASSUME RqOK, RunOK, sent \in [Jobs -> Nat], NEW j \in Jobs, NEW a \in Args,
         Send(j, a)
  PROVE  RqOK' /\ RunOK' /\ sent' \in [Jobs -> Nat]
<1>1. sent' \in [Jobs -> Nat]
  BY DEF Send
<1>2. CASE redis /\ queue' = Append(queue, j) /\ hash' = [hash EXCEPT ![j] = a]
           /\ UNCHANGED run
  BY <1>1, <1>2 DEF Send, RqOK, run, RunOK
<1>3. CASE /\ \E t \in Threads : at[t] = "idle" /\ BeginRun(t, j, a, "context")
           /\ UNCHANGED <<queue, hash>>
  <2>1. PICK t \in Threads : BeginRun(t, j, a, "context")
    BY <1>3
  <2>2. t \in Runners /\ "context" \in Steps
    BY DEF Runners, Steps
  <2>3. RunOK'
    BY <2>1, <2>2, BeginRunTypes
  <2>4. RqOK'
    BY <1>3 DEF Send, RqOK, run, RunOK
  <2> QED BY <1>1, <2>3, <2>4
<1> QED BY <1>2, <1>3 DEF Send

\* The handlers' and the administrator's steps keep the types.
LEMMA HandlerTypes ==
  ASSUME TypeOK,
         \/ \E r \in Reqs : Handler(r)
         \/ \E t \in Threads, j \in Jobs, u \in Callers : SyncScrape(t, j, u)
         \/ \E j \in Jobs : DeleteJob(j)
         \/ \E u \in Users : DeleteKey(u) \/ DeleteUser(u)
  PROVE  TypeOK'
<1> USE DEF TypeOK
<1>1. ASSUME NEW r \in Reqs, NEW j \in Jobs, NEW u \in Callers, Accept(r, j, u)
      PROVE  TypeOK'
  BY <1>1 DEF Accept, DbOK, RqOK, ProcOK, RunOK, HistOK, BoundOK, rq, run, bound,
     Statuses
<1>2. ASSUME NEW r \in Reqs, NEW j \in Jobs, Replay(r, j)
      PROVE  TypeOK'
  BY <1>2 DEF Replay, DbOK, RqOK, ProcOK, RunOK, HistOK, BoundOK, db, rq, run,
     hist, Statuses
<1>3. ASSUME NEW r \in Reqs, Dispatch(r)
      PROVE  TypeOK'
  <2> DEFINE a == [user |-> maker[req[r]], asked |-> TRUE]
  <2>1. req[r] \in Jobs /\ a \in Args
    BY <1>3 DEF Dispatch, ProcOK, HistOK, Args
  <2>2. Send(req[r], a)
    BY <1>3 DEF Dispatch
  <2> HIDE DEF a
  <2>3. RqOK' /\ RunOK' /\ sent' \in [Jobs -> Nat]
    BY <2>1, <2>2, SendTypes DEF HistOK
  <2> QED BY <1>3, <2>3 DEF Dispatch, DbOK, ProcOK, HistOK, BoundOK, db, bound
<1>4. ASSUME NEW r \in Reqs, DispatchFails(r)
      PROVE  TypeOK'
  <2>1. redis' \in BOOLEAN
    BY <1>4 DEF DispatchFails
  <2>2. ProcOK' /\ BoundOK'
    BY <1>4 DEF DispatchFails, ProcOK, BoundOK
  <2> QED BY <1>4, <2>1, <2>2 DEF DispatchFails, DbOK, RqOK, RunOK, HistOK, db,
             run, hist
<1>5. ASSUME NEW t \in Threads, NEW j \in Jobs, NEW u \in Callers,
             SyncScrape(t, j, u)
      PROVE  TypeOK'
  <2>1. [user |-> u, asked |-> TRUE] \in Args /\ t \in Runners /\ "log" \in Steps
    BY DEF Args, Runners, Steps
  <2>2. RunOK'
    BY <1>5, <2>1, BeginRunTypes DEF SyncScrape
  <2> QED BY <1>5, <2>2 DEF SyncScrape, DbOK, RqOK, ProcOK, HistOK, BoundOK, rq,
             proc, bound, Statuses
<1>6. ASSUME NEW j \in Jobs, DeleteJob(j)
      PROVE  TypeOK'
  BY <1>6 DEF DeleteJob, DbOK, RqOK, ProcOK, RunOK, HistOK, BoundOK, rq, proc,
     run, hist, bound, Statuses, Callers
<1>7. ASSUME NEW u \in Users, DeleteKey(u) \/ DeleteUser(u)
      PROVE  TypeOK'
  BY <1>7 DEF DeleteKey, DeleteUser, DbOK, RqOK, ProcOK, RunOK, HistOK, BoundOK,
     rq, proc, run, hist, bound, Callers
<1> QED BY <1>1, <1>2, <1>3, <1>4, <1>5, <1>6, <1>7 DEF Handler

\* The steps of a run keep the types.
LEMMA RunStepTypes ==
  ASSUME TypeOK, NEW w \in Runners, RunStep(w)
  PROVE  TypeOK'
<1> USE DEF TypeOK
<1>1. ASSUME Context(w)
      PROVE  TypeOK'
  <2>1. RunOK'
    BY <1>1, FinishedTypes, BecomeTypes DEF Context, Steps
  <2> QED BY <1>1, <2>1 DEF Context, DbOK, RqOK, ProcOK, HistOK, BoundOK, db, rq,
             proc, hist, bound
<1>2. ASSUME Start(w) \/ Fail(w)
      PROVE  TypeOK'
  <2>1. status' \in [Jobs -> Statuses]
    BY <1>2, SetStatusTypes DEF Start, Fail, DbOK, Statuses
  <2>2. RunOK'
    BY <1>2, BecomeTypes DEF Start, Fail, Steps
  <2> QED BY <1>2, <2>1, <2>2 DEF Start, Fail, DbOK, RqOK, ProcOK, HistOK,
             BoundOK, rq, proc, hist, bound
<1>3. ASSUME FirstLog(w) \/ WorkFails(w) \/ Usage(w)
      PROVE  TypeOK'
  <2>1. RunOK'
    BY <1>3, BecomeTypes DEF FirstLog, WorkFails, Usage, Steps
  <2> QED BY <1>3, <2>1 DEF FirstLog, WorkFails, Usage, DbOK, RqOK, ProcOK,
             HistOK, BoundOK, db, rq, proc, hist, bound
<1>4. ASSUME StorePage(w)
      PROVE  TypeOK'
  <2>1. RunOK'
    BY <1>4, BecomeTypes DEF StorePage, RunOK, Steps
  <2>2. pages' \in [Jobs -> Nat]
    BY <1>4 DEF StorePage, DbOK
  <2> QED BY <1>4, <2>1, <2>2 DEF StorePage, DbOK, RqOK, ProcOK, HistOK, BoundOK, rq,
             proc, hist, bound
<1>5. ASSUME FinishScrape(w) \/ FinishCrawl(w)
      PROVE  TypeOK'
  <2>1. status' \in [Jobs -> Statuses]
    BY <1>5, SetStatusTypes DEF FinishScrape, FinishCrawl, DbOK, Statuses
  <2>2. RunOK'
    BY <1>5, BecomeTypes DEF FinishScrape, FinishCrawl, Steps
  <2>3. pages' \in [Jobs -> Nat]
    BY <1>5 DEF FinishScrape, FinishCrawl, DbOK
  <2> QED BY <1>5, <2>1, <2>2, <2>3 DEF FinishScrape, FinishCrawl, DbOK, RqOK, ProcOK,
             HistOK, BoundOK, rq, proc, hist, bound
<1>6. ASSUME FailUsage(w)
      PROVE  TypeOK'
  <2>1. RunOK'
    BY <1>6, FinishedTypes, BecomeTypes DEF FailUsage, Steps
  <2> QED BY <1>6, <2>1 DEF FailUsage, DbOK, RqOK, ProcOK, HistOK, BoundOK, db,
             rq, proc, hist, bound
<1>7. ASSUME Notify(w) \/ FailNotify(w)
      PROVE  TypeOK'
  <2>1. PICK e \in {"completed", "failed"}, s \in Steps :
          s # "idle" /\ Announce(w, s, e)
    BY <1>7 DEF Notify, FailNotify, Steps
  <2>2. RunOK'
    BY <2>1, FinishedTypes DEF Announce
  <2>3. on[w] \in Jobs
    BY <2>1 DEF Announce, RunOK
  <2>4. told' \in [Jobs -> Seq({"completed", "failed"})]
    <3>1. told[on[w]] \in Seq({"completed", "failed"})
      BY <2>3 DEF HistOK
    <3>2. Append(told[on[w]], e) \in Seq({"completed", "failed"})
      BY <3>1
    <3>3. \/ told' = told
          \/ told' = [told EXCEPT ![on[w]] = Append(told[on[w]], e)]
      BY <2>1 DEF Announce
    <3> QED BY <2>3, <3>2, <3>3 DEF HistOK
  <2>5. hooks' \in Seq(Jobs)
    <3>1. hooks' = hooks \/ hooks' = Append(hooks, on[w])
      BY <2>1 DEF Announce
    <3> QED BY <2>3, <3>1 DEF RqOK
  <2> QED BY <2>1, <2>2, <2>4, <2>5 DEF Announce, DbOK, RqOK, ProcOK, HistOK,
             BoundOK, db, proc, bound
<1> QED BY <1>1, <1>2, <1>3, <1>4, <1>5, <1>6, <1>7 DEF RunStep

\* The worker's steps keep the types.
LEMMA WorkerTypes ==
  ASSUME TypeOK, WorkerStep
  PROVE  TypeOK'
<1> USE DEF TypeOK
<1>0. Worker \in Runners /\ {"context", "deliver"} \subseteq Steps /\ NoArgs \in Args
  BY ArgsTypes DEF Runners, Steps
<1>1. ASSUME TakeJob
      PROVE  TypeOK'
  <2>1. Head(queue) \in Jobs /\ Tail(queue) \in Seq(Jobs)
    BY <1>1 DEF TakeJob, RqOK
  <2>2. RunOK'
    BY <1>0, <1>1, <2>1, BeginRunTypes DEF TakeJob, RqOK
  <2> QED BY <1>1, <2>1, <2>2 DEF TakeJob, DbOK, RqOK, ProcOK, HistOK, BoundOK,
             db, proc, hist, bound
<1>2. ASSUME TakeHook
      PROVE  TypeOK'
  <2>1. Head(hooks) \in Jobs /\ Tail(hooks) \in Seq(Jobs)
    BY <1>2 DEF TakeHook, RqOK
  <2>2. RunOK'
    BY <1>0, <1>2, <2>1, BeginRunTypes DEF TakeHook
  <2> QED BY <1>2, <2>1, <2>2 DEF TakeHook, DbOK, RqOK, ProcOK, HistOK, BoundOK,
             db, proc, hist, bound
<1>3. ASSUME Delivered
      PROVE  TypeOK'
  <2>1. RunOK'
    BY <1>0, <1>3, FinishedTypes DEF Delivered
  <2> QED BY <1>3, <2>1 DEF Delivered, DbOK, RqOK, ProcOK, HistOK, BoundOK,
             db, rq, proc, hist, bound
<1> QED BY <1>1, <1>2, <1>3 DEF WorkerStep

\* Failures and recovery keep the types.
LEMMA FailureTypes ==
  ASSUME TypeOK,
         \/ Recovery \/ RecoveryFails \/ ApiCrash \/ WorkerCrash
         \/ RedisDown \/ RedisUp
  PROVE  TypeOK'
<1> USE DEF TypeOK
<1>1. ASSUME ApiCrash
      PROVE  TypeOK'
  <2>1. RunOK'
    BY <1>1, ArgsTypes DEF ApiCrash, RunOK, Steps
  <2> QED BY <1>1, <2>1 DEF ApiCrash, DbOK, RqOK, ProcOK, HistOK, BoundOK, db, rq,
             hist
<1>2. ASSUME WorkerCrash
      PROVE  TypeOK'
  <2>1. RunOK'
    BY <1>2, FinishedTypes DEF WorkerCrash, Runners
  <2> QED BY <1>2, <2>1 DEF WorkerCrash, DbOK, RqOK, ProcOK, HistOK, BoundOK, db,
             rq, proc, hist
<1>3. ASSUME ApiStart
      PROVE  TypeOK'
  <2>1. ProcOK'
    BY <1>3 DEF ApiStart, ProcOK, Unfinished
  <2> QED BY <1>3, <2>1 DEF ApiStart, DbOK, RqOK, RunOK, HistOK, BoundOK, db, rq,
             run, hist, bound
<1>4. ASSUME NEW j \in Jobs, Requeue(j)
      PROVE  TypeOK'
  <2>1. status' \in [Jobs -> Statuses]
    BY <1>4, SetStatusTypes DEF Requeue, DbOK, Statuses
  <2> QED BY <1>4, <2>1 DEF Requeue, DbOK, RqOK, ProcOK, RunOK, HistOK, BoundOK,
             rq, run, hist, bound
<1>5. ASSUME Redispatch
      PROVE  TypeOK'
  <2> DEFINE a == [user |-> owner[pending], asked |-> FALSE]
  <2>1. pending \in Jobs /\ a \in Args
    BY <1>5 DEF Redispatch, ProcOK, DbOK, Args
  <2>2. Send(pending, a)
    BY <1>5 DEF Redispatch
  <2> HIDE DEF a
  <2>3. RqOK' /\ RunOK' /\ sent' \in [Jobs -> Nat]
    BY <2>1, <2>2, SendTypes DEF HistOK
  <2> QED BY <1>5, <2>3 DEF Redispatch, DbOK, ProcOK, HistOK, BoundOK, db, bound
<1>6. ASSUME RecoveryDone
      PROVE  TypeOK'
  BY <1>6 DEF RecoveryDone, DbOK, RqOK, ProcOK, RunOK, HistOK, BoundOK, db, rq,
     run, hist, bound
<1>7. ASSUME RecoveryFails \/ RedisDown
      PROVE  TypeOK'
  <2>1. redis' \in BOOLEAN
    BY <1>7 DEF RecoveryFails, RedisDown
  <2>2. ProcOK' /\ BoundOK'
    BY <1>7 DEF RecoveryFails, RedisDown, ProcOK, BoundOK, proc
  <2> QED BY <1>7, <2>1, <2>2 DEF RecoveryFails, RedisDown, DbOK, RqOK, RunOK,
             HistOK, db, run, hist
<1>8. ASSUME RedisUp
      PROVE  TypeOK'
  <2>1. redis' \in BOOLEAN
    BY <1>8 DEF RedisUp
  <2> QED BY <1>8, <2>1 DEF RedisUp, DbOK, RqOK, ProcOK, RunOK, HistOK, BoundOK,
             db, proc, run, hist, bound
<1> QED BY <1>1, <1>2, <1>3, <1>4, <1>5, <1>6, <1>7, <1>8 DEF Recovery

\* The types are inductive.
LEMMA TypeStep == TypeOK /\ [Next]_vars => TypeOK'
<1>1. ASSUME TypeOK, UNCHANGED vars PROVE TypeOK'
  BY <1>1 DEF TypeOK, DbOK, RqOK, ProcOK, RunOK, HistOK, BoundOK, vars, db, rq,
     proc, run, hist, bound
<1> QED BY <1>1, HandlerTypes, RunStepTypes, WorkerTypes, FailureTypes DEF Next

\* They hold at first.
LEMMA TypeInit == Init => TypeOK
<1> SUFFICES ASSUME Init PROVE TypeOK
  OBVIOUS
<1>1. redis \in BOOLEAN
  BY DEF Init
<1>2. RqOK /\ HistOK
  BY <1>1, ArgsTypes DEF Init, RqOK, HistOK, Callers
<1> QED BY <1>2, ArgsTypes DEF Init, TypeOK, DbOK, ProcOK, RunOK, BoundOK, Callers,
           Statuses, Steps

\* Every variable of the job pipeline has its type in every reachable state.
THEOREM TypeCorrect == Spec => []TypeOK
BY TypeInit, TypeStep, PTL DEF Spec

----------------------------------------------------------------------------
(* What a step may do to a job's row and its results.  Everything below rests *)
(* on the few kinds of writes the code has.                                   *)

\* The row is created, with no result yet.
Created(j) ==
  /\ status[j] = "none" /\ UNCHANGED pages
  /\ \E s \in {"queued", "running"}, u \in Callers :
       status' = [status EXCEPT ![j] = s] /\ owner' = [owner EXCEPT ![j] = u]

\* The row goes, and its results and its owner with it.
Removed(j) ==
  /\ Exists(j)
  /\ status' = [status EXCEPT ![j] = "deleted"]
  /\ pages' = [pages EXCEPT ![j] = 0] /\ owner' = [owner EXCEPT ![j] = NoUser]

\* A result is stored, for a scrape together with status 'completed'.
Stored(j) ==
  /\ Exists(j)
  /\ pages' = [pages EXCEPT ![j] = @ + 1]
  /\ status' = status \/ status' = [status EXCEPT ![j] = "completed"]
  /\ UNCHANGED owner

\* The status alone is updated, to 'completed' only for a crawl.
Updated(j) ==
  /\ UNCHANGED <<pages, owner>>
  /\ \/ SetStatus(j, "queued") \/ SetStatus(j, "running") \/ SetStatus(j, "failed")
     \/ j \in Crawls /\ SetStatus(j, "completed")

\* Rows stay as they are, but an account that goes leaves its jobs.
Kept ==
  /\ UNCHANGED <<status, pages>>
  /\ \A j \in Jobs : owner'[j] \in {owner[j], NoUser}

RowStep ==
  Kept \/ \E j \in Jobs : Created(j) \/ Removed(j) \/ Stored(j) \/ Updated(j)

\* Every step of the system is one of these writes.
LEMMA StepIsRowStep ==
  ASSUME TypeOK, [Next]_vars
  PROVE  RowStep
<1> USE DEF RowStep
<1>0. UNCHANGED db => RowStep
  BY DEF db, Kept
<1>1. ASSUME NEW r \in Reqs, Handler(r) PROVE RowStep
  <2>1. ASSUME NEW j \in Jobs, NEW u \in Callers, Accept(r, j, u) PROVE RowStep
    BY <2>1 DEF Accept, Created
  <2> QED BY <1>0, <1>1, <2>1 DEF Handler, Replay, Dispatch, DispatchFails
<1>2. ASSUME NEW t \in Threads, NEW j \in Jobs, NEW u \in Callers,
             SyncScrape(t, j, u)
      PROVE  RowStep
  BY <1>2 DEF SyncScrape, Created
<1>3. ASSUME NEW w \in Runners, RunStep(w) PROVE RowStep
  <2>1. at[w] # "idle" => on[w] \in Jobs
    BY DEF TypeOK, RunOK
  <2>2. ASSUME Start(w) \/ Fail(w) PROVE RowStep
    BY <2>1, <2>2 DEF Start, Fail, Updated
  <2>3. ASSUME StorePage(w) PROVE RowStep
    BY <2>1, <2>3 DEF StorePage, Stored, Kept
  <2>4. ASSUME FinishScrape(w) PROVE RowStep
    BY <2>1, <2>4 DEF FinishScrape, Stored, SetStatus, Kept
  <2>5. ASSUME FinishCrawl(w) PROVE RowStep
    BY <2>1, <2>5 DEF FinishCrawl, Updated
  <2> QED BY <1>0, <1>3, <2>2, <2>3, <2>4, <2>5 DEF RunStep, Context, FirstLog,
             WorkFails, Usage, Notify, FailUsage, FailNotify, Announce
<1>4. ASSUME WorkerStep PROVE RowStep
  BY <1>0, <1>4 DEF WorkerStep, TakeJob, TakeHook, Delivered
<1>5. ASSUME Recovery PROVE RowStep
  <2>1. ASSUME NEW j \in Jobs, Requeue(j) PROVE RowStep
    BY <2>1 DEF Requeue, Updated
  <2> QED BY <1>0, <1>5, <2>1 DEF Recovery, ApiStart, Redispatch, RecoveryDone
<1>6. ASSUME NEW j \in Jobs, DeleteJob(j) PROVE RowStep
  BY <1>6 DEF DeleteJob, Removed
<1>7. ASSUME NEW u \in Users, DeleteKey(u) \/ DeleteUser(u) PROVE RowStep
  BY <1>7 DEF DeleteKey, DeleteUser, Kept, TypeOK, DbOK
<1>8. ASSUME RecoveryFails \/ ApiCrash \/ WorkerCrash \/ RedisDown \/ RedisUp
      PROVE  RowStep
  BY <1>0, <1>8 DEF RecoveryFails, ApiCrash, WorkerCrash, RedisDown, RedisUp
<1> QED BY <1>0, <1>1, <1>2, <1>3, <1>4, <1>5, <1>6, <1>7, <1>8 DEF Next, vars

\* A row that was created stays created; while it exists, and it does not come
\* back once deleted, it loses no result.
LEMMA RowsOnlyGrow ==
  ASSUME TypeOK, RowStep, NEW j \in Jobs, status[j] # "none"
  PROVE  /\ status'[j] # "none"
         /\ Exists(j)' => Exists(j) /\ pages'[j] >= pages[j]
BY DEF RowStep, Kept, Created, Removed, Stored, Updated, SetStatus, Exists, TypeOK,
   DbOK, Statuses

\* None of the writes breaks what they say of results and owners.
LEMMA RowFacts ==
  ASSUME TypeOK, RowStep
  PROVE  /\ NothingAfterDelete => NothingAfterDelete'
         /\ CompletedHasResult => CompletedHasResult'
<1>1. CASE Kept
  BY <1>1 DEF Kept, NothingAfterDelete, CompletedHasResult, Exists, TypeOK, DbOK,
     Jobs
<1>2. ASSUME NEW j \in Jobs, Created(j) \/ Removed(j) \/ Stored(j)
      PROVE  /\ NothingAfterDelete => NothingAfterDelete'
             /\ CompletedHasResult => CompletedHasResult'
  BY <1>2 DEF Created, Removed, Stored, NothingAfterDelete, CompletedHasResult,
     Exists, TypeOK, DbOK, Jobs
<1>3. ASSUME NEW j \in Jobs, Updated(j)
      PROVE  /\ NothingAfterDelete => NothingAfterDelete'
             /\ CompletedHasResult => CompletedHasResult'
  BY <1>3, Constants DEF Updated, SetStatus, NothingAfterDelete,
     CompletedHasResult, Exists, TypeOK, DbOK, Jobs
<1> QED BY <1>1, <1>2, <1>3 DEF RowStep

\* Neither property needs more than the types and the writes.
LEMMA RowsInductive ==
  ASSUME TypeOK, NothingAfterDelete, CompletedHasResult, [Next]_vars
  PROVE  NothingAfterDelete' /\ CompletedHasResult'
BY StepIsRowStep, RowFacts

----------------------------------------------------------------------------
(* What a run announces. *)

\* A scrape's run gets past its commit by the commit alone.
LEMMA OnlyCommitPasses ==
  ASSUME TypeOK, [Next]_vars, NEW w \in Runners,
         at'[w] \in {"usage", "notify"}, on'[w] \in Scrapes
  PROVE  /\ on'[w] = on[w]
         /\ \/ at[w] \in {"usage", "notify"}
            \/ FinishScrape(w) /\ Exists(on[w])
<1> DEFINE Goal == /\ on'[w] = on[w]
                   /\ \/ at[w] \in {"usage", "notify"}
                      \/ FinishScrape(w) /\ Exists(on[w])
<1> SUFFICES Goal
  OBVIOUS
<1>0. UNCHANGED run => Goal
  BY DEF run
<1>a. ASSUME NEW v \in Runners, NEW j, NEW a, NEW step \in {"idle", "context", "log", "deliver"},
             BeginRun(v, j, a, step)
      PROVE  Goal
  BY <1>a DEF BeginRun, Become, TypeOK, RunOK
<1>b. ASSUME NEW v \in Runners, Finished(v)
      PROVE  Goal
  BY <1>a, <1>b DEF Finished
<1>c. ASSUME NEW v \in Runners, UNCHANGED <<on, args>>,
             NEW step \in Steps \ {"usage", "notify"}, Become(v, step)
      PROVE  Goal
  BY <1>c DEF Become, TypeOK, RunOK
<1>d. ASSUME NEW j, NEW a, Send(j, a)
      PROVE  Goal
  <2>1. ASSUME NEW t \in Threads, BeginRun(t, j, a, "context") PROVE Goal
    BY <1>a, <2>1 DEF Runners
  <2> QED BY <1>0, <1>d, <2>1 DEF Send
<1>1. ASSUME NEW r \in Reqs, Handler(r) PROVE Goal
  BY <1>0, <1>1, <1>d DEF Handler, Accept, Replay, Dispatch, DispatchFails
<1>2. ASSUME NEW t \in Threads, NEW j \in Jobs, NEW u \in Callers,
             SyncScrape(t, j, u)
      PROVE  Goal
  BY <1>2, <1>a DEF SyncScrape, Runners
<1>3. ASSUME NEW v \in Runners, RunStep(v) PROVE Goal
  <2>1. ASSUME Context(v) PROVE Goal
    BY <2>1, <1>b, <1>c DEF Context, Steps
  <2>2. ASSUME Start(v) \/ FirstLog(v) \/ StorePage(v) \/ WorkFails(v) \/ Fail(v)
        PROVE  Goal
    <3>1. UNCHANGED <<on, args>>
      BY <2>2 DEF Start, FirstLog, StorePage, WorkFails, Fail
    <3>2. at' = at \/ \E step \in Steps \ {"usage", "notify"} : Become(v, step)
      BY <2>2 DEF Start, FirstLog, StorePage, WorkFails, Fail, Steps
    <3> QED BY <3>1, <3>2, <1>0, <1>c DEF run
  <2>3. ASSUME FinishScrape(v) PROVE Goal
    BY <2>3 DEF FinishScrape, Become, TypeOK, RunOK
  <2>4. ASSUME FinishCrawl(v) PROVE Goal
    BY <2>4, Constants DEF FinishCrawl, Become, TypeOK, RunOK
  <2>5. ASSUME Usage(v) PROVE Goal
    BY <2>5 DEF Usage, Become, TypeOK, RunOK
  <2>6. ASSUME FailUsage(v) PROVE Goal
    BY <2>6, <1>b, <1>c DEF FailUsage, Steps
  <2>7. ASSUME Notify(v) \/ FailNotify(v) PROVE Goal
    BY <2>7, <1>b DEF Notify, FailNotify, Announce
  <2> QED BY <1>3, <2>1, <2>2, <2>3, <2>4, <2>5, <2>6, <2>7 DEF RunStep
<1>4. ASSUME WorkerStep PROVE Goal
  BY <1>4, <1>a, <1>b DEF WorkerStep, TakeJob, TakeHook, Delivered, Runners
<1>5. ASSUME Recovery PROVE Goal
  BY <1>5, <1>0, <1>d DEF Recovery, ApiStart, Requeue, Redispatch, RecoveryDone
<1>6. ASSUME ApiCrash PROVE Goal
  BY <1>6 DEF ApiCrash, TypeOK, RunOK
<1>7. ASSUME WorkerCrash PROVE Goal
  BY <1>7, <1>b DEF WorkerCrash, Runners
<1>8. ASSUME \/ RecoveryFails \/ RedisDown \/ RedisUp
             \/ \E j \in Jobs : DeleteJob(j)
             \/ \E u \in Users : DeleteKey(u) \/ DeleteUser(u)
      PROVE  Goal
  BY <1>8, <1>0 DEF RecoveryFails, RedisDown, RedisUp, DeleteJob, DeleteKey,
     DeleteUser
<1>9. UNCHANGED vars => Goal
  BY <1>0 DEF vars, run
<1> HIDE DEF Goal
<1> QED BY <1>1, <1>2, <1>3, <1>4, <1>5, <1>6, <1>7, <1>8, <1>9 DEF Next

\* Past its commit, a run stays with a row that has its result or is deleted.
LEMMA PastCommitStep ==
  ASSUME TypeOK, PastCommit, [Next]_vars
  PROVE  PastCommit'
<1> SUFFICES ASSUME NEW w \in Runners,
                    at'[w] \in {"usage", "notify"}, on'[w] \in Scrapes
             PROVE  /\ status'[on'[w]] # "none"
                    /\ Exists(on[w])' => pages'[on'[w]] > 0
  BY DEF PastCommit, Exists
<1>1. on'[w] = on[w] /\ on[w] \in Jobs
  BY OnlyCommitPasses DEF Jobs
<1>2. CASE at[w] \in {"usage", "notify"}
  <2>1. status[on[w]] # "none" /\ (Exists(on[w]) => pages[on[w]] > 0)
    BY <1>1, <1>2 DEF PastCommit
  <2>2. /\ status'[on[w]] # "none"
        /\ Exists(on[w])' => Exists(on[w]) /\ pages'[on[w]] >= pages[on[w]]
    <3> DEFINE j == on[w]
    <3>1. PICK k \in Jobs : k = j
      BY <1>1
    <3>2. /\ status'[k] # "none"
          /\ Exists(k)' => Exists(k) /\ pages'[k] >= pages[k]
      BY <2>1, <3>1, StepIsRowStep, RowsOnlyGrow
    <3> QED BY <1>1, <3>1, <3>2 DEF Exists
  <2>3. pages[on[w]] \in Nat /\ pages'[on[w]] \in Nat
    BY <1>1, TypeStep DEF TypeOK, DbOK
  <2> QED BY <1>1, <2>1, <2>2, <2>3
<1>3. CASE FinishScrape(w) /\ Exists(on[w])
  BY <1>1, <1>3 DEF FinishScrape, SetStatus, Exists, TypeOK, DbOK
<1> QED BY <1>2, <1>3, OnlyCommitPasses

\* Events are raised by a run that announces one for a row that exists.
LEMMA OnlyRunsTell ==
  ASSUME [Next]_vars
  PROVE  \/ UNCHANGED told
         \/ \E w \in Runners, e \in {"completed", "failed"} :
              /\ e = "completed" => at[w] = "notify"
              /\ at[w] # "idle" /\ Exists(on[w])
              /\ UNCHANGED <<status, pages>>
              /\ told' = [told EXCEPT ![on[w]] = Append(told[on[w]], e)]
<1> DEFINE Goal == \/ UNCHANGED told
                   \/ \E w \in Runners, e \in {"completed", "failed"} :
                        /\ e = "completed" => at[w] = "notify"
                        /\ at[w] # "idle" /\ Exists(on[w])
                        /\ UNCHANGED <<status, pages>>
                        /\ told' = [told EXCEPT ![on[w]] = Append(told[on[w]], e)]
<1>1. ASSUME NEW w \in Runners, RunStep(w) PROVE Goal
  <2>1. ASSUME Notify(w) \/ FailNotify(w) PROVE Goal
    BY <2>1 DEF Notify, FailNotify, Announce, db
  <2> QED BY <1>1, <2>1 DEF RunStep, Context, Start, FirstLog, StorePage, WorkFails,
             FinishScrape, FinishCrawl, Usage, Fail, FailUsage, hist
<1>2. ASSUME NEW r \in Reqs, Handler(r) PROVE Goal
  BY <1>2 DEF Handler, Accept, Replay, Dispatch, DispatchFails, hist
<1>3. ASSUME \/ WorkerStep \/ Recovery \/ RecoveryFails \/ ApiCrash \/ WorkerCrash
             \/ RedisDown \/ RedisUp
      PROVE  Goal
  BY <1>3 DEF WorkerStep, TakeJob, TakeHook, Delivered, Recovery, ApiStart, Requeue,
     Redispatch, RecoveryDone, RecoveryFails, ApiCrash, WorkerCrash, RedisDown,
     RedisUp, hist
<1>4. ASSUME \/ \E t \in Threads, j \in Jobs, u \in Callers : SyncScrape(t, j, u)
             \/ \E j \in Jobs : DeleteJob(j)
             \/ \E u \in Users : DeleteKey(u) \/ DeleteUser(u)
      PROVE  Goal
  BY <1>4 DEF SyncScrape, DeleteJob, DeleteKey, DeleteUser, hist
<1>5. UNCHANGED vars => Goal
  BY DEF vars, hist
<1> HIDE DEF Goal
<1>6. Goal
  BY <1>1, <1>2, <1>3, <1>4, <1>5 DEF Next
<1> QED BY <1>6 DEF Goal

\* Appending an event adds that event and no other.
LEMMA AppendTells ==
  ASSUME NEW s \in Seq({"completed", "failed"}), NEW e \in {"completed", "failed"}
  PROVE  ToSet(Append(s, e)) = ToSet(s) \cup {e}
<1>1. /\ DOMAIN Append(s, e) = 1..(Len(s) + 1) /\ DOMAIN s = 1..Len(s)
      /\ Append(s, e)[Len(s) + 1] = e
      /\ \A i \in 1..Len(s) : Append(s, e)[i] = s[i]
      /\ Len(s) \in Nat
  OBVIOUS
<1> QED BY <1>1 DEF ToSet

\* The announcements keep their two properties.
LEMMA TellStep ==
  ASSUME TypeOK, PastCommit, NoneToldNothing, EventHasResult, [Next]_vars
  PROVE  NoneToldNothing' /\ EventHasResult'
<1>1. CASE UNCHANGED told
  <2>1. \A j \in Jobs :
          status[j] # "none" => /\ status'[j] # "none"
                                /\ Exists(j)' => /\ Exists(j)
                                                 /\ pages'[j] >= pages[j]
    BY StepIsRowStep, RowsOnlyGrow
  <2>2. \A j \in Jobs : pages[j] \in Nat /\ pages'[j] \in Nat
    BY TypeStep DEF TypeOK, DbOK
  <2>3. ToSet(<<>>) = {}
    BY DEF ToSet
  <2> QED BY <1>1, <2>1, <2>2, <2>3 DEF NoneToldNothing, EventHasResult, Jobs
<1>2. ASSUME NEW w \in Runners, NEW e \in {"completed", "failed"},
             e = "completed" => at[w] = "notify",
             at[w] # "idle", Exists(on[w]), UNCHANGED <<status, pages>>,
             told' = [told EXCEPT ![on[w]] = Append(told[on[w]], e)]
      PROVE  NoneToldNothing' /\ EventHasResult'
  <2>1. on[w] \in Jobs /\ told[on[w]] \in Seq({"completed", "failed"})
    BY <1>2 DEF TypeOK, RunOK, HistOK
  <2>2. ToSet(Append(told[on[w]], e)) = ToSet(told[on[w]]) \cup {e}
    BY <2>1, AppendTells
  <2>3. \A j \in Jobs : told'[j] = IF j = on[w] THEN Append(told[j], e) ELSE told[j]
    BY <1>2 DEF TypeOK, HistOK
  <2>4. NoneToldNothing'
    BY <1>2, <2>3 DEF NoneToldNothing, Exists
  <2>5. e = "completed" /\ on[w] \in Scrapes => pages[on[w]] > 0
    BY <1>2 DEF PastCommit
  <2>6. EventHasResult'
    <3> SUFFICES ASSUME NEW j \in Scrapes, "completed" \in ToSet(told'[j]),
                        Exists(j)
                 PROVE  pages[j] > 0
      BY <1>2 DEF EventHasResult, Exists
    <3>1. j \in Jobs
      BY DEF Jobs
    <3>2. CASE j # on[w]
      BY <2>3, <3>1, <3>2 DEF EventHasResult
    <3>3. CASE j = on[w]
      BY <2>2, <2>3, <2>5, <3>1, <3>3 DEF EventHasResult
    <3> QED BY <3>2, <3>3
  <2> QED BY <2>4, <2>6
<1> QED BY <1>1, <1>2, OnlyRunsTell

\* IInv is inductive.
THEOREM Inductive == Spec => []IInv
<1>1. Init => IInv
  <2> SUFFICES ASSUME Init PROVE IInv
    OBVIOUS
  <2>1. ToSet(<<>>) = {}
    BY DEF ToSet
  <2> QED BY <2>1, TypeInit DEF IInv, Init, CompletedHasResult, NothingAfterDelete,
             PastCommit, NoneToldNothing, EventHasResult, Exists, Jobs
<1>2. IInv /\ [Next]_vars => IInv'
  BY TypeStep, RowsInductive, PastCommitStep, TellStep DEF IInv
<1> QED BY <1>1, <1>2, PTL DEF Spec

\* Whatever crashes, is repeated, deleted or recovered, a scrape that reads
\* 'completed' has its result: crawl_runner.py:243-255 is one commit.
THEOREM CompletedAlwaysHasResult == Spec => []CompletedHasResult
<1>1. IInv => CompletedHasResult
  BY DEF IInv
<1> QED BY <1>1, Inductive, PTL

\* A run that outlives its job's row never writes to the job's tables again.
THEOREM DeletedStaysEmpty == Spec => []NothingAfterDelete
<1>1. IInv => NothingAfterDelete
  BY DEF IInv
<1> QED BY <1>1, Inductive, PTL

\* A customer who is told 'scrape.completed' finds the result, unless the job
\* was deleted: the event is raised after the commit of the result
\* (crawl_runner.py:243-257) and nothing but a deletion takes a result away.
THEOREM EventAlwaysHasResult == Spec => []EventHasResult
<1>1. IInv => EventHasResult
  BY DEF IInv
<1> QED BY <1>1, Inductive, PTL
----------------------------------------------------------------------------
(* One run of a job, as long as the API process does not restart. *)

Asking(j) == {r \in Reqs : req[r] = j}
Places(j) == {i \in DOMAIN queue : queue[i] = j}
Lone(S) == \A x, y \in S : x = y

\* A job that was never made is in nobody's hands.
Unborn(j) ==
  status[j] = "none" => sent[j] = 0 /\ Asking(j) = {} /\ j \notin keyed

\* Without a repeated request one handler dispatches a job, once.
OneDispatch(j) ==
  replays = 0 => /\ sent[j] \in {0, 1} /\ Lone(Asking(j))
                 /\ Asking(j) # {} => sent[j] = 0

\* Each dispatch leads to one place in the queue or to one run.
OneRun(j) ==
  /\ sent[j] = 0 => Places(j) = {} /\ Running(j) = {}
  /\ sent[j] = 1 => /\ Lone(Places(j)) /\ Lone(Running(j))
                    /\ Places(j) = {} \/ Running(j) = {}

\* A run is for the account that made the job.
ForMaker(j) ==
  /\ Places(j) # {} => hash[j].user = maker[j]
  /\ \A w \in Running(j) : args[w].user = maker[j]

\* What the row says while its only run is at a step, unless it is deleted.
Shown(j, step) ==
  /\ step \in {"context", "start"} => status[j] \in {"queued", "deleted"}
  /\ step \in {"log", "work"} => status[j] \in {"running", "deleted"}
  /\ step \in {"usage", "notify"} => status[j] \in {"completed", "deleted"}
  /\ step \in {"failUsage", "failNotify"} => status[j] \in {"failed", "deleted"}
  /\ step = "fail" /\ Intact(j) => status[j] \in {"running", "deleted"}
  /\ step = "fail" => status[j] # "queued"

\* Before its only run ends a job has announced nothing, and its status is that
\* of the run's step.
Story(j) ==
  /\ sent[j] = 0 \/ (sent[j] = 1 /\ Places(j) # {}) =>
       status[j] \in {"none", "queued", "deleted"} /\ told[j] = <<>>
  /\ sent[j] = 1 => \A w \in Running(j) : Shown(j, at[w]) /\ told[j] = <<>>

\* After it, unless the worker died, it has announced its status.
Ended(j) ==
  workerCrashes = 0 /\ sent[j] = 1 /\ Places(j) = {} /\ Running(j) = {} =>
    /\ status[j] = "queued" => maker[j] \in BadCreds
    /\ status[j] \in Terminal /\ Intact(j) => told[j] = <<status[j]>>

\* A job that is not dispatched yet has its handler.
Awaited(j) ==
  outages = 0 /\ replays = 0 /\ sent[j] = 0 /\ status[j] = "queued" => Asking(j) # {}

Orderly(j) ==
  /\ Unborn(j) /\ OneDispatch(j) /\ OneRun(j) /\ ForMaker(j)
  /\ Story(j) /\ Ended(j) /\ Awaited(j)

UpAtFirst == api = "up" /\ todo = {} /\ pending = NoJob
IdleIsFree == \A w \in Runners : at[w] = "idle" => on[w] = NoJob

InOrder == IdleIsFree /\ \A j \in Jobs : Orderly(j)

OnceInv == apiCrashes = 0 => UpAtFirst /\ InOrder

RunSteps == Steps \ {"idle", "deliver"}

\* Nothing of the job j changes, but that its account may go, and what voids a
\* property may have happened.
Same(j) ==
  /\ status'[j] = status[j] /\ maker'[j] = maker[j]
  /\ sent'[j] = sent[j] /\ told'[j] = told[j]
  /\ j \in keyed' => j \in keyed
  /\ Asking(j)' = Asking(j)
  /\ Places(j)' = {} <=> Places(j) = {}
  /\ Lone(Places(j)) => Lone(Places(j)')
  /\ Places(j) # {} => hash'[j] = hash[j]
  /\ Running(j)' = Running(j)
  /\ \A w \in Running(j) : at'[w] = at[w] /\ args'[w] = args[w]
  /\ Intact(j)' => Intact(j)
  /\ replays' = 0 => replays = 0
  /\ outages' = 0 => outages = 0
  /\ workerCrashes' = 0 => workerCrashes = 0

\* A job of which nothing changes stays orderly.
LEMMA SameOrderly ==
  ASSUME NEW j \in Jobs, Orderly(j), Same(j)
  PROVE  Orderly(j)'
<1>1. Unborn(j)' /\ Awaited(j)'
  BY DEF Same, Orderly, Unborn, Awaited
<1>2. OneDispatch(j)' /\ OneRun(j)'
  BY DEF Same, Orderly, OneDispatch, OneRun, Lone
<1>3. ForMaker(j)'
  BY DEF Same, Orderly, ForMaker
<1>4. Story(j)'
  BY DEF Same, Orderly, Story, Shown
<1>5. Ended(j)'
  BY DEF Same, Orderly, Ended
<1> QED BY <1>1, <1>2, <1>3, <1>4, <1>5 DEF Orderly

\* Who runs a job.
LEMMA RunningFacts ==
  ASSUME TypeOK, IdleIsFree, NEW w \in Runners
  PROVE  /\ \A j \in Jobs : w \in Running(j) <=> on[w] = j /\ at[w] \in RunSteps
         /\ at[w] \in RunSteps => on[w] \in Jobs
<1>1. at[w] \in Steps /\ (at[w] # "idle" => on[w] \in Jobs) /\ NoJob \notin Jobs
  BY Constants DEF TypeOK, RunOK
<1> QED BY <1>1 DEF Running, IdleIsFree, RunSteps

\* A run is of a job that was made and dispatched; if it was dispatched once,
\* the run is the only one.
LEMMA SoleRun ==
  ASSUME NEW j \in Jobs, Orderly(j), NEW w \in Running(j), sent[j] \in Nat
  PROVE  /\ sent[j] # 0 /\ status[j] # "none" /\ args[w].user = maker[j]
         /\ sent[j] = 1 => /\ Shown(j, at[w]) /\ told[j] = <<>>
                           /\ Running(j) = {w} /\ Places(j) = {}
<1>1. sent[j] # 0 /\ status[j] # "none" /\ args[w].user = maker[j]
  BY DEF Orderly, OneRun, Unborn, ForMaker
<1>2. ASSUME sent[j] = 1
      PROVE  Shown(j, at[w]) /\ told[j] = <<>> /\ Running(j) = {w} /\ Places(j) = {}
  BY <1>2 DEF Orderly, OneRun, Story, Lone
<1> QED BY <1>1, <1>2

\* What no step of a run changes.
Untouched ==
  UNCHANGED <<maker, sent, keyed, keys, req, queue, hash, replays, outages,
              workerCrashes>>

\* A run moves on.
LEMMA Advance ==
  ASSUME TypeOK, InOrder,
         NEW w \in Runners, at[w] \in RunSteps, NEW s \in RunSteps,
         Become(w, s), UNCHANGED <<on, args, told>>, Untouched,
         \A k \in Jobs \ {on[w]} : status'[k] = status[k],
         status[on[w]] # "none" => status'[on[w]] # "none",
         sent[on[w]] = 1 => Shown(on[w], s)'
  PROVE  InOrder'
<1> PICK n \in Jobs : n = on[w]
  BY RunningFacts DEF InOrder
<1>1. /\ at \in [Runners -> Steps] /\ at'[w] = s /\ s \notin {"idle", "deliver"}
      /\ \A v \in Runners \ {w} : at'[v] = at[v]
      /\ sent \in [Jobs -> Nat]
  BY DEF TypeOK, RunOK, HistOK, Become, RunSteps
<1>2. IdleIsFree'
  BY <1>1 DEF InOrder, IdleIsFree
<1>3. \A j \in Jobs : /\ Asking(j)' = Asking(j) /\ Places(j)' = Places(j)
                      /\ Running(j)' = Running(j) /\ Intact(j)' = Intact(j)
  BY <1>1 DEF Untouched, Asking, Places, Running, Intact, RunSteps
<1>4. ASSUME NEW j \in Jobs \ {n} PROVE Orderly(j)'
  <2>1. \A v \in Running(j) : v # w /\ v \in Runners
    BY DEF Running
  <2>2. Same(j)
    BY <1>1, <1>3, <2>1 DEF Untouched, Same
  <2> QED BY <2>2, SameOrderly DEF InOrder
<1>5. Orderly(n)'
  <2>1. w \in Running(n) /\ Orderly(n) /\ sent[n] \in Nat
    BY <1>1, RunningFacts DEF InOrder
  <2>2. /\ sent'[n] = sent[n] /\ sent[n] # 0 /\ status'[n] # "none"
        /\ sent[n] = 1 => told[n] = <<>> /\ Running(n) = {w} /\ Places(n) = {}
    BY <2>1, SoleRun DEF Untouched
  <2>3. Unborn(n)' /\ Awaited(n)' /\ OneDispatch(n)' /\ OneRun(n)' /\ ForMaker(n)'
    BY <1>3, <2>1, <2>2 DEF Untouched, Orderly, Unborn, Awaited, OneDispatch, OneRun,
       ForMaker, Lone
  <2>4. Ended(n)'
    BY <1>3, <2>1 DEF Ended
  <2>5. Story(n)'
    BY <1>1, <1>3, <2>2 DEF Story, Shown
  <2> QED BY <2>3, <2>4, <2>5 DEF Orderly
<1> QED BY <1>2, <1>4, <1>5 DEF InOrder

\* A run ends, or the worker dies with it.
LEMMA Finish ==
  ASSUME TypeOK, InOrder,
         NEW w \in Runners, at[w] \in RunSteps, Finished(w),
         UNCHANGED <<maker, sent, keyed, keys, req, queue, hash, replays, outages, status>>,
         workerCrashes' = 0 => workerCrashes = 0,
         \A k \in Jobs \ {on[w]} : told'[k] = told[k],
         workerCrashes' = 0 /\ sent[on[w]] = 1 =>
           /\ status[on[w]] = "queued" => maker[on[w]] \in BadCreds
           /\ status[on[w]] \in Terminal /\ Intact(on[w])
                => told'[on[w]] = <<status[on[w]]>>
  PROVE  InOrder'
<1> PICK n \in Jobs : n = on[w]
  BY RunningFacts DEF InOrder
<1>1. /\ at'[w] = "idle" /\ on'[w] = NoJob /\ NoJob \notin Jobs
      /\ \A v \in Runners \ {w} : at'[v] = at[v] /\ on'[v] = on[v] /\ args'[v] = args[v]
      /\ sent \in [Jobs -> Nat]
  BY Constants DEF TypeOK, RunOK, HistOK, Finished, BeginRun, Become
<1>2. IdleIsFree'
  BY <1>1 DEF InOrder, IdleIsFree
<1>3. \A j \in Jobs : /\ Asking(j)' = Asking(j) /\ Places(j)' = Places(j)
                      /\ Running(j)' = Running(j) \ {w} /\ Intact(j)' = Intact(j)
  BY <1>1 DEF Asking, Places, Running, Intact
<1>4. ASSUME NEW j \in Jobs \ {n} PROVE Orderly(j)'
  <2>1. \A v \in Running(j) : v # w /\ v \in Runners
    BY DEF Running
  <2>2. Running(j)' = Running(j)
    BY <1>3, <2>1
  <2>3. Same(j)
    BY <1>1, <1>3, <2>1, <2>2 DEF Same
  <2> QED BY <2>3, SameOrderly DEF InOrder
<1>5. Orderly(n)'
  <2>1. w \in Running(n) /\ Orderly(n) /\ sent[n] \in Nat
    BY <1>1, RunningFacts DEF InOrder
  <2>2. /\ sent'[n] = sent[n] /\ sent[n] # 0 /\ status'[n] # "none"
        /\ sent[n] = 1 => Running(n) = {w} /\ Places(n) = {}
    BY <2>1, SoleRun
  <2>3. Unborn(n)' /\ Awaited(n)' /\ OneDispatch(n)' /\ OneRun(n)'
    BY <1>3, <2>1, <2>2 DEF Orderly, Unborn, Awaited, OneDispatch, OneRun, Lone
  <2>4. ForMaker(n)'
    <3>1. \A v \in Running(n) \ {w} : v \in Runners /\ args'[v] = args[v]
      BY <1>1 DEF Running
    <3> QED BY <1>3, <2>1, <3>1 DEF Orderly, ForMaker
  <2>5. Ended(n)'
    BY <1>3, <2>2 DEF Ended
  <2>6. Story(n)'
    BY <1>3, <2>2 DEF Story
  <2> QED BY <2>3, <2>4, <2>5, <2>6 DEF Orderly
<1> QED BY <1>2, <1>4, <1>5 DEF InOrder

\* The steps of a run keep jobs orderly.
LEMMA RunStepOnce ==
  ASSUME TypeOK, InOrder, NEW w \in Runners, RunStep(w)
  PROVE  InOrder'
<1> PICK n : n = on[w]
  OBVIOUS
<1>1. at[w] \in RunSteps /\ status \in [Jobs -> Statuses] /\ keys \subseteq users
      /\ at \in [Runners -> Steps]
  BY DEF RunStep, Context, Start, FirstLog, StorePage, WorkFails, FinishScrape,
     FinishCrawl, Usage, Notify, Fail, FailUsage, FailNotify, Announce, RunSteps, Steps,
     TypeOK, DbOK, RunOK
<1>2. /\ n \in Jobs /\ status[n] # "none" /\ args[w].user = maker[n]
      /\ sent[n] = 1 => Shown(n, at[w]) /\ told[n] = <<>>
  <2>1. n \in Jobs /\ w \in Running(n) /\ Orderly(n) /\ sent[n] \in Nat
    BY <1>1, RunningFacts DEF TypeOK, HistOK, InOrder
  <2> QED BY <2>1, SoleRun
<1>3. Intact(n) => UsageAccepted(args[w])
  BY <1>1, <1>2 DEF Intact, UsageAccepted
<1>4. ASSUME Untouched, UNCHANGED <<on, args, told>>,
             NEW s \in RunSteps, Become(w, s),
             \A k \in Jobs \ {n} : status'[k] = status[k],
             status'[n] # "none", sent[n] = 1 => Shown(n, s)'
      PROVE  InOrder'
  BY <1>1, <1>4, Advance
<1>5. ASSUME Untouched, UNCHANGED status, Finished(w),
             \A k \in Jobs \ {n} : told'[k] = told[k],
             sent[n] = 1 => /\ status[n] = "queued" => maker[n] \in BadCreds
                            /\ status[n] \in Terminal /\ Intact(n) => told'[n] = <<status[n]>>
      PROVE  InOrder'
  BY <1>1, <1>5, Finish DEF Untouched
<1>s. ASSUME NEW s \in Statuses \ {"none"}, SetStatus(n, s)
      PROVE  /\ \A k \in Jobs \ {n} : status'[k] = status[k]
             /\ status'[n] = IF Exists(n) THEN s ELSE status[n]
             /\ status'[n] # "none"
  BY <1>1, <1>2, <1>s DEF SetStatus, Exists
<1>t. {"start", "log", "work", "usage", "notify", "fail", "failUsage", "failNotify"}
        \subseteq RunSteps
  BY DEF RunSteps, Steps
<1>6. CASE Context(w)
  <2>0. Untouched /\ UNCHANGED <<status, told>> /\ at[w] = "context"
    BY <1>6 DEF Context, Untouched, db, rq, proc, hist, bound
  <2>1. CASE args[w].user \in BadCreds /\ Finished(w)
    BY <1>2, <1>5, <2>0, <2>1 DEF Shown, Terminal
  <2>2. CASE Become(w, "start") /\ UNCHANGED <<on, args>>
    <3>1. sent[n] = 1 => Shown(n, "start")'
      BY <1>2, <2>0 DEF Shown
    <3> QED BY <1>2, <1>4, <1>t, <2>0, <2>2, <3>1 DEF Shown
  <2> QED BY <1>6, <2>1, <2>2 DEF Context
<1>7. CASE Start(w)
  <2>0. /\ Untouched /\ UNCHANGED <<on, args, told>> /\ at[w] = "start"
        /\ Become(w, "log") /\ SetStatus(n, "running")
    BY <1>7 DEF Start, Untouched, rq, proc, hist, bound
  <2>1. "running" \in Statuses \ {"none"}
    BY DEF Statuses
  <2>2. sent[n] = 1 => Shown(n, "log")'
    BY <1>2, <1>s, <2>0, <2>1 DEF Shown, Exists
  <2> QED BY <1>4, <1>s, <1>t, <2>0, <2>1, <2>2 DEF Shown
<1>8. CASE FirstLog(w)
  <2> DEFINE s == IF Exists(n) THEN "work" ELSE "fail"
  <2>0. /\ Untouched /\ UNCHANGED <<status, on, args, told>> /\ at[w] = "log"
        /\ Become(w, s)
    BY <1>8 DEF FirstLog, Untouched, db, rq, proc, hist, bound
  <2>1. PICK t \in RunSteps : t = s
    BY <1>t
  <2>2. sent[n] = 1 => Shown(n, t)'
    BY <1>2, <2>0, <2>1 DEF Shown, Exists
  <2> HIDE DEF s
  <2> QED BY <1>2, <1>4, <2>0, <2>1, <2>2 DEF Shown
<1>9. CASE StorePage(w)
  <2>0. /\ Untouched /\ UNCHANGED <<status, on, args, told>> /\ at[w] = "work"
        /\ Become(w, "work") \/ (Become(w, "fail") /\ ~Exists(n))
    <3>1. at[w] = "work" => [at EXCEPT ![w] = "work"] = at
      BY <1>1
    <3> QED BY <1>9, <3>1 DEF StorePage, Untouched, rq, proc, hist, bound, Become
  <2>1. CASE Become(w, "work")
    <3>1. sent[n] = 1 => Shown(n, "work")'
      BY <1>2, <2>0 DEF Shown
    <3> QED BY <1>2, <1>4, <1>t, <2>0, <2>1, <3>1 DEF Shown
  <2>2. CASE Become(w, "fail") /\ ~Exists(n)
    <3>1. sent[n] = 1 => Shown(n, "fail")'
      BY <1>2, <2>0, <2>2 DEF Shown, Exists
    <3> QED BY <1>2, <1>4, <1>t, <2>0, <2>2, <3>1 DEF Shown
  <2> QED BY <2>0, <2>1, <2>2
<1>10. CASE WorkFails(w)
  <2>0. /\ Untouched /\ UNCHANGED <<status, on, args, told>> /\ at[w] = "work"
        /\ Become(w, "fail")
    BY <1>10 DEF WorkFails, Untouched, db, rq, proc, hist, bound
  <2>1. sent[n] = 1 => Shown(n, "fail")'
    BY <1>2, <2>0 DEF Shown
  <2> QED BY <1>2, <1>4, <1>t, <2>0, <2>1 DEF Shown
<1>11. CASE FinishScrape(w) \/ FinishCrawl(w)
  <2>0. /\ Untouched /\ UNCHANGED <<on, args, told>> /\ at[w] = "work"
        /\ \/ SetStatus(n, "completed") /\ Become(w, "usage")
           \/ ~Exists(n) /\ UNCHANGED status /\ Become(w, "fail")
    BY <1>11 DEF FinishScrape, FinishCrawl, Untouched, rq, proc, hist, bound
  <2>1. CASE SetStatus(n, "completed") /\ Become(w, "usage")
    <3>1. "completed" \in Statuses \ {"none"}
      BY DEF Statuses
    <3>2. sent[n] = 1 => Shown(n, "usage")'
      BY <1>2, <1>s, <2>0, <2>1, <3>1 DEF Shown, Exists
    <3> QED BY <1>4, <1>s, <1>t, <2>0, <2>1, <3>1, <3>2 DEF Shown
  <2>2. CASE ~Exists(n) /\ UNCHANGED status /\ Become(w, "fail")
    <3>1. sent[n] = 1 => Shown(n, "fail")'
      BY <1>2, <2>0, <2>2 DEF Shown, Exists
    <3> QED BY <1>2, <1>4, <1>t, <2>0, <2>2, <3>1 DEF Shown
  <2> QED BY <2>0, <2>1, <2>2
<1>12. CASE Usage(w)
  <2>0. /\ Untouched /\ UNCHANGED <<status, on, args, told>> /\ at[w] = "usage"
        /\ Become(w, "notify") \/ (Become(w, "fail") /\ ~UsageAccepted(args[w]))
    BY <1>12 DEF Usage, Untouched, db, rq, proc, hist, bound
  <2>1. CASE Become(w, "notify")
    <3>1. sent[n] = 1 => Shown(n, "notify")'
      BY <1>2, <2>0 DEF Shown
    <3> QED BY <1>2, <1>4, <1>t, <2>0, <2>1, <3>1 DEF Shown
  <2>2. CASE Become(w, "fail") /\ ~UsageAccepted(args[w])
    <3>0. ~Intact(n)' /\ n \in Jobs
      BY <1>2, <1>3, <2>0, <2>2 DEF Intact, Untouched
    <3>1. sent[n] = 1 => Shown(n, "fail")'
      BY <1>2, <2>0, <3>0 DEF Shown
    <3> QED BY <1>2, <1>4, <1>t, <2>0, <2>2, <3>1 DEF Shown
  <2> QED BY <2>0, <2>1, <2>2
<1>13. CASE Fail(w)
  <2>0. /\ Untouched /\ UNCHANGED <<on, args, told>> /\ at[w] = "fail"
        /\ Become(w, "failUsage") /\ SetStatus(n, "failed")
    BY <1>13 DEF Fail, Untouched, rq, proc, hist, bound
  <2>1. "failed" \in Statuses \ {"none"}
    BY DEF Statuses
  <2>2. sent[n] = 1 => Shown(n, "failUsage")'
    BY <1>1, <1>2, <1>s, <2>0, <2>1 DEF Shown, Exists
  <2> QED BY <1>4, <1>s, <1>t, <2>0, <2>1, <2>2 DEF Shown
<1>14. CASE FailUsage(w)
  <2>0. /\ Untouched /\ UNCHANGED <<status, told>> /\ at[w] = "failUsage"
        /\ \/ Become(w, "failNotify") /\ UNCHANGED <<on, args>>
           \/ Finished(w) /\ ~UsageAccepted(args[w])
    BY <1>14 DEF FailUsage, Untouched, db, rq, proc, hist, bound
  <2>1. CASE Become(w, "failNotify") /\ UNCHANGED <<on, args>>
    <3>1. sent[n] = 1 => Shown(n, "failNotify")'
      BY <1>2, <2>0 DEF Shown
    <3> QED BY <1>2, <1>4, <1>t, <2>0, <2>1, <3>1 DEF Shown
  <2>2. CASE Finished(w) /\ ~UsageAccepted(args[w])
    <3>1. sent[n] = 1 => status[n] # "queued" /\ ~Intact(n)
      BY <1>2, <1>3, <2>0, <2>2 DEF Shown
    <3> QED BY <1>5, <2>0, <2>2, <3>1
  <2> QED BY <2>0, <2>1, <2>2
<1>15. CASE Notify(w) \/ FailNotify(w)
  <2> DEFINE event == IF at[w] = "notify" THEN "completed" ELSE "failed"
  <2>0. /\ Untouched /\ UNCHANGED status /\ at[w] \in {"notify", "failNotify"}
        /\ Finished(w)
        /\ IF Exists(n) THEN told' = [told EXCEPT ![n] = Append(@, event)]
                        ELSE UNCHANGED told
    BY <1>15 DEF Notify, FailNotify, Announce, Untouched, db, proc, bound
  <2>1. \A k \in Jobs \ {n} : told'[k] = told[k]
    BY <2>0 DEF TypeOK, HistOK
  <2>2. sent[n] = 1 => /\ status[n] \in {event, "deleted"} /\ told[n] = <<>>
                       /\ status[n] # "queued"
    BY <1>2, <2>0 DEF Shown
  <2>3. sent[n] = 1 /\ status[n] \in Terminal => told'[n] = <<event>> /\ status[n] = event
    BY <1>2, <2>0, <2>2 DEF Terminal, Exists, TypeOK, HistOK
  <2> HIDE DEF event
  <2> QED BY <1>5, <2>0, <2>1, <2>2, <2>3
<1> QED BY <1>6, <1>7, <1>8, <1>9, <1>10, <1>11, <1>12, <1>13, <1>14, <1>15
        DEF RunStep

\* A step that leaves every job as it is.
LEMMA AllSame ==
  ASSUME InOrder, IdleIsFree', \A j \in Jobs : Same(j)
  PROVE  InOrder'
BY SameOrderly DEF InOrder

\* An idle runner takes a job.
LEMMA Begins ==
  ASSUME TypeOK, IdleIsFree, NEW w \in Runners, at[w] = "idle", NEW j \in Jobs,
         NEW a, NEW s \in RunSteps, BeginRun(w, j, a, s)
  PROVE  /\ IdleIsFree' /\ at'[w] = s /\ args'[w] = a
         /\ Running(j)' = Running(j) \cup {w}
         /\ \A k \in Jobs \ {j} : Running(k)' = Running(k)
         /\ \A k \in Jobs : w \notin Running(k)
         /\ \A k \in Jobs : \A v \in Running(k) : at'[v] = at[v] /\ args'[v] = args[v]
<1>1. /\ at \in [Runners -> Steps] /\ args \in [Runners -> Args]
      /\ on \in [Runners -> Jobs \cup {NoJob}]
      /\ on[w] = NoJob /\ NoJob \notin Jobs /\ s \notin {"idle", "deliver"}
  BY Constants DEF TypeOK, RunOK, IdleIsFree, RunSteps
<1>2. /\ at'[w] = s /\ args'[w] = a /\ on'[w] = j
      /\ \A v \in Runners \ {w} : at'[v] = at[v] /\ args'[v] = args[v] /\ on'[v] = on[v]
  BY <1>1 DEF BeginRun, Become
<1>3. IdleIsFree'
  BY <1>1, <1>2 DEF IdleIsFree
<1>4. \A k \in Jobs : w \notin Running(k) /\ Running(k) \subseteq Runners
  BY <1>1 DEF Running
<1>5. Running(j)' = Running(j) \cup {w}
  BY <1>1, <1>2 DEF Running
<1>6. ASSUME NEW k \in Jobs \ {j} PROVE Running(k)' = Running(k)
  BY <1>1, <1>2 DEF Running
<1> QED BY <1>2, <1>3, <1>4, <1>5, <1>6

\* A handler gets a job, new or repeated, or gives it up.
LEMMA HandlerOnce ==
  ASSUME TypeOK, InOrder, NEW r \in Reqs,
         \/ \E j \in Jobs, u \in Callers : Accept(r, j, u)
         \/ \E j \in Jobs : Replay(r, j)
         \/ DispatchFails(r)
  PROVE  InOrder'
<1>0. /\ UNCHANGED <<queue, hash, at, on, args, sent, told, workerCrashes, keys>>
      /\ \A j \in Jobs : Running(j)' = Running(j) /\ Places(j)' = Places(j)
      /\ IdleIsFree'
  BY DEF Accept, Replay, DispatchFails, rq, run, bound, db, hist, Running, Places,
     InOrder, IdleIsFree
<1>t. /\ req \in [Reqs -> Jobs \cup {NoJob}] /\ NoJob \notin Jobs
      /\ status \in [Jobs -> Statuses] /\ maker \in [Jobs -> Callers]
      /\ replays \in Nat /\ outages \in Nat
  BY Constants DEF TypeOK, ProcOK, DbOK, HistOK, BoundOK
<1>1. ASSUME NEW j \in Jobs, NEW u \in Callers, Accept(r, j, u) PROVE InOrder'
  <2>1. /\ status[j] = "none" /\ status'[j] = "queued" /\ req[r] = NoJob
        /\ req' = [req EXCEPT ![r] = j] /\ UNCHANGED <<replays, outages>>
        /\ \A k \in Jobs \ {j} : /\ status'[k] = status[k] /\ maker'[k] = maker[k]
                                 /\ k \in keyed' => k \in keyed
    BY <1>1, <1>t DEF Accept, bound
  <2>2. ASSUME NEW k \in Jobs \ {j} PROVE Orderly(k)'
    <3>1. Asking(k)' = Asking(k) /\ (Intact(k)' <=> Intact(k))
      BY <1>0, <1>t, <2>1 DEF Asking, Intact
    <3>2. Same(k)
      BY <1>0, <2>1, <3>1 DEF Same
    <3> QED BY <3>2, SameOrderly DEF InOrder
  <2>3. /\ sent[j] = 0 /\ Asking(j) = {} /\ Places(j) = {} /\ Running(j) = {}
        /\ told[j] = <<>>
    BY <2>1 DEF InOrder, Orderly, Unborn, OneRun, Story
  <2>4. Asking(j)' = {r}
    BY <1>t, <2>1, <2>3 DEF Asking
  <2>5. Orderly(j)'
    BY <1>0, <2>1, <2>3, <2>4 DEF Orderly, Unborn, OneDispatch, OneRun, ForMaker, Story,
       Ended, Awaited, Lone
  <2> QED BY <1>0, <2>2, <2>5 DEF InOrder
<1>2. ASSUME NEW j \in Jobs, Replay(r, j) PROVE InOrder'
  <2>1. /\ j \in keyed /\ req[r] = NoJob /\ req' = [req EXCEPT ![r] = j]
        /\ replays' = replays + 1 /\ UNCHANGED <<status, maker, keyed, outages>>
    BY <1>2 DEF Replay, db, hist
  <2>2. ASSUME NEW k \in Jobs \ {j} PROVE Orderly(k)'
    <3>1. Asking(k)' = Asking(k) /\ (Intact(k)' <=> Intact(k))
      BY <1>0, <1>t, <2>1 DEF Asking, Intact
    <3>2. Same(k)
      BY <1>0, <1>t, <2>1, <3>1 DEF Same
    <3> QED BY <3>2, SameOrderly DEF InOrder
  <2>3. status[j] # "none" /\ Orderly(j)
    BY <2>1 DEF InOrder, Orderly, Unborn
  <2>4. Unborn(j)' /\ OneDispatch(j)' /\ Awaited(j)' /\ OneRun(j)' /\ ForMaker(j)'
    BY <1>0, <1>t, <2>1, <2>3 DEF Orderly, Unborn, OneDispatch, Awaited, OneRun, ForMaker, Lone
  <2>5. Story(j)' /\ Ended(j)'
    BY <1>0, <1>t, <2>1, <2>3 DEF Orderly, Story, Shown, Ended, Intact
  <2> QED BY <1>0, <2>2, <2>4, <2>5 DEF InOrder, Orderly
<1>3. CASE DispatchFails(r)
  <2>1. /\ req' = [req EXCEPT ![r] = NoJob]
        /\ outages' = outages + 1 /\ UNCHANGED <<status, maker, keyed, replays>>
    BY <1>3 DEF DispatchFails, db, hist
  <2>2. ASSUME NEW j \in Jobs PROVE Orderly(j)'
    <3>1. Asking(j)' \subseteq Asking(j) /\ Orderly(j)
      BY <1>t, <2>1 DEF Asking, InOrder
    <3>2. Unborn(j)' /\ OneDispatch(j)' /\ Awaited(j)' /\ OneRun(j)' /\ ForMaker(j)'
      BY <1>0, <1>t, <2>1, <3>1 DEF Orderly, Unborn, OneDispatch, Awaited, OneRun, ForMaker,
         Lone
    <3>3. Story(j)' /\ Ended(j)'
      BY <1>0, <1>t, <2>1, <3>1 DEF Orderly, Story, Shown, Ended, Intact
    <3> QED BY <3>2, <3>3 DEF Orderly
  <2> QED BY <1>0, <2>2 DEF InOrder
<1> QED BY <1>1, <1>2, <1>3

\* Where the jobs are in a list that grows at its end.
LEMMA PlacesAppended ==
  ASSUME queue \in Seq(Jobs), NEW j \in Jobs, queue' = Append(queue, j)
  PROVE  /\ Places(j)' = Places(j) \cup {Len(queue) + 1}
         /\ \A k \in Jobs \ {j} : Places(k)' = Places(k)
<1>1. /\ DOMAIN queue = 1..Len(queue) /\ DOMAIN queue' = 1..(Len(queue) + 1)
      /\ \A i \in 1..Len(queue) : queue'[i] = queue[i]
      /\ queue'[Len(queue) + 1] = j /\ Len(queue) \in Nat
  BY AppendProperties
<1>2. Places(j)' = Places(j) \cup {Len(queue) + 1}
  BY <1>1 DEF Places
<1>3. ASSUME NEW k \in Jobs \ {j} PROVE Places(k)' = Places(k)
  BY <1>1 DEF Places
<1> QED BY <1>2, <1>3

\* ... and that loses its head.
LEMMA PlacesTaken ==
  ASSUME queue \in Seq(Jobs), queue # <<>>, NEW j \in Jobs, j = Head(queue),
         queue' = Tail(queue)
  PROVE  /\ Places(j) # {}
         /\ Lone(Places(j)) => Places(j)' = {}
         /\ \A k \in Jobs \ {j} : /\ Places(k)' = {} <=> Places(k) = {}
                                  /\ Lone(Places(k)) => Lone(Places(k)')
<1>1. /\ DOMAIN queue = 1..Len(queue) /\ DOMAIN queue' = 1..(Len(queue) - 1)
      /\ \A i \in 1..(Len(queue) - 1) : queue'[i] = queue[i + 1]
      /\ queue[1] = j /\ Len(queue) \in Nat \ {0}
  BY EmptySeq, HeadTailProperties
<1>2. 1 \in Places(j)
  BY <1>1 DEF Places
<1>3. ASSUME NEW k \in Jobs, NEW i, i \in Places(k)'
      PROVE  i + 1 \in Places(k) /\ i \in Nat \ {0}
  BY <1>1, <1>3 DEF Places
<1>4. ASSUME NEW k \in Jobs \ {j}, NEW i \in Places(k) PROVE i - 1 \in Places(k)'
  <2>1. i \in 1..Len(queue) /\ queue[i] = k /\ i # 1
    BY <1>1 DEF Places
  <2>2. i - 1 \in 1..(Len(queue) - 1) /\ queue'[i - 1] = queue[i]
    BY <1>1, <2>1
  <2> QED BY <1>1, <2>1, <2>2 DEF Places
<1>5. ASSUME Lone(Places(j)), NEW i, i \in Places(j)' PROVE FALSE
  BY <1>2, <1>3, <1>5 DEF Lone
<1>6. ASSUME NEW k \in Jobs \ {j}, Lone(Places(k)) PROVE Lone(Places(k)')
  BY <1>3, <1>6 DEF Lone
<1> QED BY <1>2, <1>3, <1>4, <1>5, <1>6

\* A handler dispatches its job: the only time, unless a request was repeated.
LEMMA DispatchOnce ==
  ASSUME TypeOK, InOrder, NEW r \in Reqs, Dispatch(r)
  PROVE  InOrder'
<1>t. /\ req \in [Reqs -> Jobs \cup {NoJob}] /\ NoJob \notin Jobs
      /\ queue \in Seq(Jobs) /\ hash \in [Jobs -> Args] /\ sent \in [Jobs -> Nat]
      /\ IdleIsFree
  BY Constants DEF TypeOK, RqOK, ProcOK, HistOK, InOrder
<1> PICK j \in Jobs : j = req[r]
  BY <1>t DEF Dispatch
<1>1. PICK a : a = [user |-> maker[j], asked |-> TRUE]
  OBVIOUS
<1>2. /\ Send(j, a) /\ req' = [req EXCEPT ![r] = NoJob]
      /\ UNCHANGED <<status, keys, keyed, maker, told, replays, outages, workerCrashes>>
  BY <1>1 DEF Dispatch, db, bound
<1>3. /\ a.user = maker[j]
      /\ sent'[j] = sent[j] + 1 /\ \A k \in Jobs \ {j} : sent'[k] = sent[k]
      /\ Asking(j)' = Asking(j) \ {r} /\ r \in Asking(j)
      /\ \A k \in Jobs \ {j} : Asking(k)' = Asking(k)
      /\ \A k \in Jobs : Intact(k)' <=> Intact(k)
  BY <1>1, <1>2, <1>t DEF Send, Asking, Intact
<1>4. /\ Orderly(j) /\ status[j] # "none"
      /\ replays = 0 => sent[j] = 0 /\ Asking(j)' = {}
  <2>1. Orderly(j) /\ status[j] # "none"
    BY <1>3 DEF InOrder, Orderly, Unborn
  <2>2. replays = 0 => sent[j] = 0 /\ Asking(j)' = {}
    BY <1>3, <2>1 DEF Orderly, OneDispatch, Lone
  <2> QED BY <2>1, <2>2
<1>5. sent[j] = 0 => /\ Places(j) = {} /\ Running(j) = {} /\ told[j] = <<>>
                     /\ status[j] \in {"queued", "deleted"}
  BY <1>4 DEF Orderly, OneRun, Story
<1>6. CASE queue' = Append(queue, j) /\ hash' = [hash EXCEPT ![j] = a] /\ UNCHANGED run
  <2>1. /\ \A k \in Jobs : Running(k)' = Running(k)
        /\ UNCHANGED <<at, on, args>> /\ IdleIsFree'
    BY <1>t, <1>6 DEF run, Running, IdleIsFree
  <2>2. /\ Places(j)' = Places(j) \cup {Len(queue) + 1}
        /\ \A k \in Jobs \ {j} : Places(k)' = Places(k)
        /\ hash'[j] = a /\ \A k \in Jobs \ {j} : hash'[k] = hash[k]
    BY <1>t, <1>6, PlacesAppended
  <2>3. ASSUME NEW k \in Jobs \ {j} PROVE Orderly(k)'
    <3>1. Same(k)
      BY <1>2, <1>3, <2>1, <2>2 DEF Same
    <3> QED BY <3>1, SameOrderly DEF InOrder
  <2>4. Unborn(j)' /\ OneDispatch(j)' /\ Awaited(j)' /\ OneRun(j)'
    BY <1>t, <1>2, <1>3, <1>4, <1>5, <2>1, <2>2 DEF Unborn, OneDispatch, Awaited, OneRun, Lone
  <2>5. ForMaker(j)'
    BY <1>2, <1>3, <1>4, <2>1, <2>2 DEF Orderly, ForMaker
  <2>6. Story(j)' /\ Ended(j)'
    BY <1>t, <1>2, <1>3, <1>5, <2>1, <2>2 DEF Story, Ended
  <2> QED BY <2>1, <2>3, <2>4, <2>5, <2>6 DEF InOrder, Orderly
<1>7. CASE /\ \E t \in Threads : at[t] = "idle" /\ BeginRun(t, j, a, "context")
           /\ UNCHANGED <<queue, hash>>
  <2> PICK t \in Threads : at[t] = "idle" /\ BeginRun(t, j, a, "context")
    BY <1>7
  <2>0. t \in Runners /\ "context" \in RunSteps
    BY DEF Runners, RunSteps, Steps
  <2>1. /\ IdleIsFree' /\ at'[t] = "context" /\ args'[t] = a
        /\ Running(j)' = Running(j) \cup {t}
        /\ \A k \in Jobs \ {j} : Running(k)' = Running(k)
        /\ \A k \in Jobs : \A v \in Running(k) : at'[v] = at[v] /\ args'[v] = args[v]
    BY <1>t, <2>0, Begins
  <2>2. UNCHANGED <<queue, hash>> /\ \A k \in Jobs : Places(k)' = Places(k)
    BY <1>7 DEF Places
  <2>3. ASSUME NEW k \in Jobs \ {j} PROVE Orderly(k)'
    <3>1. Same(k)
      BY <1>2, <1>3, <2>1, <2>2 DEF Same
    <3> QED BY <3>1, SameOrderly DEF InOrder
  <2>4. Unborn(j)' /\ OneDispatch(j)' /\ Awaited(j)' /\ OneRun(j)'
    BY <1>t, <1>2, <1>3, <1>4, <1>5, <2>1, <2>2 DEF Unborn, OneDispatch, Awaited, OneRun, Lone
  <2>5. ForMaker(j)'
    BY <1>2, <1>3, <1>4, <2>1, <2>2 DEF Orderly, ForMaker
  <2>6. Story(j)' /\ Ended(j)'
    BY <1>t, <1>2, <1>3, <1>5, <2>1, <2>2 DEF Story, Shown, Ended
  <2> QED BY <2>1, <2>3, <2>4, <2>5, <2>6 DEF InOrder, Orderly
<1> QED BY <1>2, <1>6, <1>7 DEF Send

\* A synchronous scrape is made and run in one step.
LEMMA SyncOnce ==
  ASSUME TypeOK, InOrder, NEW t \in Threads, NEW j \in Jobs, NEW u \in Callers,
         SyncScrape(t, j, u)
  PROVE  InOrder'
<1>1. PICK a : a = [user |-> u, asked |-> TRUE]
  OBVIOUS
<1>2. /\ status[j] = "none" /\ status' = [status EXCEPT ![j] = "running"]
      /\ maker' = [maker EXCEPT ![j] = u] /\ sent' = [sent EXCEPT ![j] = 1]
      /\ UNCHANGED <<keyed, keys, told, req, queue, hash, replays, outages, workerCrashes>>
      /\ at[t] = "idle" /\ BeginRun(t, j, a, "log")
  BY <1>1 DEF SyncScrape, rq, proc, bound
<1>t. /\ status \in [Jobs -> Statuses] /\ sent \in [Jobs -> Nat]
      /\ maker \in [Jobs -> Callers] /\ IdleIsFree
      /\ t \in Runners /\ "log" \in RunSteps
  BY DEF TypeOK, DbOK, HistOK, InOrder, Runners, RunSteps, Steps
<1>3. /\ status'[j] = "running" /\ maker'[j] = u /\ sent'[j] = 1
      /\ \A k \in Jobs \ {j} : /\ status'[k] = status[k] /\ maker'[k] = maker[k]
                               /\ sent'[k] = sent[k] /\ (Intact(k)' <=> Intact(k))
      /\ \A k \in Jobs : Asking(k)' = Asking(k) /\ Places(k)' = Places(k)
  BY <1>2, <1>t DEF Intact, Asking, Places
<1>4. /\ IdleIsFree' /\ at'[t] = "log" /\ args'[t] = a
      /\ Running(j)' = Running(j) \cup {t}
      /\ \A k \in Jobs \ {j} : Running(k)' = Running(k)
      /\ \A k \in Jobs : \A v \in Running(k) : at'[v] = at[v] /\ args'[v] = args[v]
  BY <1>2, <1>t, Begins
<1>5. ASSUME NEW k \in Jobs \ {j} PROVE Orderly(k)'
  <2>1. Same(k)
    BY <1>2, <1>3, <1>4 DEF Same
  <2> QED BY <2>1, SameOrderly DEF InOrder
<1>6. /\ Asking(j) = {} /\ Places(j) = {} /\ Running(j) = {} /\ told[j] = <<>>
  BY <1>2 DEF InOrder, Orderly, Unborn, OneRun, Story
<1>7. Orderly(j)'
  <2>1. Unborn(j)' /\ OneDispatch(j)' /\ Awaited(j)' /\ OneRun(j)' /\ ForMaker(j)'
    BY <1>1, <1>3, <1>4, <1>6 DEF Unborn, OneDispatch, Awaited, OneRun, ForMaker, Lone
  <2>2. Story(j)' /\ Ended(j)'
    BY <1>2, <1>3, <1>4, <1>6 DEF Story, Shown, Ended
  <2> QED BY <2>1, <2>2 DEF Orderly
<1> QED BY <1>4, <1>5, <1>7 DEF InOrder

\* A row is deleted, an account or its key.
LEMMA DeleteOnce ==
  ASSUME TypeOK, InOrder,
         \/ \E j \in Jobs : DeleteJob(j)
         \/ \E u \in Users : DeleteKey(u) \/ DeleteUser(u)
  PROVE  InOrder'
<1>1. /\ UNCHANGED <<maker, sent, told, keyed, req, queue, hash, at, on, args, replays,
                     outages, workerCrashes>>
      /\ keys' \subseteq keys
      /\ UNCHANGED status \/ \E j \in Jobs : status' = [status EXCEPT ![j] = "deleted"]
                                             /\ Exists(j)
  BY DEF DeleteJob, DeleteKey, DeleteUser, rq, proc, run, hist, bound
<1>2. /\ \A k \in Jobs : /\ Asking(k)' = Asking(k) /\ Places(k)' = Places(k)
                         /\ Running(k)' = Running(k) /\ (Intact(k)' => Intact(k))
      /\ IdleIsFree'
  BY <1>1 DEF Asking, Places, Running, Intact, InOrder, IdleIsFree
<1>3. ASSUME NEW k \in Jobs, status'[k] = status[k] PROVE Orderly(k)'
  <2>1. Same(k)
    BY <1>1, <1>2, <1>3 DEF Same
  <2> QED BY <2>1, SameOrderly DEF InOrder
<1>4. ASSUME NEW k \in Jobs, Exists(k), status'[k] = "deleted" PROVE Orderly(k)'
  <2>1. Unborn(k)' /\ OneDispatch(k)' /\ Awaited(k)' /\ OneRun(k)' /\ ForMaker(k)'
    BY <1>1, <1>2, <1>4 DEF InOrder, Orderly, Unborn, OneDispatch, Awaited, OneRun, ForMaker,
       Exists, Lone
  <2>2. Story(k)' /\ Ended(k)'
    BY <1>1, <1>2, <1>4 DEF InOrder, Orderly, Story, Shown, Ended, Terminal
  <2> QED BY <2>1, <2>2 DEF Orderly
<1>5. \A k \in Jobs : status'[k] = status[k] \/ (Exists(k) /\ status'[k] = "deleted")
  BY <1>1 DEF TypeOK, DbOK
<1> QED BY <1>2, <1>3, <1>4, <1>5 DEF InOrder

\* The worker takes a job from the list, or what is left when it dies with it.
LEMMA WorkerOnce ==
  ASSUME TypeOK, InOrder, WorkerStep \/ WorkerCrash
  PROVE  InOrder'
<1>t. /\ queue \in Seq(Jobs) /\ hash \in [Jobs -> Args] /\ sent \in [Jobs -> Nat]
      /\ workerCrashes \in Nat /\ at \in [Runners -> Steps]
      /\ on \in [Runners -> Jobs \cup {NoJob}] /\ args \in [Runners -> Args]
      /\ Worker \in Runners /\ IdleIsFree /\ NoJob \notin Jobs
  BY Constants DEF TypeOK, RqOK, HistOK, BoundOK, RunOK, InOrder, Runners
<1>1. CASE TakeJob
  <2> PICK j \in Jobs : j = Head(queue)
    BY <1>t, <1>1, EmptySeq, HeadTailProperties DEF TakeJob
  <2> PICK a : a = hash[j]
    OBVIOUS
  <2>1. /\ queue # <<>> /\ queue' = Tail(queue) /\ at[Worker] = "idle"
        /\ BeginRun(Worker, j, a, "context")
        /\ UNCHANGED <<status, maker, sent, told, keyed, keys, req, hash, replays, outages,
                       workerCrashes>>
    BY <1>1 DEF TakeJob, db, proc, hist, bound
  <2>2. "context" \in RunSteps
    BY DEF RunSteps, Steps
  <2>3. /\ IdleIsFree' /\ at'[Worker] = "context" /\ args'[Worker] = a
        /\ Running(j)' = Running(j) \cup {Worker}
        /\ \A k \in Jobs \ {j} : Running(k)' = Running(k)
        /\ \A k \in Jobs : \A v \in Running(k) : at'[v] = at[v] /\ args'[v] = args[v]
    BY <1>t, <2>1, <2>2, Begins
  <2>4. /\ Places(j) # {}
        /\ Lone(Places(j)) => Places(j)' = {}
        /\ \A k \in Jobs \ {j} : /\ Places(k)' = {} <=> Places(k) = {}
                                 /\ Lone(Places(k)) => Lone(Places(k)')
    BY <1>t, <2>1, PlacesTaken
  <2>5. \A k \in Jobs : Asking(k)' = Asking(k) /\ (Intact(k)' <=> Intact(k))
    BY <2>1 DEF Asking, Intact
  <2>6. ASSUME NEW k \in Jobs \ {j} PROVE Orderly(k)'
    <3>1. Same(k)
      BY <2>1, <2>3, <2>4, <2>5 DEF Same
    <3> QED BY <3>1, SameOrderly DEF InOrder
  <2>7. /\ Orderly(j) /\ sent[j] # 0 /\ status[j] # "none" /\ a.user = maker[j]
        /\ sent[j] = 1 => /\ Places(j)' = {} /\ Running(j) = {} /\ told[j] = <<>>
                          /\ status[j] \in {"queued", "deleted"}
    BY <2>4 DEF InOrder, Orderly, OneRun, Unborn, ForMaker, Story
  <2>8. Unborn(j)' /\ OneDispatch(j)' /\ Awaited(j)' /\ OneRun(j)' /\ ForMaker(j)'
    BY <2>1, <2>3, <2>5, <2>7 DEF Orderly, Unborn, OneDispatch, Awaited, OneRun, ForMaker, Lone
  <2>9. Story(j)' /\ Ended(j)'
    BY <2>1, <2>3, <2>7 DEF Story, Shown, Ended
  <2> QED BY <2>3, <2>6, <2>8, <2>9 DEF InOrder, Orderly
<1>2. CASE TakeHook \/ Delivered \/ (WorkerCrash /\ at[Worker] = "deliver")
  <2>1. /\ UNCHANGED <<status, maker, sent, told, keyed, keys, req, queue, hash, replays,
                       outages>>
        /\ workerCrashes' \in {workerCrashes, workerCrashes + 1}
    BY <1>2 DEF TakeHook, Delivered, WorkerCrash, db, rq, proc, hist, bound
  <2>2. /\ \A w \in Runners \ {Worker} : at'[w] = at[w] /\ on'[w] = on[w] /\ args'[w] = args[w]
        /\ at[Worker] \in {"idle", "deliver"}
        /\ at'[Worker] = "deliver" \/ (at'[Worker] = "idle" /\ on'[Worker] = NoJob)
    BY <1>t, <1>2 DEF TakeHook, Delivered, WorkerCrash, Finished, BeginRun, Become
  <2>3. IdleIsFree'
    BY <1>t, <2>2 DEF IdleIsFree
  <2>4. ASSUME NEW k \in Jobs PROVE Same(k)
    <3>1. Running(k)' = Running(k) /\ Running(k) \subseteq Runners \ {Worker}
      BY <1>t, <2>2 DEF Running, IdleIsFree
    <3>2. Asking(k)' = Asking(k) /\ Places(k)' = Places(k) /\ (Intact(k)' <=> Intact(k))
      BY <2>1 DEF Asking, Places, Intact
    <3> QED BY <1>t, <2>1, <2>2, <3>1, <3>2 DEF Same
  <2> QED BY <2>3, <2>4, AllSame
<1>3. CASE WorkerCrash /\ at[Worker] # "deliver"
  <2>1. /\ UNCHANGED <<maker, sent, keyed, keys, req, queue, hash, replays, outages, status,
                       told>>
        /\ workerCrashes' = workerCrashes + 1 /\ Finished(Worker)
        /\ at[Worker] \in RunSteps
    BY <1>t, <1>3 DEF WorkerCrash, db, rq, proc, hist, RunSteps
  <2>2. workerCrashes' # 0
    BY <1>t, <2>1
  <2> QED BY <1>t, <2>1, <2>2, Finish
<1> QED BY <1>1, <1>2, <1>3 DEF WorkerStep

\* Redis comes and goes.
LEMMA RedisOnce ==
  ASSUME TypeOK, InOrder, RedisDown \/ RedisUp \/ UNCHANGED vars
  PROVE  InOrder'
<1>1. /\ UNCHANGED <<status, maker, sent, told, keyed, keys, req, queue, hash, at, on, args,
                     replays, workerCrashes>>
      /\ outages' \in {outages, outages + 1} /\ outages \in Nat
  BY DEF RedisDown, RedisUp, db, rq, proc, run, hist, bound, vars, TypeOK, BoundOK
<1>2. IdleIsFree'
  BY <1>1 DEF InOrder, IdleIsFree
<1>3. ASSUME NEW k \in Jobs PROVE Same(k)
  <2>1. /\ Asking(k)' = Asking(k) /\ Places(k)' = Places(k) /\ Running(k)' = Running(k)
        /\ (Intact(k)' <=> Intact(k))
    BY <1>1 DEF Asking, Places, Running, Intact
  <2> QED BY <1>1, <2>1 DEF Same
<1> QED BY <1>2, <1>3, AllSame

\* Until the API process restarts nothing is recovered.
LEMMA NoRestart ==
  ASSUME TypeOK, OnceInv, [Next]_vars, apiCrashes' = 0
  PROVE  /\ apiCrashes = 0 /\ UpAtFirst' /\ InOrder
         /\ \/ \E r \in Reqs : Handler(r)
            \/ \E t \in Threads, j \in Jobs, u \in Callers : SyncScrape(t, j, u)
            \/ \E w \in Runners : RunStep(w)
            \/ WorkerStep \/ WorkerCrash
            \/ \E j \in Jobs : DeleteJob(j)
            \/ \E u \in Users : DeleteKey(u) \/ DeleteUser(u)
            \/ RedisDown \/ RedisUp \/ UNCHANGED vars
<1> DEFINE Moves ==
       \/ \E r \in Reqs : Handler(r)
       \/ \E t \in Threads, j \in Jobs, u \in Callers : SyncScrape(t, j, u)
       \/ \E w \in Runners : RunStep(w)
       \/ WorkerStep \/ WorkerCrash
       \/ \E j \in Jobs : DeleteJob(j)
       \/ \E u \in Users : DeleteKey(u) \/ DeleteUser(u)
       \/ RedisDown \/ RedisUp \/ UNCHANGED vars
<1>1. Moves => UNCHANGED <<apiCrashes, api, todo, pending>>
  <2>1. ASSUME NEW r \in Reqs, Handler(r) PROVE UNCHANGED <<apiCrashes, api, todo, pending>>
    BY <2>1 DEF Handler, Accept, Replay, Dispatch, DispatchFails, bound, proc
  <2>2. ASSUME NEW w \in Runners, RunStep(w)
        PROVE  UNCHANGED <<apiCrashes, api, todo, pending>>
    BY <2>2 DEF RunStep, Context, Start, FirstLog, StorePage, WorkFails, FinishScrape,
       FinishCrawl, Usage, Notify, Fail, FailUsage, FailNotify, Announce, bound, proc
  <2>3. ASSUME \/ \E t \in Threads, j \in Jobs, u \in Callers : SyncScrape(t, j, u)
               \/ WorkerStep \/ WorkerCrash
               \/ \E j \in Jobs : DeleteJob(j)
               \/ \E u \in Users : DeleteKey(u) \/ DeleteUser(u)
               \/ RedisDown \/ RedisUp \/ UNCHANGED vars
        PROVE  UNCHANGED <<apiCrashes, api, todo, pending>>
    BY <2>3 DEF SyncScrape, WorkerStep, TakeJob, TakeHook, Delivered, WorkerCrash,
       DeleteJob, DeleteKey, DeleteUser, RedisDown, RedisUp, vars, bound, proc
  <2> QED BY <2>1, <2>2, <2>3
<1>2. apiCrashes \in Nat
  BY DEF TypeOK, BoundOK
<1>3. ~ApiCrash
  BY <1>2 DEF ApiCrash
<1>4. Recovery \/ RecoveryFails => apiCrashes' = apiCrashes
  BY DEF Recovery, RecoveryFails, ApiStart, Requeue, Redispatch, RecoveryDone, bound
<1>5. Moves \/ Recovery \/ RecoveryFails
  BY <1>3 DEF Next
<1>6. apiCrashes = 0
  BY <1>1, <1>4, <1>5
<1>7. UpAtFirst /\ InOrder
  BY <1>6 DEF OnceInv
<1>8. Moves
  BY <1>5, <1>7 DEF Recovery, RecoveryFails, ApiStart, Requeue, Redispatch, RecoveryDone,
     UpAtFirst
<1>9. UpAtFirst'
  BY <1>1, <1>7, <1>8 DEF UpAtFirst
<1> QED BY <1>6, <1>7, <1>8, <1>9

\* OnceInv is inductive.
THEOREM OnceInductive == Spec => [](TypeOK /\ OnceInv)
<1>1. Init => OnceInv
  <2> SUFFICES ASSUME Init PROVE UpAtFirst /\ InOrder
    BY DEF OnceInv
  <2>1. \A j \in Jobs : Asking(j) = {} /\ Places(j) = {} /\ Running(j) = {}
    BY Constants DEF Init, Asking, Places, Running
  <2>2. ASSUME NEW j \in Jobs PROVE Orderly(j)
    BY <2>1 DEF Init, Orderly, Unborn, OneDispatch, OneRun, ForMaker, Story, Ended,
       Awaited, Lone
  <2> QED BY <2>2 DEF Init, UpAtFirst, InOrder, IdleIsFree
<1>2. TypeOK /\ OnceInv /\ [Next]_vars => OnceInv'
  <2> SUFFICES ASSUME TypeOK, OnceInv, [Next]_vars, apiCrashes' = 0
               PROVE  UpAtFirst' /\ InOrder'
    BY DEF OnceInv
  <2>1. InOrder /\ UpAtFirst'
    BY NoRestart
  <2>2. ASSUME NEW r \in Reqs, Handler(r) PROVE InOrder'
    BY <2>1, <2>2, HandlerOnce, DispatchOnce DEF Handler
  <2>3. ASSUME NEW w \in Runners, RunStep(w) PROVE InOrder'
    BY <2>1, <2>3, RunStepOnce
  <2>4. ASSUME \E t \in Threads, j \in Jobs, u \in Callers : SyncScrape(t, j, u)
        PROVE  InOrder'
    BY <2>1, <2>4, SyncOnce
  <2>5. ASSUME \/ WorkerStep \/ WorkerCrash
               \/ \E j \in Jobs : DeleteJob(j)
               \/ \E u \in Users : DeleteKey(u) \/ DeleteUser(u)
               \/ RedisDown \/ RedisUp \/ UNCHANGED vars
        PROVE  InOrder'
    BY <2>1, <2>5, WorkerOnce, DeleteOnce, RedisOnce
  <2> QED BY <2>1, <2>2, <2>3, <2>4, <2>5, NoRestart
<1> QED BY <1>1, <1>2, TypeInit, TypeStep, PTL DEF Spec

----------------------------------------------------------------------------
\* A set with one element at most.
LEMMA LoneCardinality ==
  ASSUME NEW S, Lone(S)
  PROVE  Cardinality(S) = IF S = {} THEN 0 ELSE 1
<1>1. CASE S = {}
  BY <1>1, FS_EmptySet
<1>2. CASE S # {}
  <2> PICK x \in S : S = {x}
    BY <1>2 DEF Lone
  <2> QED BY <1>2, FS_Singleton
<1> QED BY <1>1, <1>2

\* Holders counts handlers, places and runs, each at most one.
LEMMA HoldersCounted ==
  ASSUME TypeOK, OnceInv, apiCrashes = 0, replays = 0, NEW j \in Jobs
  PROVE  Holders(j) = (IF Asking(j) = {} THEN 0 ELSE 1) + (IF Places(j) = {} THEN 0 ELSE 1)
                        + (IF Running(j) = {} THEN 0 ELSE 1)
         /\ Orderly(j) /\ sent[j] \in {0, 1}
<1>1. Orderly(j) /\ pending = NoJob /\ sent[j] \in {0, 1}
  BY DEF OnceInv, UpAtFirst, InOrder, Orderly, OneDispatch
<1>2. Lone(Asking(j)) /\ Lone(Places(j)) /\ Lone(Running(j))
  BY <1>1 DEF Orderly, OneDispatch, OneRun, Lone
<1>3. Cardinality({pending} \cap {j}) = 0
  <2>1. {pending} \cap {j} = {}
    BY <1>1, Constants
  <2> QED BY <2>1, FS_EmptySet
<1>4. /\ Cardinality(Asking(j)) = IF Asking(j) = {} THEN 0 ELSE 1
      /\ Cardinality(Places(j)) = IF Places(j) = {} THEN 0 ELSE 1
      /\ Cardinality(Running(j)) = IF Running(j) = {} THEN 0 ELSE 1
  BY <1>2, LoneCardinality
<1>5. Holders(j) = Cardinality(Asking(j)) + Cardinality(Places(j)) + Cardinality(Running(j))
                     + Cardinality({pending} \cap {j})
  BY DEF Holders, Asking, Places
<1> QED BY <1>1, <1>3, <1>4, <1>5

\* Unless a request is repeated or the API process restarts, one handler, place
\* in the queue or run at most has a job in hand (job_queue.py:139-200).
THEOREM AlwaysRunOnce == Spec => []RunOnce
<1>1. TypeOK /\ OnceInv => RunOnce
  <2> SUFFICES ASSUME TypeOK, OnceInv, apiCrashes = 0, replays = 0, NEW j \in Jobs
               PROVE  Holders(j) <= 1
    BY DEF RunOnce
  <2> QED BY HoldersCounted DEF Orderly, OneDispatch, OneRun
<1> QED BY <1>1, OnceInductive, PTL

\* Undisturbed, a job that reads 'queued' is about to be run by someone, unless
\* its account's credential is broken.
THEOREM QueuedIsAlwaysHeld == Spec => []QueuedIsHeld
<1>1. TypeOK /\ OnceInv => QueuedIsHeld
  <2> SUFFICES ASSUME TypeOK, OnceInv, NEW j \in Jobs, Undisturbed,
                      status[j] = "queued", maker[j] \notin BadCreds
               PROVE  Holders(j) = 1
    BY DEF QueuedIsHeld
  <2> QED BY HoldersCounted DEF Undisturbed, Orderly, OneDispatch, OneRun, Awaited, Ended
<1> QED BY <1>1, OnceInductive, PTL

\* Undisturbed, a job whose run is over has announced its status, and that once.
THEOREM AlwaysToldOnce == Spec => []ToldOnce
<1>1. TypeOK /\ OnceInv => ToldOnce
  <2> SUFFICES ASSUME TypeOK, OnceInv, NEW j \in Jobs, Undisturbed, Intact(j),
                      status[j] \in Terminal, Running(j) = {}
               PROVE  told[j] = <<status[j]>>
    BY DEF ToldOnce
  <2>1. Orderly(j) /\ sent[j] \in {0, 1}
    BY HoldersCounted DEF Undisturbed
  <2>2. sent[j] = 1 /\ Places(j) = {}
    BY <2>1 DEF Orderly, Story, Terminal
  <2> QED BY <2>1, <2>2 DEF Undisturbed, Orderly, Ended
<1> QED BY <1>1, OnceInductive, PTL

\* The final status of a job that is dispatched once stays, whatever Redis, the
\* worker and the administrator do, until the row is deleted.
THEOREM FinalAlwaysStays == Spec => FinalStays
<1> DEFINE Stays == \A j \in Jobs :
              status[j] \in Terminal /\ sent[j] = 1 /\ apiCrashes = 0 /\ Intact(j)
                => status'[j] \in {status[j], "deleted"}
<1>1. TypeOK /\ OnceInv /\ [Next]_vars => [Stays]_vars
  <2> SUFFICES ASSUME TypeOK, OnceInv, [Next]_vars, NEW j \in Jobs,
                      status[j] \in Terminal, sent[j] = 1, apiCrashes = 0, Intact(j)
               PROVE  status'[j] \in {status[j], "deleted"}
    OBVIOUS
  <2>1. UpAtFirst /\ InOrder /\ status \in [Jobs -> Statuses]
    BY DEF OnceInv, TypeOK, DbOK
  <2>2. CASE UNCHANGED status
    BY <2>2
  <2>3. ASSUME NEW r \in Reqs, NEW k \in Jobs, NEW u \in Callers, Accept(r, k, u)
        PROVE  status'[j] = status[j]
    BY <2>1, <2>3 DEF Accept, Terminal
  <2>4. ASSUME NEW t \in Threads, NEW k \in Jobs, NEW u \in Callers, SyncScrape(t, k, u)
        PROVE  status'[j] = status[j]
    BY <2>1, <2>4 DEF SyncScrape, Terminal
  <2>5. ASSUME NEW k \in Jobs, DeleteJob(k) PROVE status'[j] \in {status[j], "deleted"}
    BY <2>1, <2>5 DEF DeleteJob
  <2>6. ASSUME NEW k \in Jobs, Requeue(k) PROVE FALSE
    BY <2>1, <2>6 DEF Requeue, UpAtFirst
  <2>7. ASSUME NEW w \in Runners,
               Start(w) \/ FinishScrape(w) \/ FinishCrawl(w) \/ Fail(w)
        PROVE  status'[j] = status[j]
    <3>1. /\ on[w] = j => w \in Running(j) /\ Orderly(j)
          /\ at[w] \in {"start", "work", "fail"}
      <4>1. at[w] \in {"start", "work", "fail"}
        BY <2>7 DEF Start, FinishScrape, FinishCrawl, Fail
      <4> QED BY <2>1, <4>1 DEF Running, InOrder
    <3>2. on[w] = j => Shown(j, at[w])
      BY <3>1, SoleRun
    <3>3. on[w] # j
      BY <3>1, <3>2 DEF Shown, Terminal
    <3> QED BY <2>1, <2>7, <3>3 DEF Start, FinishScrape, FinishCrawl, Fail, SetStatus
  <2>8. CASE \E w \in Runners : RunStep(w)
    BY <2>2, <2>7, <2>8 DEF RunStep, Context, FirstLog, StorePage, WorkFails, Usage, Notify,
       FailUsage, FailNotify, Announce, db
  <2>9. CASE \E r \in Reqs : Handler(r)
    BY <2>2, <2>3, <2>9 DEF Handler, Replay, Dispatch, DispatchFails, db
  <2>10. CASE \/ WorkerStep \/ Recovery \/ RecoveryFails \/ ApiCrash \/ WorkerCrash
              \/ RedisDown \/ RedisUp \/ UNCHANGED vars
    BY <2>2, <2>6, <2>10 DEF WorkerStep, TakeJob, TakeHook, Delivered, Recovery, ApiStart,
       Redispatch, RecoveryDone, RecoveryFails, ApiCrash, WorkerCrash, RedisDown, RedisUp,
       vars, db
  <2>11. CASE \E u \in Users : DeleteKey(u) \/ DeleteUser(u)
    BY <2>2, <2>11 DEF DeleteKey, DeleteUser
  <2> QED BY <2>4, <2>5, <2>8, <2>9, <2>10, <2>11 DEF Next
<1>2. (TypeOK /\ OnceInv) /\ [Next]_vars => [Stays]_vars
  BY <1>1
<1> QED BY <1>2, OnceInductive, PTL DEF Spec, FinalStays
=============================================================================
