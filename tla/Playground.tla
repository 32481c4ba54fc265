----------------------------- MODULE Playground -----------------------------
(***************************************************************************)
(* The playground of the web console (features/saas-playground.tsx): scrape,*)
(* map and crawl requests, the polling that waits for a crawl, the list of  *)
(* recent runs and the result that is on screen.                            *)
(*                                                                          *)
(* A handler of the page is a flow: a chain of requests, each sent with the *)
(* API key stored at that moment (apiFetch reads it at every call), each    *)
(* served and answered later.  "Run" is disabled while `loading`; opening a *)
(* recent run and the list's own button are not.                            *)
(***************************************************************************)
EXTENDS Naturals, FiniteSets

CONSTANTS
  Slots,      \* flows that may be under way together
  Keys,       \* API keys a visitor may save
  Valid,      \* those the server knows, each of an account of its own
  NoKey,
  MaxJobs,    \* bound: jobs the server makes
  MaxPolls    \* pollJob's maxMs / step

ASSUME PlaygroundAssumption ==
  /\ Valid \subseteq Keys /\ NoKey \notin Keys /\ IsFiniteSet(Slots)
  /\ MaxJobs \in Nat /\ MaxPolls \in Nat \ {0}

VARIABLES
  job,          \* server: the jobs, each with its account and its status
  key,          \* localStorage: the API key
  loading,      \* the page waits for a run, or for a run it opens
  jobsLoading,
  error,        \* the page shows an error
  result,       \* what is on screen: resultJson
  jobs,         \* the recent runs it lists
  flow,         \* the handlers under way
  overlapped,   \* history: a recent run was opened beside another of them
  stale         \* history: two list requests at once, or one that failed

server == <<job>>
page == <<loading, jobsLoading, error, result, jobs>>
vars == <<server, key, page, flow, overlapped, stale>>

NoJob == 0
JobIds == 1..MaxJobs
Final == {"completed", "failed"}
KeyInputs == Keys \cup {NoKey}      \* what "Save key" may store
Runs == {"scrape", "map", "crawl"}

\* A result: whether it answers what the visitor asked last, the job it is of,
\* and that job's status when it was read.
NoResult == [last |-> FALSE, job |-> NoJob, status |-> "none"]

Flow ==
  [ kind : Runs \cup {"idle", "open", "list"},
    step : {"post", "poll", "detail", "list"},
    cred : KeyInputs,
    stage : {"sent", "ok", "refused", "failed"},
    job : {NoJob} \cup JobIds,
    got : {"none", "queued"} \cup Final,     \* the status it was answered
    rows : SUBSET JobIds,                    \* the list it was answered
    polls : 0..(MaxPolls - 1),
    last : BOOLEAN,                          \* nothing was asked after it
    left : BOOLEAN ]                         \* its page was left

Idle == [kind |-> "idle", step |-> "list", cred |-> NoKey, stage |-> "sent",
         job |-> NoJob, got |-> "none", rows |-> {}, polls |-> 0,
         last |-> FALSE, left |-> FALSE]

TypeOK ==
  /\ \E n \in 0..MaxJobs :
       job \in [1..n -> [owner : Valid, status : {"queued"} \cup Final]]
  /\ key \in KeyInputs
  /\ loading \in BOOLEAN /\ jobsLoading \in BOOLEAN /\ error \in BOOLEAN
  /\ result \in [last : BOOLEAN, job : {NoJob} \cup JobIds,
                 status : {"none", "queued"} \cup Final]
  /\ jobs \subseteq DOMAIN job
  /\ flow \in [Slots -> Flow]
  /\ overlapped \in BOOLEAN /\ stale \in BOOLEAN

Owned(k) == {j \in DOMAIN job : job[j].owner = k}

-----------------------------------------------------------------------------
(* Flows. *)

Free(s) == flow[s].kind = "idle"
Here(s) == ~Free(s) /\ ~flow[s].left

\* The flows of this page that will set the result, those that may make a
\* job, those that will set the list.
Asking == {s \in Slots : Here(s) /\ flow[s].kind # "list"}
Posting == {s \in Slots : /\ flow[s].kind \in {"scrape", "crawl"}
                          /\ flow[s].step = "post" /\ flow[s].stage = "sent"}
Listing == {s \in Slots : Here(s) /\ flow[s].step = "list"}

\* The flow s sends its next request, with the key of this moment.
Sends(s, f, step) ==
  flow' = [flow EXCEPT ![s] = [f EXCEPT !.step = step, !.stage = "sent",
                                        !.cred = key]]

Ends(s) == flow' = [flow EXCEPT ![s] = Idle]

\* refreshJobs up to its await, as the next step of the flow f of the slot s.
Refreshes(s, f, k) ==
  /\ flow' = [flow EXCEPT ![s] = [f EXCEPT !.step = "list", !.stage = "sent",
                                           !.cred = k]]
  /\ jobsLoading' = TRUE
  /\ stale' = (Listing \ {s} # {})

\* A flow that was asked for outdates the others.
Asked(s, f) ==
  flow' = [t \in Slots |-> IF t = s THEN [f EXCEPT !.last = TRUE, !.cred = key]
                           ELSE [flow[t] EXCEPT !.last = FALSE]]

-----------------------------------------------------------------------------
Init ==
  /\ job = <<>>
  /\ key \in KeyInputs
  /\ loading = FALSE /\ error = FALSE
  /\ result = NoResult /\ jobs = {}
  /\ jobsLoading = (key # NoKey)
  /\ \E s \in Slots :
       flow = [t \in Slots |-> IF t = s /\ key # NoKey
                               THEN [Idle EXCEPT !.kind = "list", !.cred = key]
                               ELSE Idle]
  /\ overlapped = FALSE /\ stale = FALSE

\* run: runScrape, runMap, runCrawl up to their first await.
Run(s, kind) ==
  /\ ~loading /\ key # NoKey
  /\ Free(s)
  /\ kind = "map" \/ Cardinality(DOMAIN job) + Cardinality(Posting) < MaxJobs
  /\ Asked(s, [Idle EXCEPT !.kind = kind, !.step = "post"])
  /\ overlapped' = (overlapped /\ Asking # {})
  /\ loading' = TRUE /\ error' = FALSE /\ result' = NoResult
  /\ UNCHANGED <<server, key, jobsLoading, jobs, stale>>

\* A run that ends before it sends anything: no key, no URL (the result stays),
\* a schema or actions that do not parse (it was cleared before).
RunRefused ==
  /\ ~loading /\ ~error
  /\ error' = TRUE
  /\ result' \in {result} \cup (IF key # NoKey THEN {NoResult} ELSE {})
  /\ UNCHANGED <<server, key, loading, jobsLoading, jobs, flow, overlapped, stale>>

\* A card for each job of the list; nothing disables one.
RecentRuns == jobs

\* loadJob up to its await: the result of before stays on screen.
Open(s, j) ==
  /\ key # NoKey /\ Free(s)
  /\ Asked(s, [Idle EXCEPT !.kind = "open", !.step = "detail", !.job = j])
  /\ overlapped' = (Asking # {})
  /\ loading' = TRUE /\ error' = FALSE
  /\ result' = [result EXCEPT !.last = FALSE]
  /\ UNCHANGED <<server, key, jobsLoading, jobs, stale>>

\* The "Jobs" button, and saveKey.
RefreshJobs(s) ==
  /\ key # NoKey /\ Free(s)
  /\ Refreshes(s, [Idle EXCEPT !.kind = "list"], key)
  /\ UNCHANGED <<server, key, loading, error, result, jobs, overlapped>>

SaveKey(s, k) ==
  /\ k # key /\ Free(s)
  /\ key' = k
  /\ IF k = NoKey
       THEN /\ jobs' = {}
            /\ stale' = (Listing # {})
            /\ UNCHANGED <<flow, jobsLoading>>
       ELSE /\ Refreshes(s, [Idle EXCEPT !.kind = "list"], k)
            /\ UNCHANGED jobs
  /\ UNCHANGED <<server, loading, error, result, overlapped>>

\* The visitor opens another page and comes back: only a request that is still
\* to be served goes on.
Remount(s) ==
  /\ Free(s)
  /\ loading' = FALSE /\ error' = FALSE /\ result' = NoResult /\ jobs' = {}
  /\ jobsLoading' = (key # NoKey)
  /\ flow' = [t \in Slots |->
       IF t = s /\ key # NoKey THEN [Idle EXCEPT !.kind = "list", !.cred = key]
       ELSE IF flow[t].step = "post" /\ flow[t].stage = "sent"
         THEN [flow[t] EXCEPT !.left = TRUE, !.last = FALSE] ELSE Idle]
  /\ overlapped' = FALSE /\ stale' = FALSE
  /\ UNCHANGED <<server, key>>

-----------------------------------------------------------------------------
(* The server, its worker, and the network. *)

Finish(j) ==
  /\ job[j].status = "queued"
  /\ \E st \in Final : job' = [job EXCEPT ![j].status = st]
  /\ UNCHANGED <<key, page, flow, overlapped, stale>>

Sent(s, step) == ~Free(s) /\ flow[s].step = step /\ flow[s].stage = "sent"

Answer(s, f) ==
  flow' = [flow EXCEPT ![s] = IF flow[s].left THEN Idle ELSE f]

\* Only the list tells a 401 from another failure.
Refuse(s) ==
  Answer(s, [flow[s] EXCEPT !.stage = IF flow[s].step = "list" THEN "refused" ELSE "failed"])

\* A scrape is done when it is answered, a crawl is queued, a map makes no job.
ServePost(s) ==
  /\ Sent(s, "post")
  /\ LET f == flow[s]
         n == Cardinality(DOMAIN job) + 1
     IN  IF f.cred \notin Valid THEN Refuse(s) /\ UNCHANGED job
         ELSE IF f.kind = "map"
           THEN Answer(s, [f EXCEPT !.stage = "ok"]) /\ UNCHANGED job
         ELSE /\ Answer(s, [f EXCEPT !.stage = "ok", !.job = n])
              /\ job' = [j \in 1..n |->
                   IF j < n THEN job[j]
                   ELSE [owner |-> f.cred,
                         status |-> IF f.kind = "crawl" THEN "queued" ELSE "completed"]]
  /\ UNCHANGED <<key, page, overlapped, stale>>

\* GET /v1/jobs/{id} and GET /v1/crawl/{id}: 404 for a job of another account.
ServeRead(s) ==
  /\ Sent(s, "poll") \/ Sent(s, "detail")
  /\ LET f == flow[s] IN
     IF f.cred \in Valid /\ job[f.job].owner = f.cred
       THEN Answer(s, [f EXCEPT !.stage = "ok", !.got = job[f.job].status])
       ELSE Refuse(s)
  /\ UNCHANGED <<server, key, page, overlapped, stale>>

ServeList(s) ==
  /\ Sent(s, "list")
  /\ IF flow[s].cred \in Valid
       THEN Answer(s, [flow[s] EXCEPT !.stage = "ok", !.rows = Owned(flow[s].cred)])
       ELSE Refuse(s)
  /\ UNCHANGED <<server, key, page, overlapped, stale>>

\* A broken connection, a 429 of the rate limit, a 500: before or after the
\* server has handled the request.
Lose(s) ==
  /\ ~Free(s) /\ flow[s].stage # "failed"
  /\ Answer(s, [flow[s] EXCEPT !.stage = "failed"])
  /\ UNCHANGED <<server, key, page, overlapped, stale>>

-----------------------------------------------------------------------------
(* The page handles an answer. *)

Answered(s, step) == Here(s) /\ flow[s].step = step /\ flow[s].stage # "sent"

Shows(f) == result' = [last |-> f.last, job |-> f.job, status |-> f.got]

\* Mutant: no finally.
FailsMutantNoFinally(s) ==
  /\ error' = TRUE
  /\ Ends(s)
  /\ UNCHANGED <<loading, result, jobs, jobsLoading, stale>>

\* Mutant: no setError.
FailsMutantSilent(s) ==
  /\ loading' = FALSE
  /\ Ends(s)
  /\ UNCHANGED <<error, result, jobs, jobsLoading, stale>>

\* catch and finally.
Fails(s) ==
  /\ error' = TRUE /\ loading' = FALSE
  /\ Ends(s)
  /\ UNCHANGED <<result, jobs, jobsLoading, stale>>

\* "await refreshJobs()" at the end of a run: without a key it returns at once.
ThenList(s) ==
  IF key = NoKey
    THEN /\ jobs' = {} /\ loading' = FALSE
         /\ Ends(s)
         /\ stale' = (Listing # {})
         /\ UNCHANGED jobsLoading
    ELSE Refreshes(s, flow[s], key) /\ UNCHANGED <<jobs, loading>>

ReceivePost(s) ==
  /\ Answered(s, "post")
  /\ CASE flow[s].stage # "ok" -> Fails(s)
       [] flow[s].stage = "ok" /\ flow[s].kind = "crawl" ->
            Sends(s, flow[s], "poll") /\ UNCHANGED <<page, stale>>
       [] flow[s].stage = "ok" /\ flow[s].kind # "crawl" ->
            Shows(flow[s]) /\ ThenList(s) /\ UNCHANGED error
  /\ UNCHANGED <<server, key, overlapped>>

\* Of pollJob: what ends the wait, and the next question.
Finished(f) == f.got \in Final

OutOfTime(f) == f.polls + 1 = MaxPolls

\* Mutant: the clock of the wait starts again.
AgainMutantUncounted(s, f) == Sends(s, f, "poll")
Again(s, f) == Sends(s, [f EXCEPT !.polls = @ + 1], "poll")

\* pollJob: final, or out of time, or asked again after a while.
ReceivePoll(s) ==
  /\ Answered(s, "poll")
  /\ LET f == flow[s] IN
     CASE f.stage # "ok" -> Fails(s)
       [] f.stage = "ok" /\ Finished(f) ->
            Sends(s, [f EXCEPT !.polls = 0], "detail") /\ UNCHANGED <<page, stale>>
       [] f.stage = "ok" /\ ~Finished(f) ->
            IF OutOfTime(f) THEN Fails(s)
            ELSE Again(s, f) /\ UNCHANGED <<page, stale>>
  /\ UNCHANGED <<server, key, overlapped>>

ReceiveDetail(s) ==
  /\ Answered(s, "detail")
  /\ IF flow[s].stage # "ok" THEN Fails(s)
     ELSE /\ Shows(flow[s])
          /\ IF flow[s].kind = "crawl" THEN ThenList(s)
             ELSE /\ loading' = FALSE
                  /\ Ends(s)
                  /\ UNCHANGED <<jobs, jobsLoading, stale>>
          /\ UNCHANGED error
  /\ UNCHANGED <<server, key, overlapped>>

\* Mutant: a 401 leaves the list.
ListedMutantKept(f) == IF f.stage = "ok" THEN f.rows ELSE jobs
\* The list after an answer: only a 401 and a list change it.
Listed(f) ==
  IF f.stage = "ok" THEN f.rows ELSE IF f.stage = "refused" THEN {} ELSE jobs

\* The rest of refreshJobs, and of the run that awaits it.
ReceiveList(s) ==
  /\ Answered(s, "list")
  /\ jobs' = Listed(flow[s])
  /\ stale' = (stale \/ flow[s].stage = "failed")
  /\ jobsLoading' = FALSE
  /\ loading' = (loading /\ flow[s].kind = "list")
  /\ Ends(s)
  /\ UNCHANGED <<server, key, error, result, overlapped>>

-----------------------------------------------------------------------------
Serve(s) == ServePost(s) \/ ServeRead(s) \/ ServeList(s)
Receive(s) ==
  ReceivePost(s) \/ ReceivePoll(s) \/ ReceiveDetail(s) \/ ReceiveList(s)

Visit(s) ==
  \/ \E kind \in Runs : Run(s, kind)
  \/ \E j \in RecentRuns : Open(s, j)
  \/ RefreshJobs(s)
  \/ \E k \in KeyInputs : SaveKey(s, k)
  \/ Remount(s)

Next ==
  \/ RunRefused
  \/ \E j \in DOMAIN job : Finish(j)
  \/ \E s \in Slots : Visit(s) \/ Serve(s) \/ Lose(s) \/ Receive(s)

Spec == Init /\ [][Next]_vars

\* The server answers and the page goes on; nothing obliges a job to finish.
FairSpec == Spec /\ \A s \in Slots : WF_vars(Serve(s)) /\ WF_vars(Receive(s))

-----------------------------------------------------------------------------
(* Properties. *)

\* What waits has something to wait for: a spinner without a flow would disable
\* "Run" for good.
SpinnerIsAWait ==
  /\ loading => Asking # {}
  /\ jobsLoading => Listing # {}

\* When nothing is under way the page shows the answer to what was asked last,
\* or an error; opening a run during another voids this.
AnswerIsOfLast ==
  Asking = {} /\ ~overlapped /\ ~error => result = NoResult \/ result.last

\* The recent runs on screen are those of the key that is saved, and the one
\* just shown is among them: also after keys were changed during a run.
JobsOfKey ==
  Listing = {} /\ ~stale =>
    /\ jobs \subseteq Owned(key)
    /\ Asking = {} /\ result.job # NoJob /\ job[result.job].owner = key
         => result.job \in jobs

\* Every handler comes to an end although a crawl may never finish: the polling
\* gives up.
FlowEnds == \A s \in Slots : ~Free(s) ~> Free(s)
=============================================================================
