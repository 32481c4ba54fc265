-------------------------- MODULE Playground_proofs --------------------------
(***************************************************************************)
(* Playground for any number of handlers under way, any keys, any number of *)
(* jobs and any patience of the polling.                                    *)
(***************************************************************************)
EXTENDS Playground, FiniteSetTheorems, TLAPS

JobRec == [owner : Valid, status : {"queued"} \cup Final]

JobsTyped == \E n \in 0..MaxJobs : job \in [1..n -> JobRec]

ViewTyped ==
  /\ key \in KeyInputs
  /\ loading \in BOOLEAN /\ jobsLoading \in BOOLEAN /\ error \in BOOLEAN
  /\ result \in [last : BOOLEAN, job : {NoJob} \cup JobIds,
                 status : {"none", "queued"} \cup Final]
  /\ result.job \in {NoJob} \cup DOMAIN job
  /\ jobs \subseteq DOMAIN job
  /\ overlapped \in BOOLEAN /\ stale \in BOOLEAN

\* What a flow knows of the server was there; the jobs of a list belong to the
\* key it was asked with.
FlowOK(f) ==
  /\ f.rows \subseteq DOMAIN job /\ f.job \in {NoJob} \cup DOMAIN job
  /\ f.step = "post" => f.kind \in Runs
  /\ f.kind # "idle" /\ f.step \in {"poll", "detail"} => f.job # NoJob
  /\ f.kind # "idle" /\ f.step = "poll" => f.kind = "crawl"
  /\ f.kind # "idle" /\ f.step = "detail" => f.kind \in {"crawl", "open"}
  /\ f.kind = "crawl" /\ f.step = "post" /\ f.stage = "ok" => f.job # NoJob
  /\ f.step = "list" /\ f.stage = "ok" => f.rows \subseteq Owned(f.cred)
  /\ f.step = "list" /\ f.stage = "refused" => f.cred \notin Valid

FlowsFit == flow \in [Slots -> Flow] /\ \A s \in Slots : FlowOK(flow[s])

Posts(f) == f.kind \in {"scrape", "crawl"} /\ f.step = "post" /\ f.stage = "sent"
Budget == Cardinality(DOMAIN job) + Cardinality(Posting) <= MaxJobs

Asks(f) == f.kind \notin {"idle", "list"} /\ ~f.left
Lists(f) == f.kind # "idle" /\ ~f.left /\ f.step = "list"

\* SpinnerIsAWait, flow by flow.
Spins ==
  /\ loading => \E s \in Slots : Asks(flow[s])
  /\ jobsLoading => \E s \in Slots : Lists(flow[s])

Good == result = NoResult \/ result.last

\* Unless a run was opened during another, one flow at most will set the
\* result, the page waits for it, and it answers what was asked last.
LastAsked ==
  ~overlapped =>
    /\ \A s \in Slots : Asks(flow[s]) =>
         loading /\ flow[s].last /\ (flow[s].step = "list" => Good)
    /\ \A s, t \in Slots : Asks(flow[s]) /\ Asks(flow[t]) => s = t
    /\ (\A s \in Slots : ~Asks(flow[s])) /\ ~error => Good

\* The jobs the page has seen: those it shows, and those it opens.
Seen(j) == \/ j = result.job \/ j \in jobs
           \/ \E s \in Slots : Asks(flow[s]) /\ flow[s].kind = "open" /\ flow[s].job = j

\* One list request at a time, asked with the saved key; its answer, or the
\* list on screen when there is none, has every job of that key that was seen.
ListFits ==
  ~stale =>
    /\ \A s, t \in Slots : Lists(flow[s]) /\ Lists(flow[t]) => s = t
    /\ \A s \in Slots : Lists(flow[s]) =>
         /\ flow[s].cred = key
         /\ flow[s].stage = "ok" => \A j \in Owned(key) : Seen(j) => j \in flow[s].rows
    /\ (\A s \in Slots : ~Lists(flow[s])) =>
         /\ jobs \subseteq Owned(key)
         /\ \A j \in Owned(key) : Seen(j) => j \in jobs

Base == JobsTyped /\ ViewTyped /\ FlowsFit /\ Budget
IInv == Base /\ Spins /\ LastAsked /\ ListFits

-----------------------------------------------------------------------------
\* Jobs and flows.

\* The server's jobs are numbered from one.
LEMMA JobsAre ==
  ASSUME JobsTyped
  PROVE  \E n \in 0..MaxJobs :
           /\ job \in [1..n -> JobRec] /\ DOMAIN job = 1..n /\ n \in Nat
           /\ Cardinality(DOMAIN job) = n /\ 1..n \subseteq JobIds /\ NoJob \notin 1..n
<1>1. PICK n \in 0..MaxJobs : job \in [1..n -> JobRec]
  BY DEF JobsTyped
<1>2. n \in Nat /\ DOMAIN job = 1..n /\ MaxJobs \in Nat
  BY <1>1, PlaygroundAssumption
<1>3. Cardinality(1..n) = n
  BY <1>2, FS_Interval
<1>4. 1..n \subseteq JobIds /\ NoJob \notin 1..n
  BY <1>1, <1>2 DEF JobIds, NoJob
<1> QED BY <1>1, <1>2, <1>3, <1>4

\* A free slot is a flow that waits for nothing.
LEMMA IdleIsFlow ==
  /\ Idle \in Flow /\ Idle.kind = "idle" /\ Idle.step = "list" /\ Idle.cred = NoKey
  /\ Idle.stage = "sent" /\ Idle.job = NoJob /\ Idle.rows = {} /\ ~Idle.left
BY PlaygroundAssumption DEF Idle, Flow, KeyInputs

\* A free slot speaks of no job.
LEMMA IdleFits == FlowOK(Idle) /\ FlowOK(Idle)'
BY IdleIsFlow DEF FlowOK

\* No job was made with no key ...
LEMMA NothingOfNoKey ==
  ASSUME JobsTyped
  PROVE  Owned(NoKey) = {}
BY JobsAre, PlaygroundAssumption DEF Owned, JobRec

\* ... nor with a key the server does not know.
LEMMA NothingOfWrong ==
  ASSUME JobsTyped, NEW k, k \notin Valid
  PROVE  Owned(k) = {}
BY JobsAre DEF Owned, JobRec

\* Sets of slots can be counted ...
LEMMA PostingIsFinite ==
  ASSUME NEW S \in SUBSET Slots
  PROVE  IsFiniteSet(S) /\ Cardinality(S) \in Nat
BY PlaygroundAssumption, FS_Subset, FS_CardinalityType

\* ... and a subset counts no more.
LEMMA Fewer ==
  ASSUME NEW S \in SUBSET Slots, NEW T \in SUBSET S
  PROVE  Cardinality(T) <= Cardinality(S)
BY PostingIsFinite, FS_Subset

\* A flow with the fields of another is as fit.
Alike(f, g) ==
  /\ f.kind = g.kind /\ f.step = g.step /\ f.stage = g.stage /\ f.job = g.job
  /\ f.rows = g.rows /\ f.cred = g.cred

\* A flow that speaks of the same job fits the server as well.
LEMMA AlikeFits ==
  ASSUME NEW f, NEW g, Alike(f, g), FlowOK(f)
  PROVE  FlowOK(g)
BY DEF FlowOK, Alike

\* Jobs are added, none changes hands.
Grows ==
  /\ DOMAIN job \subseteq DOMAIN job'
  /\ \A j \in DOMAIN job : job'[j].owner = job[j].owner

\* A flow that fits the server's jobs fits them when they grow.
LEMMA FitsStill ==
  ASSUME Grows, NEW f, FlowOK(f)
  PROVE  FlowOK(f)'
<1>1. Owned(f.cred) \subseteq Owned(f.cred)'
  BY DEF Grows, Owned
<1> QED BY <1>1 DEF Grows, FlowOK

-----------------------------------------------------------------------------
\* A step that moves the flow s to g.

Moves(s, g) == flow' = [flow EXCEPT ![s] = g]

\* Moving one flow changes no other.
LEMMA Moved ==
  ASSUME FlowsFit, NEW s \in Slots, NEW g \in Flow, Moves(s, g)
  PROVE  /\ flow' \in [Slots -> Flow] /\ flow'[s] = g
         /\ \A t \in Slots : t # s => flow'[t] = flow[t]
BY DEF FlowsFit, Moves

\* What holds of the jobs and the flows survives a flow that moves.
LEMMA BaseMoves ==
  ASSUME Base, NEW s \in Slots, NEW g \in Flow, Moves(s, g), job' = job, FlowOK(g),
         Posts(g) => Posts(flow[s])
  PROVE  JobsTyped' /\ FlowsFit' /\ Budget'
<1>1. /\ flow' \in [Slots -> Flow] /\ flow'[s] = g
      /\ \A t \in Slots : t # s => flow'[t] = flow[t]
  BY Moved DEF Base
<1>2. JobsTyped'
  BY DEF Base, JobsTyped
<1>3. FlowsFit'
  <2> SUFFICES ASSUME NEW t \in Slots PROVE FlowOK(flow[t])'
    BY <1>1 DEF FlowsFit
  <2>1. PICK f \in Flow : f = flow'[t]
    BY <1>1
  <2>2. FlowOK(f)
    BY <1>1, <2>1 DEF Base, FlowsFit
  <2>3. FlowOK(f)'
    BY <2>2, FitsStill DEF Grows
  <2> QED BY <2>1, <2>3
<1>4. Budget'
  <2>1. Posting' \subseteq Posting /\ Posting \subseteq Slots
    BY <1>1 DEF Posting, Posts
  <2>2. PICK S \in SUBSET Slots : S = Posting
    BY <2>1
  <2>3. PICK T \in SUBSET S : T = Posting'
    BY <2>1, <2>2
  <2>4. Cardinality(T) <= Cardinality(S)
    BY Fewer
  <2>5. Cardinality(T) \in Nat /\ Cardinality(S) \in Nat
    BY PostingIsFinite
  <2>6. Cardinality(DOMAIN job) \in Nat /\ MaxJobs \in Nat
    BY JobsAre, PlaygroundAssumption DEF Base
  <2>7. Cardinality(DOMAIN job) + Cardinality(S) <= MaxJobs
    BY <2>2 DEF Base, Budget
  <2>8. Cardinality(DOMAIN job) + Cardinality(T) <= MaxJobs
    BY <2>4, <2>5, <2>6, <2>7
  <2> QED BY <2>3, <2>8 DEF Budget
<1> QED BY <1>2, <1>3, <1>4

\* A spinner that is set, or kept, has a flow to wait for.
LEMMA SpinMoves ==
  ASSUME Base, Spins, NEW s \in Slots, NEW g \in Flow, Moves(s, g),
         loading' => Asks(g) \/ (loading /\ ~Asks(flow[s])),
         jobsLoading' => Lists(g) \/ (jobsLoading /\ ~Lists(flow[s]))
  PROVE  Spins'
<1>1. flow'[s] = g /\ \A t \in Slots : t # s => flow'[t] = flow[t]
  BY Moved DEF Base
<1>2. loading' => \E t \in Slots : Asks(flow'[t])
  BY <1>1 DEF Spins
<1>3. jobsLoading' => \E t \in Slots : Lists(flow'[t])
  BY <1>1 DEF Spins
<1> QED BY <1>2, <1>3 DEF Spins, Asks, Lists

\* LastAsked: the flow goes on, ends, or is none that asks.
LEMMA AskGoesOn ==
  ASSUME Base, LastAsked, NEW s \in Slots, NEW g \in Flow, Moves(s, g),
         Asks(flow[s]), Asks(g), g.last = flow[s].last,
         UNCHANGED <<loading, error, overlapped>>,
         result' = result \/ result'.last = flow[s].last,
         g.step = "list" /\ result' = result => flow[s].step = "list"
  PROVE  LastAsked'
<1>1. flow'[s] = g /\ \A t \in Slots : t # s => flow'[t] = flow[t]
  BY Moved DEF Base
<1> SUFFICES ASSUME ~overlapped PROVE LastAsked'
  BY DEF LastAsked
<1>2. loading /\ flow[s].last /\ (flow[s].step = "list" => Good)
  BY DEF LastAsked
<1>3. \A t \in Slots : Asks(flow'[t]) => t = s
  BY <1>1 DEF LastAsked
<1>4. g.step = "list" => Good'
  BY <1>2 DEF Good
<1> QED BY <1>1, <1>2, <1>3, <1>4 DEF LastAsked, Asks

\* A handler that ends shows what was asked last, or overlapped another.
LEMMA AskEnds ==
  ASSUME Base, LastAsked, NEW s \in Slots, NEW g \in Flow, Moves(s, g),
         Asks(flow[s]), ~Asks(g), overlapped' = overlapped,
         \/ error'
         \/ result'.last = flow[s].last
         \/ flow[s].step = "list" /\ result' = result
  PROVE  LastAsked'
<1>1. flow'[s] = g /\ \A t \in Slots : t # s => flow'[t] = flow[t]
  BY Moved DEF Base
<1> SUFFICES ASSUME ~overlapped PROVE LastAsked'
  BY DEF LastAsked
<1>2. flow[s].last /\ (flow[s].step = "list" => Good)
  BY DEF LastAsked
<1>3. \A t \in Slots : ~Asks(flow'[t])
  BY <1>1 DEF LastAsked
<1>4. error' \/ Good'
  BY <1>2 DEF Good
<1> QED BY <1>3, <1>4 DEF LastAsked, Asks

\* A flow that asked nothing shows nothing.
LEMMA AskNot ==
  ASSUME Base, LastAsked, NEW s \in Slots, NEW g \in Flow, Moves(s, g),
         ~Asks(flow[s]), ~Asks(g), UNCHANGED <<loading, error, result, overlapped>>
  PROVE  LastAsked'
<1>1. flow'[s] = g /\ \A t \in Slots : t # s => flow'[t] = flow[t]
  BY Moved DEF Base
<1>2. \A t \in Slots : Asks(flow'[t]) => t # s /\ flow'[t] = flow[t] /\ Asks(flow[t])
  BY <1>1
<1>3. (\A t \in Slots : ~Asks(flow'[t])) => \A t \in Slots : ~Asks(flow[t])
  BY <1>1
<1>4. Good' = Good
  BY DEF Good
<1> QED BY <1>2, <1>3, <1>4 DEF LastAsked, Asks

\* ListFits: the list request goes on or there is none, starts, or is dropped
\* because no key is saved.
LEMMA ListGoesOn ==
  ASSUME Base, ListFits, NEW s \in Slots, NEW g \in Flow, Moves(s, g),
         Grows, UNCHANGED <<key, jobs, stale>>,
         \A j \in DOMAIN job' : Seen(j)' => j \in DOMAIN job /\ Seen(j),
         Lists(g) <=> Lists(flow[s]),
         Lists(g) => g.cred = flow[s].cred,
         Lists(g) /\ g.stage = "ok" =>
           \/ flow[s].stage = "ok" /\ g.rows = flow[s].rows
           \/ g.rows = Owned(g.cred)
  PROVE  ListFits'
<1>1. flow'[s] = g /\ \A t \in Slots : t # s => flow'[t] = flow[t]
  BY Moved DEF Base
<1> SUFFICES ASSUME ~stale PROVE ListFits'
  BY DEF ListFits
<1>2. \A t \in Slots : Lists(flow'[t]) <=> Lists(flow[t])
  BY <1>1
<1>3. PICK own : own = Owned(key)
  OBVIOUS
<1>4. PICK new : new = Owned(key)'
  OBVIOUS
<1>8. own \subseteq new /\ \A j \in new : Seen(j)' => j \in own /\ Seen(j)
  BY <1>3, <1>4 DEF Owned, Grows
<1>5. ASSUME NEW t \in Slots, Lists(flow'[t])
      PROVE  /\ flow'[t].cred = key
             /\ flow'[t].stage = "ok" => \A j \in new : Seen(j)' => j \in flow'[t].rows
  <2>1. /\ flow[t].cred = key
        /\ flow[t].stage = "ok" => \A j \in own : Seen(j) => j \in flow[t].rows
    BY <1>2, <1>3, <1>5 DEF ListFits
  <2>2. CASE t # s
    BY <1>1, <1>8, <2>1, <2>2
  <2>3. CASE t = s
    <3>1. g.cred = key
      BY <1>1, <1>5, <2>1, <2>3
    <3>2. ASSUME g.stage = "ok" PROVE \A j \in new : Seen(j)' => j \in g.rows
      BY <1>1, <1>3, <1>8, <1>5, <2>1, <2>3, <3>1, <3>2
    <3> QED BY <1>1, <2>3, <3>1, <3>2
  <2> QED BY <2>2, <2>3
<1>6. \A t, u \in Slots : Lists(flow'[t]) /\ Lists(flow'[u]) => t = u
  BY <1>2 DEF ListFits
<1>7. ASSUME \A t \in Slots : ~Lists(flow'[t])
      PROVE  jobs \subseteq new /\ \A j \in new : Seen(j)' => j \in jobs
  BY <1>2, <1>3, <1>8, <1>7 DEF ListFits
<1> QED BY <1>4, <1>5, <1>6, <1>7 DEF ListFits, Lists

\* A list that is asked for is asked for with the saved key.
LEMMA ListStarts ==
  ASSUME Base, NEW s \in Slots, NEW g \in Flow, Moves(s, g),
         Lists(g), g.stage = "sent", g.cred = key',
         stale' = (Listing \ {s} # {})
  PROVE  ListFits'
<1>1. flow'[s] = g /\ \A t \in Slots : t # s => flow'[t] = flow[t]
  BY Moved DEF Base
<1> SUFFICES ASSUME ~stale' PROVE ListFits'
  BY DEF ListFits
<1>2. \A t \in Slots : Lists(flow'[t]) => t = s
  BY <1>1 DEF Listing, Lists, Here, Free
<1> QED BY <1>1, <1>2 DEF ListFits, Lists

\* With no key saved no runs are listed.
LEMMA ListDropped ==
  ASSUME Base, JobsTyped', key' = NoKey, jobs' = {}, stale' = (Listing # {}),
         \A t \in Slots : Lists(flow'[t]) => Lists(flow[t])
  PROVE  ListFits'
<1> SUFFICES ASSUME ~stale' PROVE ListFits'
  BY DEF ListFits
<1>1. \A t \in Slots : ~Lists(flow'[t])
  BY DEF Listing, Lists, Here, Free
<1>2. Owned(key)' = {}
  <2>1. \A j \in DOMAIN job' : job'[j].owner # NoKey
    BY PlaygroundAssumption DEF JobsTyped, JobRec
  <2> QED BY <2>1 DEF Owned
<1> QED BY <1>1, <1>2 DEF ListFits, Lists

-----------------------------------------------------------------------------
\* The server.

\* The flow s was served: it is g, or nothing when its page was left.
Served(s, g) == Moves(s, IF flow[s].left THEN Idle ELSE g)

\* An answer that makes no job.
LEMMA ServedStep ==
  ASSUME IInv, NEW s \in Slots, NEW g \in Flow, Served(s, g), FlowOK(g),
         ~Free(s), g.kind = flow[s].kind, g.step = flow[s].step, g.cred = flow[s].cred,
         g.job = flow[s].job, g.left = flow[s].left, g.last = flow[s].last,
         g.stage # "sent",
         g.step = "list" /\ g.stage = "ok" =>
           \/ flow[s].stage = "ok" /\ g.rows = flow[s].rows
           \/ g.rows = Owned(g.cred),
         UNCHANGED <<job, key, page, overlapped, stale>>
  PROVE  IInv'
<1>1. /\ UNCHANGED <<job, key, loading, jobsLoading, error, result, jobs,
                     overlapped, stale>>
      /\ Base /\ Spins /\ LastAsked /\ ListFits
  BY DEF page, IInv
<1>2. PICK h \in Flow : h = IF flow[s].left THEN Idle ELSE g
  BY IdleIsFlow
<1>3. /\ Moves(s, h) /\ FlowOK(h)
      /\ h.left = FALSE \/ h.left = g.left
      /\ Asks(h) <=> Asks(flow[s])
      /\ Lists(h) <=> Lists(flow[s])
      /\ Posts(h) => Posts(flow[s])
      /\ ~flow[s].left => h = g
      /\ Asks(h) \/ Lists(h) => ~flow[s].left
  BY <1>2, IdleFits, IdleIsFlow DEF Served, Asks, Lists, Posts, Free
<1>4. flow'[s] = h /\ \A t \in Slots : t # s => flow'[t] = flow[t]
  BY <1>1, <1>3, Moved DEF Base
<1>5. JobsTyped' /\ FlowsFit' /\ Budget'
  BY <1>1, <1>3, BaseMoves
<1>6. ViewTyped'
  BY <1>1 DEF Base, ViewTyped
<1>7. Spins'
  BY <1>1, <1>3, SpinMoves DEF Spins
<1>8. LastAsked'
  <2>1. CASE Asks(flow[s])
    BY <1>1, <1>3, <2>1, AskGoesOn
  <2>2. CASE ~Asks(flow[s])
    BY <1>1, <1>3, <2>2, AskNot
  <2> QED BY <2>1, <2>2
<1>9. ListFits'
  <2>1. \A j \in DOMAIN job' : Seen(j)' => j \in DOMAIN job /\ Seen(j)
    BY <1>1, <1>3, <1>4 DEF Seen, Asks
  <2>2. Grows
    BY <1>1 DEF Grows
  <2> QED BY <1>1, <1>3, <2>1, <2>2, ListGoesOn DEF Lists
<1> QED BY <1>5, <1>6, <1>7, <1>8, <1>9 DEF IInv, Base

\* An answer changes the stage of a flow and nothing else.
LEMMA StageIsFlow ==
  ASSUME NEW f \in Flow, NEW st \in {"sent", "ok", "refused", "failed"}
  PROVE  \E g \in Flow :
           /\ g = [f EXCEPT !.stage = st]
           /\ g.kind = f.kind /\ g.step = f.step /\ g.cred = f.cred /\ g.job = f.job
           /\ g.rows = f.rows /\ g.left = f.left /\ g.last = f.last /\ g.stage = st
<1> DEFINE g == [f EXCEPT !.stage = st]
<1>1. /\ g \in Flow /\ g.kind = f.kind /\ g.step = f.step /\ g.cred = f.cred
      /\ g.job = f.job /\ g.rows = f.rows /\ g.left = f.left /\ g.last = f.last
      /\ g.stage = st
  BY DEF Flow
<1> HIDE DEF g
<1> QED BY <1>1 DEF g

\* What every slot holds.
LEMMA FlowIs ==
  ASSUME Base, NEW s \in Slots
  PROVE  flow[s] \in Flow /\ FlowOK(flow[s])
BY DEF Base, FlowsFit

\* The server refuses a request.
LEMMA RefuseStep ==
  ASSUME IInv, NEW s \in Slots, ~Free(s), Refuse(s),
         flow[s].step = "list" => flow[s].cred \notin Valid,
         UNCHANGED <<job, key, page, overlapped, stale>>
  PROVE  IInv'
<1>1. PICK f \in Flow : f = flow[s] /\ FlowOK(f)
  BY FlowIs DEF IInv
<1>2. PICK st \in {"sent", "ok", "refused", "failed"} :
        /\ st = IF f.step = "list" THEN "refused" ELSE "failed"
        /\ st \notin {"sent", "ok"}
  OBVIOUS
<1>3. PICK g \in Flow :
        /\ g = [f EXCEPT !.stage = st]
        /\ g.kind = f.kind /\ g.step = f.step /\ g.cred = f.cred /\ g.job = f.job
        /\ g.rows = f.rows /\ g.left = f.left /\ g.last = f.last /\ g.stage = st
  BY StageIsFlow
<1>4. Served(s, g)
  BY <1>1, <1>2, <1>3 DEF Refuse, Answer, Served, Moves
<1>5. FlowOK(g)
  BY <1>1, <1>2, <1>3 DEF FlowOK
<1> QED BY <1>1, <1>2, <1>3, <1>4, <1>5, ServedStep

\* A request or its answer is lost.
LEMMA LoseStep ==
  ASSUME IInv, NEW s \in Slots, Lose(s)
  PROVE  IInv'
<1>1. PICK f \in Flow : f = flow[s] /\ FlowOK(f)
  BY FlowIs DEF IInv
<1>3. PICK g \in Flow :
        /\ g = [f EXCEPT !.stage = "failed"]
        /\ g.kind = f.kind /\ g.step = f.step /\ g.cred = f.cred /\ g.job = f.job
        /\ g.rows = f.rows /\ g.left = f.left /\ g.last = f.last /\ g.stage = "failed"
  BY StageIsFlow
<1>4. /\ Served(s, g) /\ ~Free(s)
      /\ UNCHANGED <<job, key, page, overlapped, stale>>
  BY <1>1, <1>3 DEF Lose, Answer, Served, Moves, server
<1>5. FlowOK(g)
  BY <1>1, <1>3 DEF FlowOK
<1> QED BY <1>1, <1>3, <1>4, <1>5, ServedStep

\* The server reads the runs of a key.
LEMMA ServeListStep ==
  ASSUME IInv, NEW s \in Slots, ServeList(s)
  PROVE  IInv'
<1>1. PICK f \in Flow : f = flow[s] /\ FlowOK(f)
  BY FlowIs DEF IInv
<1>2. /\ ~Free(s) /\ f.step = "list" /\ f.kind # "idle"
      /\ UNCHANGED <<job, key, page, overlapped, stale>>
  BY <1>1 DEF ServeList, Sent, server, Free
<1>3. CASE f.cred \notin Valid
  <2>1. Refuse(s)
    BY <1>1, <1>3 DEF ServeList
  <2> QED BY <1>1, <1>2, <1>3, <2>1, RefuseStep
<1>4. CASE f.cred \in Valid
  <2>1. PICK own \in SUBSET JobIds : own = Owned(f.cred) /\ own \subseteq DOMAIN job
    BY JobsAre DEF IInv, Base, Owned
  <2> DEFINE g == [f EXCEPT !.stage = "ok", !.rows = own]
  <2>2. /\ g \in Flow /\ g.kind = f.kind /\ g.step = f.step /\ g.cred = f.cred
        /\ g.job = f.job /\ g.rows = own /\ g.left = f.left /\ g.last = f.last
        /\ g.stage = "ok"
    BY DEF Flow
  <2>3. Served(s, g)
    BY <1>1, <1>4, <2>1 DEF ServeList, Answer, Served, Moves
  <2> HIDE DEF g
  <2>4. FlowOK(g)
    BY <1>1, <1>2, <2>1, <2>2 DEF FlowOK
  <2> QED BY <1>1, <1>2, <2>1, <2>2, <2>3, <2>4, ServedStep
<1> QED BY <1>3, <1>4

\* The server reads a job.
LEMMA ServeReadStep ==
  ASSUME IInv, NEW s \in Slots, ServeRead(s)
  PROVE  IInv'
<1>1. PICK f \in Flow : f = flow[s] /\ FlowOK(f)
  BY FlowIs DEF IInv
<1>2. /\ ~Free(s) /\ f.step \in {"poll", "detail"} /\ f.kind # "idle"
      /\ UNCHANGED <<job, key, page, overlapped, stale>>
  BY <1>1 DEF ServeRead, Sent, server, Free
<1>3. CASE Refuse(s)
  BY <1>1, <1>2, <1>3, RefuseStep
<1>4. CASE ~Refuse(s)
  <2>1. f.job \in DOMAIN job
    BY <1>1, <1>2 DEF FlowOK
  <2>2. PICK st \in {"none", "queued"} \cup Final : st = job[f.job].status
    BY <2>1, JobsAre DEF IInv, Base, JobRec
  <2> DEFINE g == [f EXCEPT !.stage = "ok", !.got = st]
  <2>3. /\ g \in Flow /\ g.kind = f.kind /\ g.step = f.step /\ g.cred = f.cred
        /\ g.job = f.job /\ g.rows = f.rows /\ g.left = f.left /\ g.last = f.last
        /\ g.stage = "ok"
    BY <2>2 DEF Flow
  <2>4. Served(s, g)
    BY <1>1, <1>4, <2>2 DEF ServeRead, Answer, Served, Moves
  <2> HIDE DEF g
  <2>5. FlowOK(g)
    BY <1>1, <1>2, <2>3 DEF FlowOK
  <2> QED BY <1>1, <1>2, <2>3, <2>4, <2>5, ServedStep
<1> QED BY <1>3, <1>4

\* What was seen is a job of the server.
LEMMA SeenIsJob ==
  ASSUME Base, NEW j, j # NoJob, Seen(j)
  PROVE  j \in DOMAIN job
<1>1. CASE j = result.job \/ j \in jobs
  BY <1>1 DEF Base, ViewTyped
<1>2. ASSUME NEW s \in Slots, flow[s].job = j PROVE j \in DOMAIN job
  BY <1>2, FlowIs DEF FlowOK
<1> QED BY <1>1, <1>2 DEF Seen

\* The server makes a job.
LEMMA ServePostStep ==
  ASSUME IInv, NEW s \in Slots, ServePost(s)
  PROVE  IInv'
<1>1. PICK f \in Flow : f = flow[s] /\ FlowOK(f)
  BY FlowIs DEF IInv
<1>2. /\ ~Free(s) /\ f.step = "post" /\ f.stage = "sent" /\ f.kind # "idle"
      /\ f.kind \in Runs
      /\ UNCHANGED <<key, page, overlapped, stale>>
  BY <1>1 DEF ServePost, Sent, Free, FlowOK
<1>3. CASE f.cred \notin Valid
  <2>1. Refuse(s) /\ job' = job
    BY <1>1, <1>3 DEF ServePost
  <2> QED BY <1>1, <1>2, <2>1, RefuseStep
<1>4. CASE f.cred \in Valid /\ f.kind = "map"
  <2>1. PICK g \in Flow :
        /\ g = [f EXCEPT !.stage = "ok"]
        /\ g.kind = f.kind /\ g.step = f.step /\ g.cred = f.cred /\ g.job = f.job
        /\ g.rows = f.rows /\ g.left = f.left /\ g.last = f.last /\ g.stage = "ok"
    BY StageIsFlow
  <2>2. Served(s, g) /\ job' = job
    BY <1>1, <1>4, <2>1 DEF ServePost, Answer, Served, Moves
  <2>3. FlowOK(g)
    BY <1>1, <1>2, <1>4, <2>1 DEF FlowOK
  <2> QED BY <1>1, <1>2, <2>1, <2>2, <2>3, ServedStep
<1>5. CASE f.cred \in Valid /\ f.kind # "map"
  <2>b. Base /\ Spins /\ LastAsked /\ ListFits
    BY DEF IInv
  <2>1. PICK m \in 0..MaxJobs :
          /\ job \in [1..m -> JobRec] /\ DOMAIN job = 1..m /\ m \in Nat
          /\ Cardinality(DOMAIN job) = m /\ 1..m \subseteq JobIds /\ NoJob \notin 1..m
    BY <2>b, JobsAre DEF Base
  <2>2. Posts(f)
    BY <1>2, <1>5 DEF Posts, Runs
  <2>3. PICK S \in SUBSET Slots : S = Posting
    BY DEF Posting
  <2>4. /\ s \in S /\ Cardinality(S) \in Nat /\ Cardinality(S \ {s}) \in Nat
        /\ Cardinality(S \ {s}) = Cardinality(S) - 1 /\ IsFiniteSet(S)
    <3>1. s \in S
      BY <1>1, <2>2, <2>3 DEF Posting, Posts
    <3>2. IsFiniteSet(S) /\ Cardinality(S) \in Nat
      BY PostingIsFinite
    <3>3. IsFiniteSet(S \ {s}) /\ Cardinality(S \ {s}) = Cardinality(S) - 1
      BY <3>1, <3>2, FS_RemoveElement
    <3>4. Cardinality(S \ {s}) \in Nat
      BY <3>3, FS_CardinalityType
    <3> QED BY <3>1, <3>2, <3>3, <3>4
  <2>5. m + Cardinality(S) <= MaxJobs /\ MaxJobs \in Nat
    BY <2>b, <2>1, <2>3, PlaygroundAssumption DEF Base, Budget
  <2>6. PICK n \in Nat : n = m + 1 /\ n \in 1..MaxJobs /\ n = Cardinality(DOMAIN job) + 1
    <3>1. Cardinality(S) # 0
      BY <2>4
    <3>2. m + 1 \in 1..MaxJobs
      BY <2>1, <2>4, <2>5, <3>1
    <3> QED BY <2>1, <3>2
  <2> DEFINE g == [f EXCEPT !.stage = "ok", !.job = n]
  <2>7. /\ g \in Flow /\ g.kind = f.kind /\ g.step = f.step /\ g.cred = f.cred
        /\ g.job = n /\ g.rows = f.rows /\ g.left = f.left /\ g.last = f.last
        /\ g.stage = "ok"
    BY <2>6 DEF Flow, JobIds
  <2>8. Served(s, g)
    BY <1>1, <1>5, <2>6 DEF ServePost, Answer, Served, Moves
  <2> HIDE DEF g
  <2>9. PICK st \in {"queued"} \cup Final :
          st = IF f.kind = "crawl" THEN "queued" ELSE "completed"
    BY DEF Final
  <2>10. job' = [j \in 1..n |-> IF j < n THEN job[j] ELSE [owner |-> f.cred, status |-> st]]
    BY <1>1, <1>5, <2>6, <2>9 DEF ServePost
  <2>11. /\ job' \in [1..n -> JobRec] /\ DOMAIN job' = 1..n
         /\ \A j \in 1..m : job'[j] = job[j]
    <3>1. \A j \in 1..n : j < n => j \in 1..m
      BY <2>1, <2>6
    <3>2. [owner |-> f.cred, status |-> st] \in JobRec
      BY <1>5, <2>9 DEF JobRec
    <3>3. \A j \in 1..m : j \in 1..n /\ j < n
      BY <2>1, <2>6
    <3> QED BY <2>1, <2>10, <3>1, <3>2, <3>3
  <2>12. Grows /\ JobsTyped' /\ Cardinality(DOMAIN job') = n
    <3>1. Cardinality(1..n) = n
      BY <2>6, FS_Interval
    <3>2. 1..m \subseteq 1..n /\ n \in 0..MaxJobs
      BY <2>1, <2>6
    <3> QED BY <2>1, <2>11, <3>1, <3>2 DEF Grows, JobsTyped, JobRec
  <2>13. /\ UNCHANGED <<key, loading, jobsLoading, error, result, jobs,
                        overlapped, stale>>
    BY <1>2 DEF page
  <2>14. PICK h \in Flow : h = IF flow[s].left THEN Idle ELSE g
    BY <2>7, IdleIsFlow
  <2>15. /\ Moves(s, h)
         /\ Asks(h) <=> Asks(flow[s])
         /\ ~Lists(h) /\ ~Lists(flow[s]) /\ ~Posts(h)
         /\ Asks(h) => h.last = flow[s].last /\ h.step # "list"
         /\ Asks(h) /\ h.kind = "open" => FALSE
    BY <1>1, <1>2, <2>7, <2>8, <2>14, IdleIsFlow
       DEF Served, Asks, Lists, Posts, Free, Runs
  <2>16. /\ flow' \in [Slots -> Flow] /\ flow'[s] = h
         /\ \A t \in Slots : t # s => flow'[t] = flow[t]
    BY <2>b, <2>15, Moved DEF Base
  <2>17. FlowsFit'
    <3>1. FlowOK(g)'
      <4>1. FlowOK(f)'
        BY <1>1, <2>12, FitsStill
      <4>2. n \in DOMAIN job' /\ n # NoJob
        BY <2>6, <2>11 DEF NoJob
      <4> QED BY <1>2, <2>7, <4>1, <4>2 DEF FlowOK
    <3>2. FlowOK(h)'
      BY <2>14, <3>1, IdleFits
    <3> SUFFICES ASSUME NEW t \in Slots PROVE FlowOK(flow[t])'
      BY <2>16 DEF FlowsFit
    <3>3. PICK e \in Flow : e = flow'[t]
      BY <2>16
    <3>4. t # s => e = flow[t] /\ FlowOK(e)
      BY <2>16, <3>3, <2>b, FlowIs
    <3>5. FlowOK(e)'
      <4>1. CASE t = s
        BY <2>16, <3>2, <3>3, <4>1
      <4>2. CASE t # s
        BY <2>12, <3>4, <4>2, FitsStill
      <4> QED BY <4>1, <4>2
    <3> QED BY <3>3, <3>5
  <2>18. Budget'
    <3>1. Posting' \subseteq S \ {s}
      BY <2>3, <2>15, <2>16 DEF Posting, Posts
    <3>2. PICK T \in SUBSET (S \ {s}) : T = Posting'
      BY <3>1
    <3>3. Cardinality(T) <= Cardinality(S \ {s}) /\ Cardinality(T) \in Nat
      <4>1. T \in SUBSET Slots /\ S \ {s} \in SUBSET Slots
        BY <3>2
      <4> QED BY <4>1, Fewer, PostingIsFinite
    <3>4. n + Cardinality(T) <= MaxJobs
      BY <2>1, <2>4, <2>5, <2>6, <3>3
    <3> QED BY <2>12, <3>2, <3>4 DEF Budget
  <2>19. ViewTyped'
    BY <2>b, <2>12, <2>13 DEF Base, ViewTyped, Grows
  <2>20. Spins'
    BY <2>b, <2>13, <2>15, SpinMoves
  <2>21. LastAsked'
    <3>1. CASE Asks(flow[s])
      BY <2>b, <2>13, <2>15, <3>1, AskGoesOn
    <3>2. CASE ~Asks(flow[s])
      BY <2>b, <2>13, <2>15, <3>2, AskNot
    <3> QED BY <3>1, <3>2
  <2>22. ListFits'
    <3>1. ASSUME NEW j \in DOMAIN job', Seen(j)' PROVE j \in DOMAIN job /\ Seen(j)
      <4>1. Seen(j)
        BY <2>13, <2>15, <2>16, <3>1 DEF Seen
      <4>2. j # NoJob
        BY <2>6, <2>11 DEF NoJob
      <4> QED BY <2>b, <4>1, <4>2, SeenIsJob
    <3> QED BY <2>b, <2>12, <2>13, <2>15, <3>1, ListGoesOn
  <2> QED BY <2>12, <2>17, <2>18, <2>19, <2>20, <2>21, <2>22 DEF IInv, Base
<1> QED BY <1>3, <1>4, <1>5

-----------------------------------------------------------------------------
\* Steps that move no flow.

\* A step of which the flows see nothing.
LEMMA StandStill ==
  ASSUME IInv, flow' = flow, JobsTyped', Grows, DOMAIN job' = DOMAIN job,
         UNCHANGED <<key, loading, jobsLoading, jobs, overlapped, stale>>,
         \/ UNCHANGED <<error, result>>
         \/ error' = TRUE /\ ~loading /\ result' \in {result, NoResult}
  PROVE  IInv'
<1>b. Base /\ Spins /\ LastAsked /\ ListFits
  BY DEF IInv
<1>1. FlowsFit'
  <2> SUFFICES ASSUME NEW t \in Slots PROVE FlowOK(flow[t])'
    BY <1>b DEF Base, FlowsFit
  <2>1. PICK f \in Flow : f = flow[t] /\ FlowOK(f)
    BY <1>b, FlowIs
  <2>2. FlowOK(f)'
    BY <2>1, FitsStill
  <2> QED BY <2>1, <2>2
<1>2. Budget'
  BY <1>b DEF Base, Budget, Posting
<1>3. NoResult.job = NoJob /\ NoResult \in [last : BOOLEAN, job : {NoJob} \cup JobIds,
                                            status : {"none", "queued"} \cup Final]
  BY DEF NoResult
<1>4. ViewTyped'
  BY <1>b, <1>3 DEF Base, ViewTyped
<1>5. Spins'
  BY <1>b DEF Spins, Asks, Lists
<1>6. LastAsked'
  <2>1. CASE UNCHANGED <<error, result>>
    BY <1>b, <2>1 DEF LastAsked, Asks, Good
  <2>2. CASE error' = TRUE /\ ~loading
    BY <1>b, <2>2 DEF LastAsked, Asks
  <2> QED BY <2>1, <2>2
<1>7. ListFits'
  <2>1. PICK own : own = Owned(key) /\ own \subseteq DOMAIN job
    BY DEF Owned
  <2>2. Owned(key)' = own
    BY <2>1 DEF Owned, Grows
  <2>3. NoJob \notin own
    BY <1>b, <2>1, JobsAre DEF Base
  <2>4. \A j \in own : Seen(j)' => Seen(j)
    BY <1>3, <2>3 DEF Seen, Asks
  <2> QED BY <1>b, <2>1, <2>2, <2>4 DEF ListFits, Lists
<1> QED BY <1>1, <1>2, <1>4, <1>5, <1>6, <1>7 DEF IInv, Base

\* A run that the form refuses.
LEMMA IdleSteps ==
  ASSUME IInv, RunRefused \/ UNCHANGED vars
  PROVE  IInv'
<1>1. /\ flow' = flow /\ job' = job
      /\ UNCHANGED <<key, loading, jobsLoading, jobs, overlapped, stale>>
      /\ \/ UNCHANGED <<error, result>>
         \/ error' = TRUE /\ ~loading /\ result' \in {result, NoResult}
  BY DEF RunRefused, vars, server, page
<1>2. JobsTyped'
  BY <1>1 DEF IInv, Base, JobsTyped
<1>3. Grows /\ DOMAIN job' = DOMAIN job
  BY <1>1 DEF Grows
<1> QED BY <1>1, <1>2, <1>3, StandStill

\* The server finishes a job.
LEMMA FinishStep ==
  ASSUME IInv, NEW j \in DOMAIN job, Finish(j)
  PROVE  IInv'
<1>1. PICK n \in 0..MaxJobs : job \in [1..n -> JobRec] /\ DOMAIN job = 1..n
  BY JobsAre DEF IInv, Base
<1>2. PICK st \in Final : job' = [job EXCEPT ![j].status = st]
  BY DEF Finish
<1>3. /\ job' \in [1..n -> JobRec]
      /\ \A i \in 1..n : job'[i].owner = job[i].owner
  BY <1>1, <1>2 DEF JobRec
<1>4. JobsTyped' /\ Grows /\ DOMAIN job' = DOMAIN job
  BY <1>1, <1>3 DEF JobsTyped, Grows, JobRec
<1>5. flow' = flow /\ UNCHANGED <<key, loading, jobsLoading, jobs, overlapped, stale,
                                  error, result>>
  BY DEF Finish, page
<1> QED BY <1>4, <1>5, StandStill

-----------------------------------------------------------------------------
\* The page.

\* A flow of the page that is answered asks for the next thing.
LEMMA GoesOnStep ==
  ASSUME IInv, NEW s \in Slots, NEW g \in Flow, Moves(s, g), FlowOK(g),
         Here(s), g.kind = flow[s].kind, g.kind # "list", flow[s].step # "list",
         g.step # "list", g.stage = "sent", g.step # "post",
         g.job = flow[s].job, g.left = flow[s].left, g.last = flow[s].last,
         UNCHANGED <<job, key, page, overlapped, stale>>
  PROVE  IInv'
<1>1. /\ UNCHANGED <<job, key, loading, jobsLoading, error, result, jobs,
                     overlapped, stale>>
      /\ Base /\ Spins /\ LastAsked /\ ListFits
  BY DEF page, IInv
<1>2. /\ Asks(g) /\ Asks(flow[s]) /\ ~Lists(g) /\ ~Lists(flow[s]) /\ ~Posts(g)
  BY DEF Asks, Lists, Posts, Here, Free
<1>3. flow'[s] = g /\ \A t \in Slots : t # s => flow'[t] = flow[t]
  BY <1>1, Moved DEF Base
<1>4. JobsTyped' /\ FlowsFit' /\ Budget'
  BY <1>1, <1>2, BaseMoves
<1>5. ViewTyped'
  BY <1>1 DEF Base, ViewTyped
<1>6. Spins'
  BY <1>1, <1>2, SpinMoves
<1>7. LastAsked'
  BY <1>1, <1>2, AskGoesOn
<1>8. ListFits'
  <2>1. \A j \in DOMAIN job' : Seen(j)' => j \in DOMAIN job /\ Seen(j)
    BY <1>1, <1>2, <1>3 DEF Seen
  <2>2. Grows
    BY <1>1 DEF Grows
  <2> QED BY <1>1, <1>2, <2>1, <2>2, ListGoesOn
<1> QED BY <1>4, <1>5, <1>6, <1>7, <1>8 DEF IInv, Base

\* catch and finally.
LEMMA FailsStep ==
  ASSUME IInv, NEW s \in Slots, Here(s), flow[s].kind # "list", flow[s].step # "list",
         Fails(s), UNCHANGED <<job, key, overlapped>>
  PROVE  IInv'
<1>1. /\ UNCHANGED <<job, key, jobsLoading, result, jobs, overlapped, stale>>
      /\ error' = TRUE /\ loading' = FALSE /\ Moves(s, Idle)
      /\ Base /\ Spins /\ LastAsked /\ ListFits
  BY DEF Fails, Ends, Moves, IInv
<1>2. PICK g \in Flow : /\ g = Idle /\ FlowOK(g) /\ Moves(s, g)
                        /\ ~Asks(g) /\ ~Lists(g) /\ ~Posts(g)
  BY <1>1, IdleIsFlow, IdleFits DEF Asks, Lists, Posts
<1>3. Asks(flow[s]) /\ ~Lists(flow[s])
  BY DEF Asks, Lists, Here, Free
<1>4. flow'[s] = g /\ \A t \in Slots : t # s => flow'[t] = flow[t]
  BY <1>1, <1>2, Moved DEF Base
<1>5. JobsTyped' /\ FlowsFit' /\ Budget'
  BY <1>1, <1>2, BaseMoves
<1>6. ViewTyped'
  BY <1>1 DEF Base, ViewTyped
<1>7. Spins'
  BY <1>1, <1>2, <1>3, SpinMoves
<1>8. LastAsked'
  BY <1>1, <1>2, <1>3, AskEnds
<1>9. ListFits'
  <2>1. \A j \in DOMAIN job' : Seen(j)' => j \in DOMAIN job /\ Seen(j)
    BY <1>1, <1>2, <1>4 DEF Seen
  <2>2. Grows
    BY <1>1 DEF Grows
  <2> QED BY <1>1, <1>2, <1>3, <2>1, <2>2, ListGoesOn
<1> QED BY <1>5, <1>6, <1>7, <1>8, <1>9 DEF IInv, Base

\* The run is shown, and the list asked for again.
LEMMA ShowsAndListsStep ==
  ASSUME IInv, NEW s \in Slots, Here(s), flow[s].kind # "list", flow[s].step # "list",
         Shows(flow[s]), ThenList(s), UNCHANGED <<job, key, error, overlapped>>
  PROVE  IInv'
<1>1. /\ Base /\ Spins /\ LastAsked /\ ListFits
      /\ UNCHANGED <<job, key, error, overlapped>>
      /\ Asks(flow[s]) /\ ~Lists(flow[s])
  BY DEF IInv, Asks, Lists, Here, Free
<1>2. PICK f \in Flow : f = flow[s] /\ FlowOK(f)
  BY <1>1, FlowIs
<1>3. /\ result'.last = flow[s].last /\ result'.job = f.job
      /\ result' \in [last : BOOLEAN, job : {NoJob} \cup JobIds,
                      status : {"none", "queued"} \cup Final]
  BY <1>2 DEF Shows, Flow
<1>4. result'.job \in {NoJob} \cup DOMAIN job
  BY <1>2, <1>3 DEF FlowOK
<1>5. CASE key = NoKey
  <2>1. /\ jobs' = {} /\ loading' = FALSE /\ Moves(s, Idle)
        /\ stale' = (Listing # {}) /\ jobsLoading' = jobsLoading
    BY <1>5 DEF ThenList, Ends, Moves
  <2>2. PICK g \in Flow : /\ g = Idle /\ FlowOK(g) /\ Moves(s, g)
                          /\ ~Asks(g) /\ ~Lists(g) /\ ~Posts(g)
    BY <2>1, IdleIsFlow, IdleFits DEF Asks, Lists, Posts
  <2>3. flow'[s] = g /\ \A t \in Slots : t # s => flow'[t] = flow[t]
    BY <1>1, <2>2, Moved DEF Base
  <2>4. JobsTyped' /\ FlowsFit' /\ Budget'
    BY <1>1, <2>2, BaseMoves
  <2>5. stale' \in BOOLEAN
    BY <2>1
  <2>6. ViewTyped'
    BY <1>1, <1>3, <1>4, <2>1, <2>5 DEF Base, ViewTyped
  <2>7. Spins'
    BY <1>1, <2>1, <2>2, SpinMoves
  <2>8. LastAsked'
    BY <1>1, <1>3, <2>2, AskEnds
  <2>9. ListFits'
    <3>1. \A t \in Slots : Lists(flow'[t]) => Lists(flow[t])
      BY <2>2, <2>3
    <3> QED BY <1>1, <1>5, <2>1, <2>4, <3>1, ListDropped
  <2> QED BY <2>4, <2>6, <2>7, <2>8, <2>9 DEF IInv, Base
<1>6. CASE key # NoKey
  <2> DEFINE g == [f EXCEPT !.step = "list", !.stage = "sent", !.cred = key]
  <2>1. /\ g \in Flow /\ g.kind = f.kind /\ g.left = f.left /\ g.last = f.last
        /\ g.step = "list" /\ g.stage = "sent" /\ g.cred = key /\ g.job = f.job
        /\ g.rows = f.rows
    BY <1>1 DEF Flow, Base, ViewTyped
  <2>2. /\ Moves(s, g) /\ jobsLoading' = TRUE /\ stale' = (Listing \ {s} # {})
        /\ UNCHANGED <<jobs, loading>>
    BY <1>2, <1>6 DEF ThenList, Refreshes, Moves
  <2> HIDE DEF g
  <2>3. Asks(g) /\ Lists(g) /\ ~Posts(g) /\ FlowOK(g)
    BY <1>1, <1>2, <2>1 DEF Asks, Lists, Posts, FlowOK
  <2>4. JobsTyped' /\ FlowsFit' /\ Budget'
    BY <1>1, <2>1, <2>2, <2>3, BaseMoves
  <2>5. stale' \in BOOLEAN
    BY <2>2
  <2>6. ViewTyped'
    BY <1>1, <1>3, <1>4, <2>2, <2>5 DEF Base, ViewTyped
  <2>7. Spins'
    BY <1>1, <2>1, <2>2, <2>3, SpinMoves
  <2>8. LastAsked'
    <3> SUFFICES ASSUME ~overlapped PROVE LastAsked'
      BY <1>1 DEF LastAsked
    <3>1. flow'[s] = g /\ \A t \in Slots : t # s => flow'[t] = flow[t]
      BY <1>1, <2>1, <2>2, Moved DEF Base
    <3>2. loading' /\ flow'[s].last /\ Good'
      BY <1>1, <1>2, <1>3, <2>1, <2>2, <3>1 DEF LastAsked, Good
    <3>3. \A t \in Slots : Asks(flow'[t]) => t = s
      BY <1>1, <3>1 DEF LastAsked
    <3> QED BY <3>2, <3>3 DEF LastAsked, Asks
  <2>9. ListFits'
    BY <1>1, <2>1, <2>2, <2>3, ListStarts
  <2> QED BY <2>4, <2>6, <2>7, <2>8, <2>9 DEF IInv, Base
<1> QED BY <1>5, <1>6

\* The answer to a new job is handled.
LEMMA ReceivePostStep ==
  ASSUME IInv, NEW s \in Slots, ReceivePost(s)
  PROVE  IInv'
<1>1. PICK f \in Flow : f = flow[s] /\ FlowOK(f)
  BY FlowIs DEF IInv
<1>2. /\ Here(s) /\ f.step = "post" /\ f.kind \in Runs /\ f.kind # "list"
      /\ UNCHANGED <<job, key, overlapped>>
  BY <1>1 DEF ReceivePost, Answered, server, FlowOK, Runs
<1>3. CASE f.stage # "ok"
  <2>1. Fails(s)
    BY <1>1, <1>3 DEF ReceivePost
  <2> QED BY <1>1, <1>2, <2>1, FailsStep
<1>4. CASE f.stage = "ok" /\ f.kind = "crawl"
  <2>1. Sends(s, f, "poll") /\ UNCHANGED <<page, stale>>
    BY <1>1, <1>4 DEF ReceivePost
  <2>k. PICK k \in KeyInputs : k = key
    BY DEF IInv, Base, ViewTyped
  <2> DEFINE g == [f EXCEPT !.step = "poll", !.stage = "sent", !.cred = k]
  <2>g. /\ g \in Flow /\ g.kind = f.kind /\ g.left = f.left /\ g.last = f.last
        /\ g.step = "poll" /\ g.stage = "sent" /\ g.cred = k
        /\ g.job = f.job /\ g.rows = f.rows
    BY DEF Flow
  <2>2. /\ g.kind = f.kind /\ g.left = f.left /\ g.last = f.last
        /\ g.step = "poll" /\ g.stage = "sent" /\ g.job = f.job /\ g.rows = f.rows
    BY <2>g
  <2>3. Moves(s, g)
    BY <2>1, <2>k DEF Sends, Moves
  <2> HIDE DEF g
  <2>4. FlowOK(g)
    BY <1>1, <1>2, <1>4, <2>2 DEF FlowOK
  <2> QED BY <1>1, <1>2, <2>1, <2>g, <2>2, <2>3, <2>4, GoesOnStep
<1>5. CASE f.stage = "ok" /\ f.kind # "crawl"
  <2>1. Shows(flow[s]) /\ ThenList(s) /\ error' = error
    BY <1>1, <1>5 DEF ReceivePost
  <2> QED BY <1>1, <1>2, <2>1, ShowsAndListsStep
<1> QED BY <1>3, <1>4, <1>5

\* The status of a job arrives.
LEMMA ReceivePollStep ==
  ASSUME IInv, NEW s \in Slots, ReceivePoll(s)
  PROVE  IInv'
<1>1. PICK f \in Flow : f = flow[s] /\ FlowOK(f)
  BY FlowIs DEF IInv
<1>2. /\ Here(s) /\ f.step = "poll" /\ f.kind = "crawl" /\ f.job # NoJob
      /\ UNCHANGED <<job, key, overlapped>>
  BY <1>1 DEF ReceivePoll, Answered, server, FlowOK, Here, Free
<1>3. CASE Fails(s)
  BY <1>1, <1>2, <1>3, FailsStep
<1>4. CASE f.stage = "ok" /\ Finished(f)
  <2>1. Sends(s, [f EXCEPT !.polls = 0], "detail") /\ UNCHANGED <<page, stale>>
    BY <1>1, <1>4 DEF ReceivePoll
  <2>0. PICK e \in Flow : /\ e = [f EXCEPT !.polls = 0]
                          /\ e.kind = f.kind /\ e.left = f.left /\ e.last = f.last
                          /\ e.job = f.job /\ e.rows = f.rows
    <3>1. 0 \in 0..(MaxPolls - 1)
      BY PlaygroundAssumption
    <3> DEFINE e == [f EXCEPT !.polls = 0]
    <3>2. e \in Flow /\ e.kind = f.kind /\ e.left = f.left /\ e.last = f.last
          /\ e.job = f.job /\ e.rows = f.rows
      BY <3>1 DEF Flow
    <3> HIDE DEF e
    <3> QED BY <3>2 DEF e
  <2>k. PICK k \in KeyInputs : k = key
    BY DEF IInv, Base, ViewTyped
  <2> DEFINE g == [e EXCEPT !.step = "detail", !.stage = "sent", !.cred = k]
  <2>g. /\ g \in Flow /\ g.kind = e.kind /\ g.left = e.left /\ g.last = e.last
        /\ g.step = "detail" /\ g.stage = "sent" /\ g.cred = k
        /\ g.job = e.job /\ g.rows = e.rows
    BY DEF Flow
  <2>2. /\ g.kind = f.kind /\ g.left = f.left /\ g.last = f.last
        /\ g.step = "detail" /\ g.stage = "sent" /\ g.job = f.job /\ g.rows = f.rows
    BY <2>0, <2>g
  <2>3. Moves(s, g)
    BY <2>0, <2>1, <2>k DEF Sends, Moves
  <2> HIDE DEF g
  <2>4. FlowOK(g)
    BY <1>1, <1>2, <1>4, <2>2 DEF FlowOK
  <2> QED BY <1>1, <1>2, <2>1, <2>g, <2>2, <2>3, <2>4, GoesOnStep
<1>5. CASE f.stage = "ok" /\ ~Finished(f) /\ ~OutOfTime(f)
  <2>1. Again(s, f) /\ UNCHANGED <<page, stale>>
    BY <1>1, <1>5 DEF ReceivePoll
  <2>0. PICK e \in Flow : /\ e = [f EXCEPT !.polls = @ + 1]
                          /\ e.kind = f.kind /\ e.left = f.left /\ e.last = f.last
                          /\ e.job = f.job /\ e.rows = f.rows
    <3>1. f.polls \in 0..(MaxPolls - 1)
      BY DEF Flow
    <3>2. f.polls + 1 \in 0..(MaxPolls - 1)
      BY <1>5, <3>1, PlaygroundAssumption DEF OutOfTime
    <3>3. PICK q \in 0..(MaxPolls - 1) : q = f.polls + 1
      BY <3>2
    <3> DEFINE e == [f EXCEPT !.polls = q]
    <3>4. e \in Flow /\ e.kind = f.kind /\ e.left = f.left /\ e.last = f.last
          /\ e.job = f.job /\ e.rows = f.rows
      BY DEF Flow
    <3>5. e = [f EXCEPT !.polls = @ + 1]
      BY <3>3
    <3> HIDE DEF e
    <3> QED BY <3>4, <3>5
  <2>k. PICK k \in KeyInputs : k = key
    BY DEF IInv, Base, ViewTyped
  <2> DEFINE g == [e EXCEPT !.step = "poll", !.stage = "sent", !.cred = k]
  <2>g. /\ g \in Flow /\ g.kind = e.kind /\ g.left = e.left /\ g.last = e.last
        /\ g.step = "poll" /\ g.stage = "sent" /\ g.cred = k
        /\ g.job = e.job /\ g.rows = e.rows
    BY DEF Flow
  <2>2. /\ g.kind = f.kind /\ g.left = f.left /\ g.last = f.last
        /\ g.step = "poll" /\ g.stage = "sent" /\ g.job = f.job /\ g.rows = f.rows
    BY <2>0, <2>g
  <2>3. Moves(s, g)
    BY <2>0, <2>1, <2>k DEF Again, Sends, Moves
  <2> HIDE DEF g
  <2>4. FlowOK(g)
    BY <1>1, <1>2, <2>g, <2>2 DEF FlowOK
  <2> QED BY <1>1, <1>2, <2>1, <2>g, <2>2, <2>3, <2>4, GoesOnStep
<1> QED BY <1>1, <1>3, <1>4, <1>5 DEF ReceivePoll

\* The result of a job arrives.
LEMMA ReceiveDetailStep ==
  ASSUME IInv, NEW s \in Slots, ReceiveDetail(s)
  PROVE  IInv'
<1>1. PICK f \in Flow : f = flow[s] /\ FlowOK(f)
  BY FlowIs DEF IInv
<1>2. /\ Here(s) /\ f.step = "detail" /\ f.kind \in {"crawl", "open"} /\ f.job # NoJob
      /\ UNCHANGED <<job, key, overlapped>>
  BY <1>1 DEF ReceiveDetail, Answered, server, FlowOK, Here, Free
<1>3. CASE f.stage # "ok"
  <2>1. Fails(s)
    BY <1>1, <1>3 DEF ReceiveDetail
  <2> QED BY <1>1, <1>2, <2>1, FailsStep
<1>4. CASE f.stage = "ok" /\ f.kind = "crawl"
  <2>1. Shows(flow[s]) /\ ThenList(s) /\ error' = error
    BY <1>1, <1>4 DEF ReceiveDetail
  <2> QED BY <1>1, <1>2, <2>1, ShowsAndListsStep
<1>5. CASE f.stage = "ok" /\ f.kind = "open"
  <2>1. /\ Base /\ Spins /\ LastAsked /\ ListFits
        /\ Asks(flow[s]) /\ ~Lists(flow[s])
    BY <1>1, <1>2 DEF IInv, Asks, Lists, Here, Free
  <2>2. /\ result' = [last |-> f.last, job |-> f.job, status |-> f.got]
        /\ loading' = FALSE /\ Moves(s, Idle)
        /\ UNCHANGED <<job, key, error, overlapped, jobs, jobsLoading, stale>>
    BY <1>1, <1>2, <1>5 DEF ReceiveDetail, Shows, Ends, Moves
  <2>3. /\ result'.last = flow[s].last /\ result'.job = f.job
        /\ result' \in [last : BOOLEAN, job : {NoJob} \cup JobIds,
                        status : {"none", "queued"} \cup Final]
    BY <1>1, <2>2 DEF Flow
  <2>4. result'.job \in {NoJob} \cup DOMAIN job
    BY <1>1, <2>3 DEF FlowOK
  <2>5. PICK g \in Flow : /\ g = Idle /\ FlowOK(g) /\ Moves(s, g)
                          /\ ~Asks(g) /\ ~Lists(g) /\ ~Posts(g)
    BY <2>2, IdleIsFlow, IdleFits DEF Asks, Lists, Posts
  <2>6. flow'[s] = g /\ \A t \in Slots : t # s => flow'[t] = flow[t]
    BY <2>1, <2>5, Moved DEF Base
  <2>7. JobsTyped' /\ FlowsFit' /\ Budget'
    BY <2>1, <2>2, <2>5, BaseMoves
  <2>8. ViewTyped'
    BY <2>1, <2>2, <2>3, <2>4 DEF Base, ViewTyped
  <2>9. Spins'
    BY <2>1, <2>2, <2>5, SpinMoves
  <2>10. LastAsked'
    BY <2>1, <2>2, <2>3, <2>5, AskEnds
  <2>11. ListFits'
    <3>1. Seen(f.job)
      BY <1>1, <1>5, <2>1 DEF Seen
    <3>2. \A j \in DOMAIN job' : Seen(j)' => j \in DOMAIN job /\ Seen(j)
      BY <2>2, <2>3, <2>5, <2>6, <3>1 DEF Seen
    <3>3. Grows
      BY <2>2 DEF Grows
    <3> QED BY <2>1, <2>2, <2>5, <3>2, <3>3, ListGoesOn
  <2> QED BY <2>7, <2>8, <2>9, <2>10, <2>11 DEF IInv, Base
<1> QED BY <1>2, <1>3, <1>4, <1>5

\* A list of runs arrives.
LEMMA ReceiveListStep ==
  ASSUME IInv, NEW s \in Slots, ReceiveList(s)
  PROVE  IInv'
<1>1. PICK f \in Flow : f = flow[s] /\ FlowOK(f)
  BY FlowIs DEF IInv
<1>2. /\ f.kind # "idle" /\ ~f.left /\ f.step = "list" /\ f.stage # "sent"
      /\ UNCHANGED <<job, key, error, result, overlapped>>
      /\ jobs' = Listed(f) /\ jobsLoading' = FALSE /\ Moves(s, Idle)
  BY <1>1 DEF ReceiveList, Answered, server, Here, Free, Ends, Moves
<1>3. stale' \in BOOLEAN /\ (stale' <=> stale \/ f.stage = "failed")
  BY <1>1 DEF ReceiveList
<1>4. /\ f.kind = "list" => loading' = loading
      /\ f.kind # "list" => loading' = FALSE
      /\ loading' \in BOOLEAN
  BY <1>1 DEF ReceiveList, IInv, Base, ViewTyped
<1>5. Base /\ Spins /\ LastAsked /\ ListFits
  BY DEF IInv
<1>6. PICK g \in Flow : /\ g = Idle /\ FlowOK(g) /\ Moves(s, g)
                        /\ ~Asks(g) /\ ~Lists(g) /\ ~Posts(g)
  BY <1>2, IdleIsFlow, IdleFits DEF Asks, Lists, Posts
<1>7. flow'[s] = g /\ \A t \in Slots : t # s => flow'[t] = flow[t]
  BY <1>5, <1>6, Moved DEF Base
<1>8. JobsTyped' /\ FlowsFit' /\ Budget'
  BY <1>2, <1>5, <1>6, BaseMoves
<1>9. ViewTyped'
  <2>1. Listed(f) \subseteq DOMAIN job
    BY <1>1, <1>5 DEF Listed, FlowOK, Base, ViewTyped
  <2> QED BY <1>2, <1>3, <1>4, <1>5, <2>1 DEF Base, ViewTyped
<1>10. Lists(flow[s]) /\ (Asks(flow[s]) <=> f.kind # "list")
  BY <1>1, <1>2 DEF Lists, Asks
<1>11. Spins'
  BY <1>2, <1>4, <1>5, <1>6, <1>10, SpinMoves
<1>12. LastAsked'
  <2>1. CASE f.kind = "list"
    BY <1>2, <1>4, <1>5, <1>6, <1>10, <2>1, AskNot
  <2>2. CASE f.kind # "list"
    BY <1>1, <1>2, <1>5, <1>6, <1>10, <2>2, AskEnds
  <2> QED BY <2>1, <2>2
<1>13. ListFits'
  <2> SUFFICES ASSUME ~stale, f.stage # "failed" PROVE ListFits'
    BY <1>3 DEF ListFits
  <2>1. \A t \in Slots : ~Lists(flow'[t])
    BY <1>5, <1>6, <1>7, <1>10 DEF ListFits
  <2>2. PICK own : own = Owned(key) /\ own \subseteq DOMAIN job
    BY DEF Owned
  <2>3. Owned(key)' = own
    BY <1>2, <2>2 DEF Owned
  <2>4. /\ f.cred = key
        /\ f.stage = "ok" => \A j \in own : Seen(j) => j \in f.rows
    BY <1>1, <1>5, <1>10, <2>2 DEF ListFits
  <2>5. \A j \in own : Seen(j)' => Seen(j) \/ j \in jobs'
    BY <1>2, <1>6, <1>7 DEF Seen
  <2>6. CASE f.stage = "ok"
    <3>1. jobs' = f.rows /\ f.rows \subseteq own
      BY <1>1, <1>2, <2>2, <2>4, <2>6 DEF Listed, FlowOK
    <3> QED BY <2>1, <2>3, <2>4, <2>5, <2>6, <3>1 DEF ListFits, Lists
  <2>7. CASE f.stage = "refused"
    <3>1. jobs' = {} /\ key \notin Valid
      BY <1>1, <1>2, <2>4, <2>7 DEF Listed, FlowOK
    <3>2. own = {}
      BY <1>5, <2>2, <3>1, NothingOfWrong DEF Base
    <3> QED BY <2>1, <2>3, <3>1, <3>2 DEF ListFits, Lists
  <2>8. f.stage \in {"sent", "ok", "refused", "failed"}
    BY DEF Flow
  <2> QED BY <1>2, <2>6, <2>7, <2>8
<1> QED BY <1>8, <1>9, <1>11, <1>12, <1>13 DEF IInv, Base

-----------------------------------------------------------------------------
\* The visitor.

\* The list is asked for with the key k: the "Jobs" button, and saveKey.
LEMMA NewListStep ==
  ASSUME IInv, NEW s \in Slots, NEW k \in KeyInputs, Free(s), key' = k,
         Refreshes(s, [Idle EXCEPT !.kind = "list"], k),
         UNCHANGED <<job, loading, error, result, jobs, overlapped>>
  PROVE  IInv'
<1>b. Base /\ Spins /\ LastAsked /\ ListFits
  BY DEF IInv
<1>1. PICK e \in Flow : /\ e = [Idle EXCEPT !.kind = "list"]
                        /\ e.kind = "list" /\ ~e.left /\ e.job = NoJob /\ e.rows = {}
  <2> DEFINE e == [Idle EXCEPT !.kind = "list"]
  <2>1. e \in Flow /\ e.kind = "list" /\ ~e.left /\ e.job = NoJob /\ e.rows = {}
    BY IdleIsFlow DEF Flow
  <2> HIDE DEF e
  <2> QED BY <2>1 DEF e
<1> DEFINE g == [e EXCEPT !.step = "list", !.stage = "sent", !.cred = k]
<1>2. /\ g \in Flow /\ g.kind = e.kind /\ g.left = e.left /\ g.last = e.last
      /\ g.step = "list" /\ g.stage = "sent" /\ g.cred = k
      /\ g.job = e.job /\ g.rows = e.rows
  BY DEF Flow
<1>3. /\ Moves(s, g) /\ jobsLoading' = TRUE /\ stale' = (Listing \ {s} # {})
  BY <1>1 DEF Refreshes, Moves
<1> HIDE DEF g
<1>4. /\ FlowOK(g) /\ ~Asks(g) /\ Lists(g) /\ ~Posts(g)
      /\ ~Asks(flow[s]) /\ ~Lists(flow[s])
  BY <1>1, <1>2 DEF FlowOK, Asks, Lists, Posts, Free
<1>5. JobsTyped' /\ FlowsFit' /\ Budget'
  BY <1>b, <1>2, <1>3, <1>4, BaseMoves
<1>6. stale' \in BOOLEAN /\ jobsLoading' \in BOOLEAN
  BY <1>3
<1>7. ViewTyped'
  BY <1>b, <1>6 DEF Base, ViewTyped
<1>8. Spins'
  BY <1>b, <1>2, <1>3, <1>4, SpinMoves
<1>9. LastAsked'
  BY <1>b, <1>2, <1>3, <1>4, AskNot
<1>10. ListFits'
  BY <1>b, <1>2, <1>3, <1>4, ListStarts
<1> QED BY <1>5, <1>7, <1>8, <1>9, <1>10 DEF IInv, Base

\* The visitor refreshes the runs.
LEMMA RefreshJobsStep ==
  ASSUME IInv, NEW s \in Slots, RefreshJobs(s)
  PROVE  IInv'
<1>1. PICK k \in KeyInputs : k = key
  BY DEF IInv, Base, ViewTyped
<1>2. /\ Free(s) /\ key' = k /\ Refreshes(s, [Idle EXCEPT !.kind = "list"], k)
      /\ UNCHANGED <<job, loading, error, result, jobs, overlapped>>
  BY <1>1 DEF RefreshJobs, server
<1> QED BY <1>2, NewListStep

\* The visitor saves a key, or none.
LEMMA SaveKeyStep ==
  ASSUME IInv, NEW s \in Slots, NEW k \in KeyInputs, SaveKey(s, k)
  PROVE  IInv'
<1>1. /\ Free(s) /\ key' = k
      /\ UNCHANGED <<job, loading, error, result, overlapped>>
  BY DEF SaveKey, server
<1>2. CASE k # NoKey
  <2>1. Refreshes(s, [Idle EXCEPT !.kind = "list"], k) /\ jobs' = jobs
    BY <1>2 DEF SaveKey
  <2> QED BY <1>1, <2>1, NewListStep
<1>3. CASE k = NoKey
  <2>b. Base /\ Spins /\ LastAsked /\ ListFits
    BY DEF IInv
  <2>1. /\ jobs' = {} /\ stale' = (Listing # {})
        /\ flow' = flow /\ jobsLoading' = jobsLoading
    BY <1>3 DEF SaveKey
  <2>2. JobsTyped' /\ Budget'
    BY <1>1, <2>1, <2>b DEF Base, JobsTyped, Budget, Posting
  <2>3. FlowsFit'
    <3> SUFFICES ASSUME NEW t \in Slots PROVE FlowOK(flow[t])'
      BY <2>b, <2>1 DEF Base, FlowsFit
    <3>1. PICK f \in Flow : f = flow[t] /\ FlowOK(f)
      BY <2>b, FlowIs
    <3>2. FlowOK(f)'
      BY <1>1, <3>1, FitsStill DEF Grows
    <3> QED BY <2>1, <3>1, <3>2
  <2>4. stale' \in BOOLEAN
    BY <2>1
  <2>5. ViewTyped'
    BY <1>1, <2>b, <2>1, <2>4 DEF Base, ViewTyped
  <2>6. Spins'
    BY <1>1, <2>b, <2>1 DEF Spins, Asks, Lists
  <2>7. LastAsked'
    BY <1>1, <2>b, <2>1 DEF LastAsked, Asks, Good
  <2>8. ListFits'
    <3>1. \A t \in Slots : Lists(flow'[t]) => Lists(flow[t])
      BY <2>1
    <3> QED BY <1>1, <1>3, <2>b, <2>1, <2>2, <3>1, ListDropped
  <2> QED BY <2>2, <2>3, <2>5, <2>6, <2>7, <2>8 DEF IInv, Base
<1> QED BY <1>2, <1>3

\* Run and Open: a new flow, the others keep all but `last`.
LEMMA AskedStep ==
  ASSUME IInv, NEW s \in Slots, NEW e \in Flow, Free(s), Asked(s, e),
         FlowOK(e), e.kind \notin {"idle", "list"}, ~e.left,
         e.step # "list", e.stage = "sent",
         \/ ~Posts(e)
         \/ Cardinality(DOMAIN job) + Cardinality(Posting) < MaxJobs,
         e.kind = "open" => e.job \in jobs,
         overlapped' \in BOOLEAN,
         ~overlapped' => Asking = {},
         loading' = TRUE, error' = FALSE,
         result' \in [last : BOOLEAN, job : {NoJob} \cup JobIds,
                      status : {"none", "queued"} \cup Final],
         result'.job \in {NoJob, result.job},
         UNCHANGED <<job, key, jobsLoading, jobs, stale>>
  PROVE  IInv'
<1>b. Base /\ Spins /\ LastAsked /\ ListFits
  BY DEF IInv
<1>1. PICK k \in KeyInputs : k = key
  BY <1>b DEF Base, ViewTyped
<1>2. PICK g \in Flow : /\ g = [e EXCEPT !.last = TRUE, !.cred = k]
                        /\ g.kind = e.kind /\ g.step = e.step /\ g.stage = e.stage
                        /\ g.job = e.job /\ g.rows = e.rows /\ g.left = e.left
                        /\ g.last
  <2> DEFINE g == [e EXCEPT !.last = TRUE, !.cred = k]
  <2>1. /\ g \in Flow /\ g.kind = e.kind /\ g.step = e.step /\ g.stage = e.stage
        /\ g.job = e.job /\ g.rows = e.rows /\ g.left = e.left /\ g.last
    BY DEF Flow
  <2> HIDE DEF g
  <2> QED BY <2>1 DEF g
<1>3. flow' = [t \in Slots |-> IF t = s THEN g ELSE [flow[t] EXCEPT !.last = FALSE]]
  BY <1>1, <1>2 DEF Asked
<1>4. \A t \in Slots : flow[t] \in Flow /\ FlowOK(flow[t])
  BY <1>b DEF Base, FlowsFit
<1>5. ASSUME NEW f \in Flow
      PROVE  /\ [f EXCEPT !.last = FALSE] \in Flow
             /\ Alike(f, [f EXCEPT !.last = FALSE])
             /\ [f EXCEPT !.last = FALSE].left = f.left
  BY DEF Flow, Alike
<1>6. /\ flow' \in [Slots -> Flow] /\ flow'[s] = g
      /\ \A t \in Slots : t # s => Alike(flow[t], flow'[t]) /\ flow'[t].left = flow[t].left
  BY <1>3, <1>4, <1>5
<1>7. /\ Asks(g) /\ ~Lists(g) /\ ~Asks(flow[s]) /\ ~Lists(flow[s])
      /\ FlowOK(g)
  BY <1>2 DEF Asks, Lists, Free, FlowOK
<1>8. FlowsFit'
  <2> SUFFICES ASSUME NEW t \in Slots PROVE FlowOK(flow[t])'
    BY <1>6 DEF FlowsFit
  <2>1. PICK h \in Flow : h = flow'[t]
    BY <1>6
  <2>2. FlowOK(h)
    <3>1. CASE t = s
      BY <1>6, <1>7, <2>1, <3>1
    <3>2. CASE t # s
      <4>1. PICK f \in Flow : f = flow[t] /\ FlowOK(f)
        BY <1>4
      <4>2. Alike(f, h)
        BY <1>6, <2>1, <3>2, <4>1
      <4> QED BY <4>1, <4>2, AlikeFits
    <3> QED BY <3>1, <3>2
  <2>3. FlowOK(h)'
    BY <2>2, FitsStill DEF Grows
  <2> QED BY <2>1, <2>3
<1>9. JobsTyped'
  BY <1>b DEF Base, JobsTyped
<1>10. Budget'
  <2>1. PICK S \in SUBSET Slots : S = Posting
    BY DEF Posting
  <2>2. PICK T \in SUBSET Slots : T = Posting'
    BY DEF Posting
  <2>3. /\ Cardinality(T) \in Nat /\ Cardinality(S) \in Nat /\ IsFiniteSet(S)
        /\ Cardinality(DOMAIN job) \in Nat /\ MaxJobs \in Nat
    BY <1>b, PostingIsFinite, JobsAre, PlaygroundAssumption DEF Base
  <2>4. T \subseteq S \cup {s}
    BY <1>6, <2>1, <2>2 DEF Posting, Alike
  <2>5. CASE ~Posts(e)
    <3>a. s \notin T
      BY <1>2, <1>6, <2>2, <2>5 DEF Posting, Posts
    <3>1. T \in SUBSET S
      BY <2>4, <3>a
    <3>2. Cardinality(T) <= Cardinality(S)
      BY <3>1, Fewer
    <3>3. Cardinality(DOMAIN job) + Cardinality(S) <= MaxJobs
      BY <1>b, <2>1 DEF Base, Budget
    <3>4. Cardinality(DOMAIN job) + Cardinality(T) <= MaxJobs
      BY <2>3, <3>2, <3>3
    <3> QED BY <2>2, <3>4 DEF Budget
  <2>6. CASE Cardinality(DOMAIN job) + Cardinality(Posting) < MaxJobs
    <3>1. PICK U \in SUBSET Slots : U = S \cup {s}
      OBVIOUS
    <3>2. Cardinality(U) <= Cardinality(S) + 1 /\ Cardinality(U) \in Nat
      <4>1. Cardinality(S \cup {s}) = IF s \in S THEN Cardinality(S) ELSE Cardinality(S) + 1
        BY <2>3, FS_AddElement
      <4> QED BY <2>3, <3>1, <4>1
    <3>3. T \in SUBSET U
      BY <2>4, <3>1
    <3>4. Cardinality(T) <= Cardinality(U)
      BY <3>3, Fewer
    <3>5. Cardinality(DOMAIN job) + Cardinality(S) < MaxJobs
      BY <2>1, <2>6
    <3>6. Cardinality(DOMAIN job) + Cardinality(T) <= MaxJobs
      BY <2>3, <3>2, <3>4, <3>5
    <3> QED BY <2>2, <3>6 DEF Budget
  <2> QED BY <2>5, <2>6
<1>11. ViewTyped'
  BY <1>b DEF Base, ViewTyped
<1>12. \A t \in Slots : /\ Lists(flow'[t]) <=> Lists(flow[t])
                        /\ Asks(flow[t]) => Asks(flow'[t])
                        /\ t # s => (Asks(flow'[t]) <=> Asks(flow[t]))
  BY <1>6, <1>7 DEF Lists, Asks, Alike
<1>13. Spins'
  <2>1. \E t \in Slots : Asks(flow'[t])
    BY <1>6, <1>7
  <2>2. jobsLoading' => \E t \in Slots : Lists(flow'[t])
    BY <1>b, <1>12 DEF Spins
  <2> QED BY <2>1, <2>2 DEF Spins, Asks, Lists
<1>14. LastAsked'
  <2> SUFFICES ASSUME ~overlapped' PROVE LastAsked'
    BY DEF LastAsked
  <2>1. \A t \in Slots : ~Asks(flow[t])
    BY DEF Asking, Asks, Here, Free
  <2>2. \A t \in Slots : Asks(flow'[t]) => t = s
    BY <1>12, <2>1
  <2>3. flow'[s].last /\ Asks(flow'[s]) /\ flow'[s].step # "list"
    BY <1>2, <1>6, <1>7
  <2> QED BY <2>2, <2>3 DEF LastAsked, Asks
<1>15. ListFits'
  <2>1. PICK own : own = Owned(key) /\ own \subseteq DOMAIN job
    BY DEF Owned
  <2>2. Owned(key)' = own
    BY <2>1 DEF Owned
  <2>3. NoJob \notin own
    BY <1>b, <2>1, JobsAre DEF Base
  <2>4. ASSUME NEW j \in own, Seen(j)' PROVE Seen(j)
    <3>1. CASE j = result'.job \/ j \in jobs'
      BY <2>3, <2>4, <3>1 DEF Seen
    <3>2. ASSUME NEW t \in Slots, Asks(flow'[t]), flow'[t].kind = "open", flow'[t].job = j
          PROVE  Seen(j)
      <4>1. CASE t = s
        BY <1>2, <1>6, <3>2, <4>1 DEF Seen
      <4>2. CASE t # s
        BY <1>6, <1>12, <3>2, <4>2 DEF Seen, Alike
      <4> QED BY <4>1, <4>2
    <3> QED BY <2>4, <3>1, <3>2 DEF Seen, Asks
  <2>5. \A t \in Slots : Lists(flow'[t]) =>
          /\ flow'[t].cred = flow[t].cred /\ flow'[t].stage = flow[t].stage
          /\ flow'[t].rows = flow[t].rows
    BY <1>6, <1>7 DEF Alike
  <2> SUFFICES ASSUME ~stale PROVE ListFits'
    BY DEF ListFits
  <2>6. \A t \in Slots : Lists(flow'[t]) =>
          /\ flow'[t].cred = key'
          /\ flow'[t].stage = "ok" => \A j \in own : Seen(j)' => j \in flow'[t].rows
    BY <1>b, <1>12, <2>1, <2>4, <2>5 DEF ListFits
  <2>7. \A t, u \in Slots : Lists(flow'[t]) /\ Lists(flow'[u]) => t = u
    BY <1>b, <1>12 DEF ListFits
  <2>8. (\A t \in Slots : ~Lists(flow'[t])) =>
          jobs' \subseteq own /\ \A j \in own : Seen(j)' => j \in jobs'
    BY <1>b, <1>12, <2>1, <2>4 DEF ListFits
  <2> QED BY <2>2, <2>6, <2>7, <2>8 DEF ListFits, Lists
<1> QED BY <1>8, <1>9, <1>10, <1>11, <1>13, <1>14, <1>15 DEF IInv, Base

\* What the page shows when it has no result.
LEMMA NoResultTyped ==
  /\ NoResult \in [last : BOOLEAN, job : {NoJob} \cup JobIds,
                   status : {"none", "queued"} \cup Final]
  /\ NoResult.job = NoJob
BY DEF NoResult

\* The visitor presses 'Run'.
LEMMA RunStep ==
  ASSUME IInv, NEW s \in Slots, NEW kind \in Runs, Run(s, kind)
  PROVE  IInv'
<1>1. PICK e \in Flow : /\ e = [Idle EXCEPT !.kind = kind, !.step = "post"]
                        /\ e.kind = kind /\ e.step = "post" /\ e.stage = "sent"
                        /\ ~e.left /\ e.job = NoJob /\ e.rows = {}
  <2> DEFINE e == [Idle EXCEPT !.kind = kind, !.step = "post"]
  <2>1. /\ e \in Flow /\ e.kind = kind /\ e.step = "post" /\ e.stage = "sent"
        /\ ~e.left /\ e.job = NoJob /\ e.rows = {}
    BY IdleIsFlow DEF Flow
  <2> HIDE DEF e
  <2> QED BY <2>1 DEF e
<1>2. /\ Free(s) /\ Asked(s, e) /\ loading' = TRUE /\ error' = FALSE
      /\ result' = NoResult
      /\ UNCHANGED <<job, key, jobsLoading, jobs, stale>>
      /\ kind = "map" \/ Cardinality(DOMAIN job) + Cardinality(Posting) < MaxJobs
  BY <1>1 DEF Run, server
<1>3. e.kind \notin {"idle", "list", "open"} /\ FlowOK(e)
  BY <1>1 DEF Runs, FlowOK
<1>4. ~Posts(e) \/ Cardinality(DOMAIN job) + Cardinality(Posting) < MaxJobs
  BY <1>1, <1>2 DEF Posts
<1>5. /\ overlapped' \in BOOLEAN
      /\ overlapped' <=> overlapped /\ Asking # {}
      /\ ~loading
  BY DEF Run
<1>6. ~overlapped' => Asking = {}
  BY <1>5 DEF IInv, LastAsked, Asking, Asks, Here, Free
<1>7. /\ result' \in [last : BOOLEAN, job : {NoJob} \cup JobIds,
                      status : {"none", "queued"} \cup Final]
      /\ result'.job \in {NoJob, result.job}
  BY <1>2, NoResultTyped
<1> QED BY <1>1, <1>2, <1>3, <1>4, <1>5, <1>6, <1>7, AskedStep

\* The visitor opens a recent run.
LEMMA OpenStep ==
  ASSUME IInv, NEW s \in Slots, NEW j \in RecentRuns, Open(s, j)
  PROVE  IInv'
<1>0. j \in jobs /\ j \in DOMAIN job /\ j \in JobIds
  BY JobsAre DEF IInv, Base, ViewTyped, RecentRuns
<1>1. PICK e \in Flow : /\ e = [Idle EXCEPT !.kind = "open", !.step = "detail", !.job = j]
                        /\ e.kind = "open" /\ e.step = "detail" /\ e.stage = "sent"
                        /\ ~e.left /\ e.job = j /\ e.rows = {}
  <2> DEFINE e == [Idle EXCEPT !.kind = "open", !.step = "detail", !.job = j]
  <2>1. /\ e \in Flow /\ e.kind = "open" /\ e.step = "detail" /\ e.stage = "sent"
        /\ ~e.left /\ e.job = j /\ e.rows = {}
    BY <1>0, IdleIsFlow DEF Flow
  <2> HIDE DEF e
  <2> QED BY <2>1 DEF e
<1>2. /\ Free(s) /\ Asked(s, e) /\ loading' = TRUE /\ error' = FALSE
      /\ result' = [result EXCEPT !.last = FALSE]
      /\ UNCHANGED <<job, key, jobsLoading, jobs, stale>>
  BY <1>1 DEF Open, server
<1>3. j # NoJob
  BY <1>0, JobsAre DEF IInv, Base
<1>4. FlowOK(e) /\ ~Posts(e)
  BY <1>0, <1>1, <1>3 DEF FlowOK, Posts
<1>5. /\ overlapped' \in BOOLEAN
      /\ ~overlapped' => Asking = {}
  BY DEF Open
<1>6. PICK r \in [last : BOOLEAN, job : {NoJob} \cup JobIds,
                  status : {"none", "queued"} \cup Final] : r = result
  BY DEF IInv, Base, ViewTyped
<1>7. /\ result' \in [last : BOOLEAN, job : {NoJob} \cup JobIds,
                      status : {"none", "queued"} \cup Final]
      /\ result'.job \in {NoJob, result.job}
  BY <1>2, <1>6
<1> QED BY <1>0, <1>1, <1>2, <1>4, <1>5, <1>7, AskedStep

\* The playground is left and opened again.
LEMMA RemountStep ==
  ASSUME IInv, NEW s \in Slots, Remount(s)
  PROVE  IInv'
<1>b. Base
  BY DEF IInv
<1>1. /\ loading' = FALSE /\ error' = FALSE /\ result' = NoResult /\ jobs' = {}
      /\ overlapped' = FALSE /\ stale' = FALSE
      /\ UNCHANGED <<job, key>>
  BY DEF Remount, server
<1>2. jobsLoading' \in BOOLEAN /\ (jobsLoading' <=> key # NoKey)
  BY DEF Remount
<1>3. PICK k \in KeyInputs : k = key
  BY <1>b DEF Base, ViewTyped
<1>4. PICK g \in Flow :
        /\ g = IF k # NoKey THEN [Idle EXCEPT !.kind = "list", !.cred = k] ELSE Idle
        /\ k # NoKey => g.kind = "list" /\ g.cred = k
        /\ k = NoKey => g.kind = "idle"
        /\ g.step = "list" /\ g.stage = "sent" /\ g.job = NoJob /\ g.rows = {} /\ ~g.left
  <2>1. CASE k = NoKey
    BY <2>1, IdleIsFlow
  <2>2. CASE k # NoKey
    <3> DEFINE g == [Idle EXCEPT !.kind = "list", !.cred = k]
    <3>1. /\ g \in Flow /\ g.kind = "list" /\ g.cred = k
          /\ g.step = "list" /\ g.stage = "sent" /\ g.job = NoJob /\ g.rows = {} /\ ~g.left
      BY IdleIsFlow DEF Flow
    <3> HIDE DEF g
    <3> QED BY <2>2, <3>1 DEF g
  <2> QED BY <2>1, <2>2
<1>5. ASSUME NEW f \in Flow
      PROVE  \E h \in Flow : /\ h = [f EXCEPT !.left = TRUE, !.last = FALSE]
                             /\ Alike(f, h) /\ h.left
  <2> DEFINE h == [f EXCEPT !.left = TRUE, !.last = FALSE]
  <2>1. h \in Flow /\ Alike(f, h) /\ h.left
    BY DEF Flow, Alike
  <2> HIDE DEF h
  <2> QED BY <2>1 DEF h
<1>6. ASSUME NEW t \in Slots
      PROVE  \E h \in Flow : /\ h = flow'[t] /\ FlowOK(h)
                             /\ t = s => h = g
                             /\ t # s => ~Asks(h) /\ ~Lists(h)
                             /\ Posts(h) => Posts(flow[t])
  <2>1. PICK f \in Flow : f = flow[t] /\ FlowOK(f)
    BY <1>b, FlowIs
  <2>2. CASE t = s
    <3>1. flow'[t] = g
      <4>1. flow[s] = f /\ f.kind = "idle"
        BY <2>1, <2>2 DEF Remount, Free
      <4>2. CASE k # NoKey
        BY <1>3, <1>4, <2>2, <4>2 DEF Remount
      <4>3. CASE k = NoKey
        <5>1. f.step # "post"
          BY <2>1, <4>1 DEF FlowOK, Runs
        <5>2. flow'[t] = Idle
          BY <1>3, <2>1, <2>2, <4>3, <5>1 DEF Remount
        <5> QED BY <1>4, <4>3, <5>2
      <4> QED BY <4>2, <4>3
    <3>2. FlowOK(g) /\ ~Posts(g)
      BY <1>4 DEF FlowOK, Posts
    <3> QED BY <2>2, <3>1, <3>2
  <2>3. CASE t # s /\ f.step = "post" /\ f.stage = "sent"
    <3>1. PICK h \in Flow : /\ h = [f EXCEPT !.left = TRUE, !.last = FALSE]
                            /\ Alike(f, h) /\ h.left
      BY <1>5
    <3>2. flow'[t] = h
      BY <2>1, <2>3, <3>1 DEF Remount
    <3>3. FlowOK(h)
      BY <2>1, <3>1, AlikeFits
    <3>4. ~Asks(h) /\ ~Lists(h) /\ (Posts(h) => Posts(f))
      BY <3>1 DEF Asks, Lists, Posts, Alike
    <3> QED BY <2>1, <2>3, <3>2, <3>3, <3>4
  <2>4. CASE t # s /\ ~(f.step = "post" /\ f.stage = "sent")
    <3>1. flow'[t] = Idle
      BY <2>1, <2>4 DEF Remount
    <3>2. ~Asks(Idle) /\ ~Lists(Idle) /\ ~Posts(Idle)
      BY IdleIsFlow DEF Asks, Lists, Posts
    <3> QED BY <2>4, <3>1, <3>2, IdleIsFlow, IdleFits
  <2> QED BY <2>2, <2>3, <2>4
<1>7. flow' \in [Slots -> Flow]
  <2>1. \A t \in Slots : flow'[t] \in Flow
    BY <1>6
  <2>2. flow' = [t \in Slots |-> flow'[t]]
    BY DEF Remount
  <2> QED BY <2>1, <2>2
<1>8. FlowsFit'
  <2> SUFFICES ASSUME NEW t \in Slots PROVE FlowOK(flow[t])'
    BY <1>7 DEF FlowsFit
  <2>1. PICK h \in Flow : h = flow'[t] /\ FlowOK(h)
    BY <1>6
  <2>2. FlowOK(h)'
    BY <1>1, <2>1, FitsStill DEF Grows
  <2> QED BY <2>1, <2>2
<1>9. JobsTyped'
  BY <1>b, <1>1 DEF Base, JobsTyped
<1>10. Budget'
  <2>1. PICK S \in SUBSET Slots : S = Posting
    BY DEF Posting
  <2>2. PICK T \in SUBSET Slots : T = Posting'
    BY DEF Posting
  <2>3. /\ Cardinality(T) \in Nat /\ Cardinality(S) \in Nat
        /\ Cardinality(DOMAIN job) \in Nat /\ MaxJobs \in Nat
    BY <1>b, PostingIsFinite, JobsAre, PlaygroundAssumption DEF Base
  <2>4. \A t \in Slots : Posts(flow'[t]) => Posts(flow[t])
    BY <1>6
  <2>5. T \in SUBSET S
    BY <2>1, <2>2, <2>4 DEF Posting, Posts
  <2>6. Cardinality(T) <= Cardinality(S)
    BY <2>5, Fewer
  <2>7. Cardinality(DOMAIN job) + Cardinality(S) <= MaxJobs
    BY <1>b, <2>1 DEF Base, Budget
  <2>8. Cardinality(DOMAIN job) + Cardinality(T) <= MaxJobs
    BY <2>3, <2>6, <2>7
  <2> QED BY <1>1, <2>2, <2>8 DEF Budget
<1>11. ViewTyped'
  BY <1>b, <1>1, <1>2, NoResultTyped DEF Base, ViewTyped
<1>12. \A t \in Slots : /\ ~Asks(flow'[t])
                        /\ Lists(flow'[t]) => t = s
  <2>1. ~Asks(g)
    BY <1>4 DEF Asks
  <2> QED BY <1>6, <2>1
<1>13. /\ flow'[s] = g
       /\ key # NoKey => Lists(g)
       /\ Lists(flow'[s]) => g.cred = key /\ g.stage = "sent"
  <2>1. flow'[s] = g
    BY <1>6
  <2> QED BY <1>3, <1>4, <2>1 DEF Lists
<1>14. Spins'
  BY <1>1, <1>2, <1>13 DEF Spins, Lists
<1>15. LastAsked'
  <2>1. Good'
    BY <1>1 DEF Good
  <2> QED BY <1>12, <2>1 DEF LastAsked, Asks
<1>16. ListFits'
  <2>1. \A j \in Owned(key)' : j # NoJob
    BY <1>b, <1>1, JobsAre DEF Owned, Base
  <2>2. \A j : Seen(j)' => j = NoJob
    BY <1>1, <1>12, NoResultTyped DEF Seen, Asks
  <2>3. \A t \in Slots : Lists(flow'[t]) =>
          /\ flow'[t].cred = key' /\ flow'[t].stage = "sent"
    BY <1>1, <1>12, <1>13
  <2>4. \A t, u \in Slots : Lists(flow'[t]) /\ Lists(flow'[u]) => t = u
    BY <1>12
  <2> QED BY <1>1, <2>1, <2>2, <2>3, <2>4 DEF ListFits, Lists
<1> QED BY <1>8, <1>9, <1>10, <1>11, <1>14, <1>15, <1>16 DEF IInv, Base

-----------------------------------------------------------------------------
\* IInv holds at first ...
LEMMA InitEstablishes == Init => IInv
<1> SUFFICES ASSUME Init PROVE IInv
  OBVIOUS
<1>1. /\ job = <<>> /\ key \in KeyInputs
      /\ loading = FALSE /\ error = FALSE /\ result = NoResult /\ jobs = {}
      /\ overlapped = FALSE /\ stale = FALSE
  BY DEF Init
<1>2. jobsLoading \in BOOLEAN /\ (jobsLoading <=> key # NoKey)
  BY DEF Init
<1>3. PICK k \in KeyInputs : k = key
  BY <1>1
<1>4. PICK s \in Slots :
        flow = [t \in Slots |-> IF t = s /\ k # NoKey
                                THEN [Idle EXCEPT !.kind = "list", !.cred = k] ELSE Idle]
  BY <1>3 DEF Init
<1>5. PICK g \in Flow :
        /\ g = IF k # NoKey THEN [Idle EXCEPT !.kind = "list", !.cred = k] ELSE Idle
        /\ k # NoKey => g.kind = "list" /\ g.cred = k
        /\ k = NoKey => g.kind = "idle"
        /\ g.step = "list" /\ g.stage = "sent" /\ g.job = NoJob /\ g.rows = {} /\ ~g.left
  <2>1. CASE k = NoKey
    BY <2>1, IdleIsFlow
  <2>2. CASE k # NoKey
    <3> DEFINE g == [Idle EXCEPT !.kind = "list", !.cred = k]
    <3>1. /\ g \in Flow /\ g.kind = "list" /\ g.cred = k
          /\ g.step = "list" /\ g.stage = "sent" /\ g.job = NoJob /\ g.rows = {} /\ ~g.left
      BY IdleIsFlow DEF Flow
    <3> HIDE DEF g
    <3> QED BY <2>2, <3>1 DEF g
  <2> QED BY <2>1, <2>2
<1>6. flow = [t \in Slots |-> IF t = s THEN g ELSE Idle]
  BY <1>4, <1>5
<1>7. JobsTyped /\ DOMAIN job = {}
  <2>1. 0 \in 0..MaxJobs /\ 1..0 = {}
    BY PlaygroundAssumption
  <2>2. job \in [1..0 -> JobRec] /\ DOMAIN job = {}
    BY <1>1, <2>1
  <2> QED BY <2>1, <2>2 DEF JobsTyped
<1>8. FlowOK(g) /\ FlowOK(Idle)
  BY <1>5, IdleFits DEF FlowOK
<1>9. FlowsFit
  BY <1>6, <1>8, IdleIsFlow DEF FlowsFit
<1>10. Budget
  <2>1. Posting = {}
    BY <1>5, <1>6, IdleIsFlow DEF Posting
  <2>2. Cardinality(Posting) = 0 /\ Cardinality(DOMAIN job) = 0
    BY <1>7, <2>1, FS_EmptySet
  <2> QED BY <2>2, PlaygroundAssumption DEF Budget
<1>11. ViewTyped
  <2>1. /\ key \in KeyInputs /\ loading \in BOOLEAN /\ jobsLoading \in BOOLEAN
        /\ error \in BOOLEAN /\ overlapped \in BOOLEAN /\ stale \in BOOLEAN
    BY <1>1, <1>2
  <2> QED BY <1>1, <2>1, NoResultTyped DEF ViewTyped
<1>12. \A t \in Slots : /\ ~Asks(flow[t])
                        /\ Lists(flow[t]) => t = s /\ flow[t].stage = "sent" /\ flow[t].cred = key
  BY <1>3, <1>5, <1>6, IdleIsFlow DEF Asks, Lists
<1>13. Spins
  <2>1. key # NoKey => Lists(flow[s])
    BY <1>3, <1>5, <1>6 DEF Lists
  <2> QED BY <1>1, <1>2, <2>1 DEF Spins
<1>14. LastAsked
  BY <1>1, <1>12 DEF LastAsked, Good
<1>15. ListFits
  <2>1. Owned(key) = {}
    BY <1>7 DEF Owned
  <2> QED BY <1>1, <1>12, <2>1 DEF ListFits
<1> QED BY <1>7, <1>9, <1>10, <1>11, <1>13, <1>14, <1>15 DEF IInv, Base

\* ... and every step keeps it.
LEMMA NextPreserves == IInv /\ [Next]_vars => IInv'
<1> SUFFICES ASSUME IInv, [Next]_vars PROVE IInv'
  OBVIOUS
<1>1. ASSUME NEW s \in Slots, Visit(s) PROVE IInv'
  BY <1>1, RunStep, OpenStep, RefreshJobsStep, SaveKeyStep, RemountStep DEF Visit
<1>2. ASSUME NEW s \in Slots, Serve(s) PROVE IInv'
  BY <1>2, ServePostStep, ServeReadStep, ServeListStep DEF Serve
<1>3. ASSUME NEW s \in Slots, Receive(s) PROVE IInv'
  BY <1>3, ReceivePostStep, ReceivePollStep, ReceiveDetailStep, ReceiveListStep DEF Receive
<1> QED BY <1>1, <1>2, <1>3, IdleSteps, FinishStep, LoseStep DEF Next

\* The inductive invariant holds in every reachable state.
THEOREM Invariance == Spec => []IInv
BY InitEstablishes, NextPreserves, PTL DEF Spec

\* Every variable of the page keeps its type, and the runs it lists exist.
THEOREM TypeCorrect == Spec => []TypeOK
<1>1. IInv => TypeOK
  BY DEF IInv, Base, TypeOK, JobsTyped, ViewTyped, FlowsFit, JobRec
<1> QED BY <1>1, Invariance, PTL

\* The spinner that disables "Run", and that of the list, have a flow to wait
\* for.
THEOREM SpinnerAlwaysWaits == Spec => []SpinnerIsAWait
<1>1. IInv => SpinnerIsAWait
  BY DEF IInv, Spins, SpinnerIsAWait, Asks, Lists, Asking, Listing, Here, Free
<1> QED BY <1>1, Invariance, PTL

\* What a quiet page shows without an error is of what was asked last, unless a
\* run was opened during another.
THEOREM AnswerAlwaysOfLast == Spec => []AnswerIsOfLast
<1>1. IInv => AnswerIsOfLast
  BY DEF IInv, LastAsked, AnswerIsOfLast, Good, Asks, Asking, Here, Free
<1> QED BY <1>1, Invariance, PTL

\* The recent runs are those of the saved key, the one just shown among them.
THEOREM JobsAlwaysOfKey == Spec => []JobsOfKey
<1>1. IInv => JobsOfKey
  <2> SUFFICES ASSUME IInv, Listing = {}, ~stale
               PROVE  /\ jobs \subseteq Owned(key)
                      /\ result.job # NoJob /\ job[result.job].owner = key
                           => result.job \in jobs
    BY DEF JobsOfKey
  <2>1. \A s \in Slots : ~Lists(flow[s])
    BY DEF Listing, Lists, Here, Free
  <2>2. /\ jobs \subseteq Owned(key)
        /\ \A j \in Owned(key) : Seen(j) => j \in jobs
    BY <2>1 DEF IInv, ListFits
  <2>3. result.job # NoJob /\ job[result.job].owner = key => result.job \in Owned(key)
    BY DEF IInv, Base, ViewTyped, Owned
  <2> QED BY <2>2, <2>3 DEF Seen
<1> QED BY <1>1, Invariance, PTL

-----------------------------------------------------------------------------
(* That a handler ends, by a count of what it can still do: the polling gives *)
(* up for every patience, and whatever the server answers.                    *)

\* A request is sent, answered (an answer may yet break off), or has failed.
StagesLeft(f) ==
  CASE f.stage = "sent" -> 3 [] f.stage \in {"ok", "refused"} -> 2 [] f.stage = "failed" -> 1

\* The requests that may follow the present one.
RequestsLeft(f) ==
  CASE f.step = "list" -> 0
    [] f.step = "detail" -> 1
    [] f.step = "poll" -> 1 + (MaxPolls - f.polls)
    [] f.step = "post" -> 2 + MaxPolls

Ahead(f) == IF f.kind = "idle" THEN 0 ELSE 3 * RequestsLeft(f) + StagesLeft(f)

\* What is ahead of a handler is bounded, and nothing exactly when it has ended.
LEMMA AheadCounts ==
  ASSUME NEW f \in Flow
  PROVE  /\ Ahead(f) \in 0 .. 3 * (MaxPolls + 3)
         /\ Ahead(f) > 0 <=> f.kind # "idle"
<1>1. /\ f.step \in {"post", "poll", "detail", "list"}
      /\ f.stage \in {"sent", "ok", "refused", "failed"}
      /\ f.polls \in 0..(MaxPolls - 1)
  BY DEF Flow
<1>2. MaxPolls \in Nat \ {0}
  BY PlaygroundAssumption
<1>3. StagesLeft(f) \in 1..3
  BY <1>1 DEF StagesLeft
<1>4. RequestsLeft(f) \in 0 .. MaxPolls + 2
  BY <1>1, <1>2 DEF RequestsLeft
<1> QED BY <1>2, <1>3, <1>4 DEF Ahead

\* A request that is answered or breaks off.
LEMMA AnswerCounts ==
  ASSUME NEW f \in Flow, NEW g \in Flow, f.kind # "idle", g.kind = f.kind, g.step = f.step,
         g.polls = f.polls, StagesLeft(g) < StagesLeft(f)
  PROVE  Ahead(g) < Ahead(f)
<1>1. RequestsLeft(g) = RequestsLeft(f)
  BY DEF RequestsLeft
<1>2. /\ f.step \in {"post", "poll", "detail", "list"}
      /\ f.stage \in {"sent", "ok", "refused", "failed"}
      /\ g.stage \in {"sent", "ok", "refused", "failed"}
      /\ f.polls \in 0..(MaxPolls - 1) /\ MaxPolls \in Nat
  BY PlaygroundAssumption DEF Flow
<1>3. StagesLeft(f) \in 1..3 /\ StagesLeft(g) \in 1..3
  BY <1>2 DEF StagesLeft
<1>4. RequestsLeft(f) \in Int
  BY <1>2 DEF RequestsLeft
<1> QED BY <1>1, <1>3, <1>4 DEF Ahead

\* An answer that leads to the next request.
LEMMA NextCounts ==
  ASSUME NEW f \in Flow, NEW g \in Flow, f.kind # "idle", f.stage = "ok", g.stage = "sent",
         \/ f.step = "post" /\ g.step = "poll"
         \/ f.step = "poll" /\ g.step = "poll" /\ g.polls = f.polls + 1
         \/ f.step = "poll" /\ g.step = "detail"
         \/ f.step \in {"post", "detail"} /\ g.step = "list"
  PROVE  Ahead(g) < Ahead(f)
<1>1. /\ f.polls \in 0..(MaxPolls - 1) /\ g.polls \in 0..(MaxPolls - 1)
      /\ MaxPolls \in Nat \ {0}
  BY PlaygroundAssumption DEF Flow
<1>2. StagesLeft(f) = 2 /\ StagesLeft(g) = 3
  BY DEF StagesLeft
<1>3. RequestsLeft(f) \in Nat /\ RequestsLeft(g) \in Nat /\ RequestsLeft(g) < RequestsLeft(f)
  BY <1>1 DEF RequestsLeft
<1> QED BY <1>2, <1>3 DEF Ahead

\* A handler that ends.
LEMMA EndCounts ==
  ASSUME NEW f \in Flow, f.kind # "idle"
  PROVE  Ahead(Idle) < Ahead(f)
<1>1. Ahead(Idle) = 0
  BY IdleIsFlow DEF Ahead
<1>2. Ahead(f) \in Int /\ Ahead(f) > 0
  BY AheadCounts, PlaygroundAssumption
<1> QED BY <1>1, <1>2

\* Answer and Ends on the slot itself.
LEMMA AnswerIs ==
  ASSUME FlowsFit, NEW s \in Slots, NEW f, Answer(s, f)
  PROVE  flow'[s] \in {Idle, f}
BY DEF FlowsFit, Answer

LEMMA EndsIs ==
  ASSUME FlowsFit, NEW s \in Slots, Ends(s)
  PROVE  flow'[s] = Idle
BY DEF FlowsFit, Ends

\* The network and the server move a handler on.
LEMMA ServeCounts ==
  ASSUME FlowsFit, FlowsFit', NEW s \in Slots, Serve(s) \/ Lose(s)
  PROVE  ~Free(s) /\ Ahead(flow'[s]) < Ahead(flow[s])
<1>1. PICK f \in Flow, g \in Flow : f = flow[s] /\ g = flow'[s]
  BY DEF FlowsFit
<1>2. f.kind # "idle"
  BY <1>1 DEF Serve, ServePost, ServeRead, ServeList, Lose, Sent, Free
<1>3. CASE g = Idle
  BY <1>1, <1>2, <1>3, EndCounts DEF Free
<1>4. CASE g # Idle
  <2>1. CASE ServePost(s)
    <3>1. f.step = "post" /\ f.stage = "sent"
      BY <1>1, <2>1 DEF ServePost, Sent
    <3>2. PICK x \in {[f EXCEPT !.stage = "failed"], [f EXCEPT !.stage = "ok"],
                      [f EXCEPT !.stage = "ok", !.job = Cardinality(DOMAIN job) + 1]} :
            Answer(s, x)
      BY <1>1, <2>1, <3>1 DEF ServePost, Refuse
    <3>3. g \in {[f EXCEPT !.stage = "failed"], [f EXCEPT !.stage = "ok"],
                 [f EXCEPT !.stage = "ok", !.job = Cardinality(DOMAIN job) + 1]}
      BY <1>1, <1>4, <3>2, AnswerIs
    <3>4. /\ g.kind = f.kind /\ g.step = f.step /\ g.polls = f.polls
          /\ g.stage \in {"ok", "failed"}
      <4>1. CASE g = [f EXCEPT !.stage = "failed"]
        BY <4>1 DEF Flow
      <4>2. CASE g = [f EXCEPT !.stage = "ok"]
        BY <4>2 DEF Flow
      <4>3. CASE g = [f EXCEPT !.stage = "ok", !.job = Cardinality(DOMAIN job) + 1]
        BY <4>3 DEF Flow
      <4> QED BY <3>3, <4>1, <4>2, <4>3
    <3> QED BY <1>1, <1>2, <3>1, <3>4, AnswerCounts DEF StagesLeft, Free
  <2>2. CASE ServeRead(s)
    <3>1. f.step \in {"poll", "detail"} /\ f.stage = "sent"
      BY <1>1, <2>2 DEF ServeRead, Sent
    <3>2. PICK x \in {[f EXCEPT !.stage = "failed"],
                      [f EXCEPT !.stage = "ok", !.got = job[f.job].status]} :
            Answer(s, x)
      BY <1>1, <2>2, <3>1 DEF ServeRead, Refuse
    <3>3. g \in {[f EXCEPT !.stage = "failed"],
                 [f EXCEPT !.stage = "ok", !.got = job[f.job].status]}
      BY <1>1, <1>4, <3>2, AnswerIs
    <3>4. /\ g.kind = f.kind /\ g.step = f.step /\ g.polls = f.polls
          /\ g.stage \in {"ok", "failed"}
      BY <3>3 DEF Flow
    <3> QED BY <1>1, <1>2, <3>1, <3>4, AnswerCounts DEF StagesLeft, Free
  <2>3. CASE ServeList(s)
    <3>1. f.step = "list" /\ f.stage = "sent"
      BY <1>1, <2>3 DEF ServeList, Sent
    <3>2. PICK x \in {[f EXCEPT !.stage = "refused"],
                      [f EXCEPT !.stage = "ok", !.rows = Owned(f.cred)]} :
            Answer(s, x)
      BY <1>1, <2>3, <3>1 DEF ServeList, Refuse
    <3>3. g \in {[f EXCEPT !.stage = "refused"],
                 [f EXCEPT !.stage = "ok", !.rows = Owned(f.cred)]}
      BY <1>1, <1>4, <3>2, AnswerIs
    <3>4. /\ g.kind = f.kind /\ g.step = f.step /\ g.polls = f.polls
          /\ g.stage \in {"ok", "refused"}
      BY <3>3 DEF Flow
    <3> QED BY <1>1, <1>2, <3>1, <3>4, AnswerCounts DEF StagesLeft, Free
  <2>4. CASE Lose(s)
    <3>1. f.stage # "failed" /\ g = [f EXCEPT !.stage = "failed"]
      BY <1>1, <1>4, <2>4, AnswerIs DEF Lose
    <3>2. /\ g.kind = f.kind /\ g.step = f.step /\ g.polls = f.polls
          /\ g.stage = "failed"
          /\ f.stage \in {"sent", "ok", "refused"}
      BY <3>1 DEF Flow
    <3> QED BY <1>1, <1>2, <3>2, AnswerCounts DEF StagesLeft, Free
  <2> QED BY <2>1, <2>2, <2>3, <2>4 DEF Serve
<1> QED BY <1>3, <1>4

\* The page moves a handler on.
LEMMA ReceiveCounts ==
  ASSUME FlowsFit, FlowsFit', NEW s \in Slots, Receive(s)
  PROVE  ~Free(s) /\ Ahead(flow'[s]) < Ahead(flow[s])
<1>1. PICK f \in Flow, g \in Flow : f = flow[s] /\ g = flow'[s]
  BY DEF FlowsFit
<1>2. f.kind # "idle" /\ f.stage # "sent"
  BY <1>1 DEF Receive, ReceivePost, ReceivePoll, ReceiveDetail, ReceiveList, Answered, Here, Free
<1>3. CASE Ends(s)
  BY <1>1, <1>2, <1>3, EndsIs, EndCounts DEF Free
<1> PICK k : k = key
  OBVIOUS
<1>4. ASSUME NEW x, NEW step, flow' = [flow EXCEPT ![s] =
               [x EXCEPT !.step = step, !.stage = "sent", !.cred = k]]
      PROVE  g = [x EXCEPT !.step = step, !.stage = "sent", !.cred = k]
  BY <1>1, <1>4 DEF FlowsFit
<1>5. CASE Fails(s)
  BY <1>3, <1>5 DEF Fails
<1>6. CASE f.step \in {"post", "detail"} /\ f.stage = "ok" /\ ThenList(s)
  <2>1. Ends(s) \/ g = [f EXCEPT !.step = "list", !.stage = "sent", !.cred = k]
    <3>1. Ends(s) \/ Refreshes(s, f, k)
      BY <1>1, <1>6 DEF ThenList
    <3> QED BY <1>4, <3>1 DEF Refreshes
  <2>2. CASE g = [f EXCEPT !.step = "list", !.stage = "sent", !.cred = k]
    <3>1. g.step = "list" /\ g.stage = "sent"
      BY <2>2 DEF Flow
    <3> QED BY <1>1, <1>2, <1>6, <3>1, NextCounts DEF Free
  <2> QED BY <1>3, <2>1, <2>2
<1>7. CASE ReceivePost(s)
  <2>1. f.step = "post"
    BY <1>1, <1>7 DEF ReceivePost, Answered
  <2>2. CASE f.stage # "ok"
    BY <1>1, <1>5, <1>7, <2>2 DEF ReceivePost
  <2>3. CASE f.stage = "ok" /\ f.kind = "crawl"
    <3>1. g = [f EXCEPT !.step = "poll", !.stage = "sent", !.cred = k]
      <4>1. Sends(s, f, "poll")
        BY <1>1, <1>7, <2>3 DEF ReceivePost
      <4> QED BY <1>4, <4>1 DEF Sends
    <3>2. g.step = "poll" /\ g.stage = "sent"
      BY <3>1 DEF Flow
    <3> QED BY <1>1, <1>2, <2>1, <2>3, <3>2, NextCounts DEF Free
  <2>4. CASE f.stage = "ok" /\ f.kind # "crawl"
    BY <1>1, <1>6, <1>7, <2>1, <2>4 DEF ReceivePost
  <2> QED BY <2>2, <2>3, <2>4
<1>8. CASE ReceivePoll(s)
  <2>1. f.step = "poll"
    BY <1>1, <1>8 DEF ReceivePoll, Answered
  <2>2. CASE Fails(s)
    BY <1>5, <2>2
  <2>3. CASE f.stage = "ok" /\ Sends(s, [f EXCEPT !.polls = 0], "detail")
    <3>1. PICK x : x = [f EXCEPT !.polls = 0]
      OBVIOUS
    <3>2. g = [x EXCEPT !.step = "detail", !.stage = "sent", !.cred = k]
      BY <1>4, <2>3, <3>1 DEF Sends
    <3>3. g.step = "detail" /\ g.stage = "sent"
      BY <3>1, <3>2 DEF Flow
    <3> QED BY <1>1, <1>2, <2>1, <2>3, <3>3, NextCounts DEF Free
  <2>4. CASE f.stage = "ok" /\ Again(s, f)
    <3>1. PICK x : x = [f EXCEPT !.polls = f.polls + 1]
      OBVIOUS
    <3>2. g = [x EXCEPT !.step = "poll", !.stage = "sent", !.cred = k]
      BY <1>4, <2>4, <3>1 DEF Again, Sends
    <3>3. g.step = "poll" /\ g.stage = "sent" /\ g.polls = f.polls + 1
      BY <3>1, <3>2 DEF Flow
    <3> QED BY <1>1, <1>2, <2>1, <2>4, <3>3, NextCounts DEF Free
  <2>5. Fails(s) \/ (f.stage = "ok" /\ (Sends(s, [f EXCEPT !.polls = 0], "detail") \/ Again(s, f)))
    BY <1>1, <1>8 DEF ReceivePoll
  <2> QED BY <2>2, <2>3, <2>4, <2>5
<1>9. CASE ReceiveDetail(s)
  <2>1. f.step = "detail"
    BY <1>1, <1>9 DEF ReceiveDetail, Answered
  <2>2. Fails(s) \/ Ends(s) \/ (f.stage = "ok" /\ ThenList(s))
    BY <1>1, <1>9 DEF ReceiveDetail
  <2> QED BY <1>3, <1>5, <1>6, <2>1, <2>2
<1>10. CASE ReceiveList(s)
  BY <1>3, <1>10 DEF ReceiveList
<1> QED BY <1>7, <1>8, <1>9, <1>10 DEF Receive

\* What else happens takes nothing back: a handler under way has as much ahead as
\* before, or its page was left and it has ended.
LEMMA OthersCount ==
  ASSUME FlowsFit, [Next]_vars, NEW t \in Slots, ~Free(t),
         ~(Serve(t) \/ Lose(t) \/ Receive(t))
  PROVE  flow'[t] = Idle \/ Ahead(flow'[t]) = Ahead(flow[t])
<1>1. PICK f \in Flow : f = flow[t] /\ f.kind # "idle"
  BY DEF FlowsFit, Free
<1>2. ASSUME NEW g, g = [f EXCEPT !.last = FALSE] \/ g = [f EXCEPT !.left = TRUE, !.last = FALSE]
      PROVE  Ahead(g) = Ahead(f)
  <2>1. g.kind = f.kind /\ g.step = f.step /\ g.stage = f.stage /\ g.polls = f.polls
    BY <1>2 DEF Flow
  <2> QED BY <2>1 DEF Ahead, RequestsLeft, StagesLeft
<1>3. CASE flow'[t] = flow[t]
  BY <1>3
<1>4. CASE RunRefused \/ (\E j \in DOMAIN job : Finish(j)) \/ UNCHANGED vars
  BY <1>3, <1>4 DEF RunRefused, Finish, vars
<1>5. ASSUME NEW s \in Slots, Visit(s) PROVE flow'[t] = Idle \/ Ahead(flow'[t]) = Ahead(flow[t])
  <2>1. ASSUME Free(s) PROVE t # s
    BY <2>1
  <2>2. ASSUME NEW x, Asked(s, x), t # s PROVE flow'[t] = [f EXCEPT !.last = FALSE]
    BY <1>1, <2>2 DEF Asked
  <2>3. CASE (\E kind \in Runs : Run(s, kind)) \/ (\E j \in RecentRuns : Open(s, j))
    <3>1. t # s /\ \E x : Asked(s, x)
      BY <2>1, <2>3 DEF Run, Open
    <3> QED BY <1>1, <1>2, <2>2, <3>1
  <2>4. CASE RefreshJobs(s) \/ (\E k \in KeyInputs : SaveKey(s, k))
    BY <1>3, <2>1, <2>4 DEF RefreshJobs, SaveKey, Refreshes, FlowsFit
  <2>5. CASE Remount(s)
    <3>1. flow'[t] \in {Idle, [f EXCEPT !.left = TRUE, !.last = FALSE]}
      BY <1>1, <2>1, <2>5 DEF Remount
    <3> QED BY <1>1, <1>2, <3>1
  <2> QED BY <1>5, <2>3, <2>4, <2>5 DEF Visit
<1>6. ASSUME NEW s \in Slots, Serve(s) \/ Lose(s) \/ Receive(s) PROVE flow'[t] = flow[t]
  <2>1. t # s
    BY <1>6
  <2>2. ASSUME NEW g, flow' = [flow EXCEPT ![s] = g] PROVE flow'[t] = flow[t]
    BY <2>1, <2>2 DEF FlowsFit
  <2>3. CASE Serve(s) \/ Lose(s)
    <3>1. \E x : Answer(s, x)
      BY <2>3 DEF Serve, ServePost, ServeRead, ServeList, Lose, Refuse
    <3> QED BY <2>2, <3>1 DEF Answer
  <2>4. CASE Receive(s)
    BY <2>2, <2>4 DEF Receive, ReceivePost, ReceivePoll, ReceiveDetail, ReceiveList,
       Fails, Ends, Sends, Again, ThenList, Refreshes
  <2> QED BY <1>6, <2>3, <2>4
<1> QED BY <1>3, <1>4, <1>5, <1>6 DEF Next

\* A handler has at most three steps ahead for each poll the page's patience allows and
\* for three requests more, and some exactly while it is under way.
HandlersBounded ==
  \A s \in Slots : /\ Ahead(flow[s]) \in 0 .. 3 * (MaxPolls + 3)
                   /\ ~Free(s) <=> Ahead(flow[s]) > 0

\* Every step of its request, lost or answered, and of the page that handles the answer
\* uses up one of them, and nothing gives one back, neither the visitor nor another
\* handler nor a job that never finishes (pollJob's maxMs).
HandlersDwindle ==
  \A s \in Slots : ~Free(s) =>
    /\ Ahead(flow'[s]) <= Ahead(flow[s])
    /\ Serve(s) \/ Lose(s) \/ Receive(s) => Ahead(flow'[s]) < Ahead(flow[s])

\* Every handler comes to its end within a number of its steps that only the patience
\* of the polling sets (runScrape, runMap, runCrawl, pollJob, loadJob, refreshJobs).
THEOREM HandlersEnd == Spec => []HandlersBounded /\ [][HandlersDwindle]_vars
<1>1. IInv => FlowsFit
  BY DEF IInv, Base
<1>2. FlowsFit => HandlersBounded
  BY AheadCounts DEF FlowsFit, HandlersBounded, Free
<1>3. FlowsFit /\ FlowsFit' /\ [Next]_vars => [HandlersDwindle]_vars
  <2> SUFFICES ASSUME FlowsFit, FlowsFit', [Next]_vars, NEW s \in Slots, ~Free(s)
               PROVE  /\ Ahead(flow'[s]) <= Ahead(flow[s])
                      /\ Serve(s) \/ Lose(s) \/ Receive(s) => Ahead(flow'[s]) < Ahead(flow[s])
    BY DEF HandlersDwindle
  <2>1. flow[s] \in Flow /\ flow'[s] \in Flow
    BY DEF FlowsFit
  <2>2. Ahead(flow[s]) \in Int /\ Ahead(flow'[s]) \in Int
    BY <2>1, AheadCounts, PlaygroundAssumption
  <2>3. CASE Serve(s) \/ Lose(s) \/ Receive(s)
    BY <2>2, <2>3, ServeCounts, ReceiveCounts
  <2>4. CASE ~(Serve(s) \/ Lose(s) \/ Receive(s))
    <3>1. flow'[s] = Idle \/ Ahead(flow'[s]) = Ahead(flow[s])
      BY <2>4, OthersCount
    <3>2. flow[s].kind # "idle"
      BY DEF Free
    <3> QED BY <2>1, <2>2, <2>4, <3>1, <3>2, EndCounts
  <2> QED BY <2>3, <2>4
<1> QED BY <1>1, <1>2, <1>3, Invariance, PTL DEF Spec
=============================================================================
