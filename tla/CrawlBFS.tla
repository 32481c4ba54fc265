------------------------------ MODULE CrawlBFS ------------------------------
(***************************************************************************)
(* One crawl: crawl_bfs_iter of scraping_engine.  The generator's own      *)
(* thread keeps the frontier and collects finished fetches; the pool's     *)
(* threads fetch one URL each behind a semaphore and a delay lock per      *)
(* host, both taken out of defaultdicts that the threads share without a   *)
(* lock.  The consumer of the generator may stop it at every page.         *)
(*                                                                         *)
(* URLs stand for normalised URLs.  Which page links where is chosen once, *)
(* in Init; the order in which a page lists its links is left open.        *)
(***************************************************************************)
EXTENDS Integers, Sequences, FiniteSets, SequencesExt

CONSTANTS
  URLs, NoUrl,
  Seed,
  Host, HostOf,  \* hosts; [URLs -> Host]
  Sites,         \* the link graphs to consider: a set of [URLs -> SUBSET URLs]
  InScope,       \* URLs that same_site accepts
  Disallowed,    \* URLs that robots.txt excludes
  AskedLimit, AskedDepth,  \* limit and maxDepth of the request
  GlobalCap, AskedHostCap  \* CRAWL_GLOBAL_CONCURRENCY, CRAWL_PER_HOST_CONCURRENCY

Gates == {"sem", "lock"}  \* host_sems, host_locks

ASSUME Constants ==
  /\ IsFiniteSet(URLs) /\ NoUrl \notin URLs /\ Seed \in URLs
  /\ HostOf \in [URLs -> Host]
  /\ Sites \subseteq [URLs -> SUBSET URLs]
  /\ InScope \subseteq URLs /\ Disallowed \subseteq URLs
  /\ AskedLimit \in Int /\ AskedDepth \in Int
  /\ GlobalCap \in Nat \ {0} /\ AskedHostCap \in Nat \ {0}

\* dispatch_job: `payload.get("limit") or 100`, then crawl_site_streaming's
\* min(max(1, limit), 500).
Limit == LET n == IF AskedLimit = 0 THEN 100 ELSE AskedLimit
         IN  IF n < 1 THEN 1 ELSE IF n > 500 THEN 500 ELSE n

\* dispatch_job: `payload.get("max_depth") or 2`, then max(0, maxDepth).
MaxDepth == LET n == IF AskedDepth = 0 THEN 2 ELSE AskedDepth
            IN  IF n < 0 THEN 0 ELSE n

HostCap == IF AskedHostCap < GlobalCap THEN AskedHostCap ELSE GlobalCap

Permits(g) == IF g = "sem" THEN HostCap ELSE 1

VARIABLES
  site,      \* who links to whom
  phase,     \* of the generator: "loop", then "ending" or "closing" (the pool
             \* shuts down), then "done" or "closed"
  queue,     \* the frontier: [url, depth]
  seen, queued,
  inFlight,  \* in_flight: URLs submitted and not collected
  depth,     \* their depths
  batch,     \* `done`: what wait() returned and is not yet collected
  pages,     \* the pages yielded, [url, depth]; count is their number
  errors,    \* URLs that errors reports
  \* the pool's threads, named by the URL they fetch
  step, gate,  \* where a thread is, and at which gate
  table,       \* [Gates -> [Host -> the object stored, named by its maker]]
  mine,        \* [Gates -> [URLs -> the object the thread got]]
  permits      \* [Gates -> [URLs -> permits left in the object that URL made]]

main == <<site, phase, queue, seen, queued, inFlight, depth, batch, pages, errors>>
pool == <<step, gate, table, mine, permits>>
vars == <<main, pool>>

count == Len(pages)
Got == {pages[i].url : i \in DOMAIN pages}
Entry == [url : URLs, depth : 0..MaxDepth]
Active == {u \in URLs : step[u] \notin {"idle", "ok", "err"}}

TypeOK ==
  /\ site \in Sites
  /\ phase \in {"loop", "ending", "closing", "done", "closed"}
  /\ queue \in Seq(Entry) /\ pages \in Seq(Entry)
  /\ seen \in SUBSET URLs /\ queued \in SUBSET URLs /\ errors \in SUBSET URLs
  /\ inFlight \in SUBSET URLs /\ batch \in SUBSET inFlight
  /\ depth \in [URLs -> 0..MaxDepth]
  /\ step \in [URLs -> {"idle", "look", "make", "wait", "delay", "fetch", "ok", "err"}]
  /\ gate \in [URLs -> Gates]
  /\ table \in [Gates -> [Host -> URLs \cup {NoUrl}]]
  /\ mine \in [Gates -> [URLs -> URLs \cup {NoUrl}]]
  /\ permits \in [Gates -> [URLs -> Nat]]

Init ==
  /\ site \in Sites
  /\ phase = "loop"
  /\ queue = <<[url |-> Seed, depth |-> 0]>>
  /\ seen = {} /\ queued = {Seed}
  /\ inFlight = {} /\ depth = [u \in URLs |-> 0] /\ batch = {}
  /\ pages = <<>> /\ errors = {}
  /\ step = [u \in URLs |-> "idle"] /\ gate = [u \in URLs |-> "sem"]
  /\ table = [g \in Gates |-> [h \in Host |-> NoUrl]]
  /\ mine = [g \in Gates |-> [u \in URLs |-> NoUrl]]
  /\ permits = [g \in Gates |-> [u \in URLs |-> Permits(g)]]

----------------------------------------------------------------------------
(* The generator's thread. *)

\* Mutant: `count < limit` alone bounds the submissions.
RoomMutantNoBudget ==
  queue # <<>> /\ Cardinality(inFlight) < GlobalCap /\ count < Limit

\* The inner while: as many fetches as the caps and the page budget leave.
Room == /\ queue # <<>>
        /\ Cardinality(inFlight) < GlobalCap
        /\ count + Cardinality(inFlight) < Limit

Submit(u, d) ==
  /\ inFlight' = inFlight \cup {u}
  /\ depth' = [depth EXCEPT ![u] = d]
  /\ step' = [step EXCEPT ![u] = "look"]

\* Take the head of the frontier, and submit it unless it was seen, is too deep
\* or is disallowed.
Pop ==
  LET u == Head(queue).url
      d == Head(queue).depth
  IN /\ phase = "loop" /\ batch = {} /\ Room
     /\ queue' = Tail(queue)
     /\ seen' = seen \cup {u}
     /\ IF u \in seen \/ d > MaxDepth
          THEN UNCHANGED <<inFlight, depth, errors, step>>
          ELSE IF u \in Disallowed
            THEN errors' = errors \cup {u} /\ UNCHANGED <<inFlight, depth, step>>
            ELSE Submit(u, d) /\ UNCHANGED errors
     /\ UNCHANGED <<site, phase, queued, batch, pages, gate, table, mine, permits>>

\* wait(..., FIRST_COMPLETED): everything that is finished when it returns.
Wait ==
  /\ phase = "loop" /\ batch = {} /\ ~Room /\ count < Limit
  /\ batch' = {u \in inFlight : step[u] \in {"ok", "err"}}
  /\ batch' # {}
  /\ UNCHANGED <<site, phase, queue, seen, queued, inFlight, depth, pages, errors,
                 pool>>

\* Mutant: off by one, the last level is not followed.
FollowedMutant(u) == depth[u] + 1 < MaxDepth /\ count + 1 < Limit

\* Are the links of the page u, now yielded, put on the frontier?
Followed(u) == depth[u] < MaxDepth /\ count + 1 < Limit

\* The links of u that are in scope and new, in whatever order the page has.
Fresh(u) ==
  IF Followed(u) THEN (site[u] \cap InScope) \ (seen \cup queued) ELSE {}

\* Mutant: the links get the depth of their page.
EntriesMutant(s, d) == [i \in DOMAIN s |-> [url |-> s[i], depth |-> d - 1]]

Entries(s, d) == [i \in DOMAIN s |-> [url |-> s[i], depth |-> d]]

Collected(u) == batch' = batch \ {u} /\ inFlight' = inFlight \ {u}

\* Mutant: the future stays in in_flight.
CollectPageMutantKeeps(u) ==
  /\ phase = "loop" /\ u \in batch /\ step[u] = "ok" /\ count < Limit
  /\ batch' = batch \ {u}
  /\ pages' = Append(pages, [url |-> u, depth |-> depth[u]])
  /\ \E s \in SetToSeqs(Fresh(u)) : queue' = queue \o Entries(s, depth[u] + 1)
  /\ queued' = queued \cup Fresh(u)
  /\ UNCHANGED <<site, phase, seen, inFlight, depth, errors, pool>>

\* A page: yielded, then its links are queued.
CollectPage(u) ==
  /\ phase = "loop" /\ u \in batch /\ step[u] = "ok" /\ count < Limit
  /\ Collected(u)
  /\ pages' = Append(pages, [url |-> u, depth |-> depth[u]])
  /\ \E s \in SetToSeqs(Fresh(u)) : queue' = queue \o Entries(s, depth[u] + 1)
  /\ queued' = queued \cup Fresh(u)
  /\ UNCHANGED <<site, phase, seen, depth, errors, pool>>

\* Mutant: the except clause drops the URL without a word in errors.
CollectNothingMutantSilent(u) ==
  /\ phase = "loop" /\ u \in batch
  /\ step[u] = "err" \/ count >= Limit
  /\ Collected(u)
  /\ UNCHANGED <<site, phase, queue, seen, queued, depth, pages, errors, pool>>

\* A failed fetch, or a page beyond the budget, which is dropped.
CollectNothing(u) ==
  /\ phase = "loop" /\ u \in batch
  /\ step[u] = "err" \/ count >= Limit
  /\ Collected(u)
  /\ errors' = IF step[u] = "err" THEN errors \cup {u} ELSE errors
  /\ UNCHANGED <<site, phase, queue, seen, queued, depth, pages, pool>>

\* The page is yielded and the consumer, or the extraction of its links,
\* raises: the generator is closed where it stands.
Abandon(u) ==
  /\ phase = "loop" /\ u \in batch /\ step[u] = "ok" /\ count < Limit
  /\ phase' = "closing"
  /\ Collected(u)
  /\ pages' = Append(pages, [url |-> u, depth |-> depth[u]])
  /\ UNCHANGED <<site, queue, seen, queued, depth, errors, pool>>

\* The outer while ends, or breaks with nothing in flight.
Leave ==
  /\ phase = "loop" /\ batch = {}
  /\ count >= Limit \/ (inFlight = {} /\ ~Room)
  /\ phase' = "ending"
  /\ UNCHANGED <<site, queue, seen, queued, inFlight, depth, batch, pages, errors,
                 pool>>

\* The executor's __exit__ waits for its threads; then "done" is yielded.
Shutdown ==
  /\ phase \in {"ending", "closing"} /\ Active = {}
  /\ phase' = IF phase = "ending" THEN "done" ELSE "closed"
  /\ UNCHANGED <<site, queue, seen, queued, inFlight, depth, batch, pages, errors,
                 pool>>

----------------------------------------------------------------------------
(* A thread of the pool: _fetch_one. *)

Goto(u, s) == step' = [step EXCEPT ![u] = s]

\* Mutant: the object is never found where it was stored.
LookMutantMisses(u) ==
  /\ step[u] = "look"
  /\ Goto(u, "make") /\ UNCHANGED mine
  /\ UNCHANGED <<main, gate, table, permits>>

\* host_sems[host], host_locks[host]: found, or __missing__ is called.
Look(u) ==
  LET object == table[gate[u]][HostOf[u]]
  IN /\ step[u] = "look"
     /\ IF object # NoUrl
          THEN mine' = [mine EXCEPT ![gate[u]][u] = object] /\ Goto(u, "wait")
          ELSE Goto(u, "make") /\ UNCHANGED mine
     /\ UNCHANGED <<main, gate, table, permits>>

\* __missing__ made an object, stores it, over any other thread's, and
\* returns it.
Make(u) ==
  /\ step[u] = "make"
  /\ table' = [table EXCEPT ![gate[u]][HostOf[u]] = u]
  /\ mine' = [mine EXCEPT ![gate[u]][u] = u]
  /\ Goto(u, "wait")
  /\ UNCHANGED <<main, gate, permits>>

\* acquire: the semaphore, then the lock.
Acquire(u) ==
  LET object == mine[gate[u]][u]
  IN /\ step[u] = "wait" /\ permits[gate[u]][object] > 0
     /\ permits' = [permits EXCEPT ![gate[u]][object] = @ - 1]
     /\ IF gate[u] = "sem" THEN gate' = [gate EXCEPT ![u] = "lock"] /\ Goto(u, "look")
                           ELSE Goto(u, "delay") /\ UNCHANGED gate
     /\ UNCHANGED <<main, table, mine>>

Release(u, g) == permits' = [permits EXCEPT ![g][mine[g][u]] = @ + 1]

\* The politeness delay is over, the lock is released.
Delay(u) ==
  /\ step[u] = "delay"
  /\ Release(u, "lock") /\ Goto(u, "fetch")
  /\ UNCHANGED <<main, gate, table, mine>>

\* Mutant: no `finally`, the semaphore is kept when the fetch raises.
FetchMutantNoFinally(u) ==
  /\ step[u] = "fetch"
  /\ \/ Release(u, "sem") /\ Goto(u, "ok")
     \/ UNCHANGED permits /\ Goto(u, "err")
  /\ UNCHANGED <<main, gate, table, mine>>

\* The fetch succeeds or raises; the semaphore is released either way.
Fetch(u) ==
  /\ step[u] = "fetch"
  /\ Release(u, "sem")
  /\ Goto(u, "ok") \/ Goto(u, "err")
  /\ UNCHANGED <<main, gate, table, mine>>

----------------------------------------------------------------------------
Main ==
  \/ Pop
  \/ Wait
  \/ \E u \in URLs : CollectPage(u) \/ CollectNothing(u) \/ Abandon(u)
  \/ Leave
  \/ Shutdown

Thread(u) ==
  \/ Look(u)
  \/ Make(u)
  \/ Acquire(u)
  \/ Delay(u)
  \/ Fetch(u)

Next == Main \/ \E u \in URLs : Thread(u)

Spec == Init /\ [][Next]_vars

\* Threads are scheduled, and every fetch ends: it has a timeout and a bounded
\* number of retries.
FairSpec == Spec /\ WF_vars(Main) /\ \A u \in URLs : WF_vars(Thread(u))

----------------------------------------------------------------------------
\* The ways to u of n links, from the seed on, within the scope of the crawl.
Paths(u, n) ==
  {p \in [0..n -> URLs] :
     /\ p[0] = Seed /\ p[n] = u
     /\ \A i \in 1..n : p[i] \in site[p[i - 1]] \cap InScope}

Within(n) == {u \in URLs : \E k \in 0..n : Paths(u, k) # {}}

\* No page is yielded twice, whatever links to it (test_crawl_deduplicates_urls).
PagesDistinct ==
  \A i, k \in DOMAIN pages : pages[i].url = pages[k].url => i = k

\* The budget is not only kept, it is kept without waste: no fetch is under way
\* or finished whose page the crawl will not want, so that ending never waits for
\* one and `count >= limit` drops none.
BudgetExact ==
  /\ count + Cardinality(inFlight) <= Limit
  /\ phase \in {"ending", "done"} => inFlight = {} /\ Active = {}

\* Every URL that was ever queued is yielded or reported when the crawl ends
\* before its limit: nothing is lost between frontier, pool and batch.
NothingLost ==
  phase = "done" /\ count < Limit => queued \subseteq Got \cup errors

\* A page's depth, stored in its results row, is the length of a path of links
\* that leads to it, and within the crawl's.
DepthIsAPath ==
  \A i \in DOMAIN pages : /\ pages[i].depth <= MaxDepth
                          /\ Paths(pages[i].url, pages[i].depth) # {}

\* A crawl that ends below its limit and without errors has every page within
\* its depth.
CoversDepth ==
  phase = "done" /\ count < Limit /\ errors = {} => Within(MaxDepth) \subseteq Got

\* That holds up to depth 2, the default, whatever the order of the answers
\* (deeper, see CrawlDeepOrder.cfg).
CoversShallow == MaxDepth <= 2 => CoversDepth

\* Threads past the semaphore of h, and those in its delay.
InGate(h) == {u \in Active : HostOf[u] = h /\ gate[u] = "lock"}
InDelay(h) == {u \in URLs : HostOf[u] = h /\ step[u] = "delay"}

HostBounded(h) ==
  Cardinality(InGate(h)) <= HostCap /\ Cardinality(InDelay(h)) <= 1

\* The seed's host is fetched within its cap and its delays one after the
\* other: the seed is fetched alone, so its threads find one semaphore and one
\* lock.
SeedHostBounded == HostBounded(HostOf[Seed])

\* The crawl ends: no thread waits for ever at a gate and the generator never
\* waits for a future that does not come.
CrawlEnds == <>(phase \in {"done", "closed"})

----------------------------------------------------------------------------
(* What the repository says and the code does not keep. *)

\* crawl_bfs_iter: "Caps via ... CRAWL_PER_HOST_CONCURRENCY", on every host.
EveryHostBounded == \A h \in Host : Cardinality(InGate(h)) <= HostCap
=============================================================================
