----------------------------- MODULE FetchLadder -----------------------------
(***************************************************************************)
(* Fetching pages of one domain: fetch_with_retries of scraping_engine     *)
(* around fetch_with_strategy, which climbs a ladder of tiers, from a local*)
(* fetch to ever dearer ones of a paid provider, and remembers the tier    *)
(* that worked for the domain: in a dict of the process, which its threads *)
(* share without a lock, and in Redis, which the processes share.          *)
(***************************************************************************)
EXTENDS Integers, Sequences, FiniteSets

CONSTANTS
  Threads,   \* threads that fetch, one page after the other
  Procs, ProcOf,  \* API and worker processes; [Threads -> Procs]
  Paid,      \* threads that may use a provider: it has a key, the host is public
  Usable,    \* tiers at which the domain may give a usable page
  Retries    \* [Threads -> max_retries]: 3 for a page, 2 for a sitemap

\* TIER_ORDER, by index.
Local == 0
Static == 1
Js == 2
Asp == 3
Residential == 4
Tiers == Local..Residential
NoTier == 5

ASSUME Constants ==
  /\ ProcOf \in [Threads -> Procs]
  /\ Paid \subseteq Threads
  /\ Usable \subseteq Tiers
  /\ Retries \in [Threads -> Nat \ {0}]

VARIABLES
  \* the domain's profile
  memory, fresh,  \* [Procs -> tier or NoTier]; is its expiry still to come
  redis,          \* the tier in Redis, or NoTier
  \* the threads
  at,       \* where each is
  round,    \* attempts of fetch_with_retries, the present one included
  tier,     \* `current`; between two reads of the profile, what was found
  tried,    \* `attempts` of the present call
  hit,      \* profile_hit
  worked    \* history: tiers that gave a usable page

profile == <<memory, fresh, redis>>
vars == <<profile, at, round, tier, tried, hit, worked>>

TypeOK ==
  /\ memory \in [Procs -> Tiers \cup {NoTier}] /\ fresh \in [Procs -> BOOLEAN]
  /\ redis \in Tiers \cup {NoTier}
  /\ at \in [Threads -> {"idle", "single", "memory", "pop", "redis", "warm",
                         "start", "run", "store", "publish", "done", "failed"}]
  /\ round \in [Threads -> Nat]
  /\ tier \in [Threads -> Tiers \cup {NoTier}]
  /\ tried \in [Threads -> Seq(Tiers)] /\ hit \in [Threads -> BOOLEAN]
  /\ worked \in SUBSET Tiers

Init ==
  /\ memory = [p \in Procs |-> NoTier] /\ fresh = [p \in Procs |-> FALSE]
  /\ redis = NoTier
  /\ at = [t \in Threads |-> "idle"] /\ round = [t \in Threads |-> 1]
  /\ tier = [t \in Threads |-> NoTier] /\ tried = [t \in Threads |-> <<>>]
  /\ hit = [t \in Threads |-> FALSE]
  /\ worked = {}

----------------------------------------------------------------------------
(* What a fetch may come to, and what classify_fetch makes of it. *)

Outcomes == {"rich",    \* a page with text
             "thin",    \* a page that wants JavaScript
             "wall",    \* a challenge page
             "gone",    \* 404, 410 or another client error
             "denied",  \* 401, 403
             "busy",    \* 429
             "broken",  \* 5xx
             "down",    \* no answer
             "token"}   \* the provider rejects its key

Verdict(o) ==
  CASE o = "rich" -> "ok"
    [] o = "thin" -> "needs_js"
    [] o = "gone" -> "terminal"
    [] o \in {"wall", "denied", "busy"} -> "bot_wall"
    [] o \in {"broken", "down", "token"} -> "soft_fail"

Status(o) ==
  CASE o \in {"rich", "thin", "wall"} -> 200
    [] o = "gone" -> 404
    [] o \in {"denied", "token"} -> 403
    [] o = "busy" -> 429
    [] o \in {"broken", "down"} -> 502

\* Does it come as an exception?  Local fetches raise only without an answer;
\* the providers differ on challenges, 401, 429 and 5xx.
Raises(t, o) ==
  CASE o = "down" -> {TRUE}
    [] t = Local \/ o \in {"rich", "thin", "gone"} -> {FALSE}
    [] o = "token" -> {TRUE}
    [] OTHER -> BOOLEAN

\* What tier t may come to.
Possible(t) == Outcomes \ ((IF t = Local THEN {"token"} ELSE {})
                             \cup (IF t \in Usable THEN {} ELSE {"rich"}))

Highest(a, b) == IF a > b THEN a ELSE b

\* Mutant: no `max(idx + 1, t_idx)`.
NextTierMutant(v, t) ==
  CASE v \in {"ok", "terminal"} -> NoTier
    [] v = "soft_fail" -> Static
    [] v = "needs_js" -> Js
    [] v = "bot_wall" -> IF t = Asp THEN Residential ELSE Asp

\* _next_tier_for a caller with a provider; NoTier past the last.
NextTier(v, t) ==
  CASE v \in {"ok", "terminal"} -> NoTier
    [] v = "soft_fail" -> Highest(t + 1, Static)
    [] v = "needs_js" -> Highest(t + 1, Js)
    [] v = "bot_wall" -> Highest(t + 1, Asp)

----------------------------------------------------------------------------
Goto(t, step) == at' = [at EXCEPT ![t] = step]

\* A new page.  FETCH_ESCALATE=false or a tier the client chose (renderJs, asp,
\* proxyPool) switches the ladder off.
Begin(t) ==
  /\ at[t] \in {"idle", "done", "failed"}
  /\ Goto(t, "single") \/ Goto(t, "memory")
  /\ round' = [round EXCEPT ![t] = 1]
  /\ tried' = [tried EXCEPT ![t] = <<>>]
  /\ hit' = [hit EXCEPT ![t] = FALSE]
  /\ UNCHANGED <<profile, tier, worked>>

\* fetch_with_retries: which ends of a call are worth another one.
Retried(status, raised) == status >= 500 \/ (status = 429 /\ ~raised)

PaidIn(ran) == Cardinality({i \in DOMAIN ran : ran[i] # Local})

\* Mutant: the attempt is not counted.
CallEndsMutant(t, first, ran, status, raised) ==
  /\ hit' = [hit EXCEPT ![t] = FALSE]
  /\ tier' = [tier EXCEPT ![t] = NoTier]
  /\ tried' = [tried EXCEPT ![t] = <<>>]
  /\ Goto(t, IF Retried(status, raised) THEN first ELSE "failed")
  /\ UNCHANGED round

\* fetch_with_strategy, begun at step `first`, has raised or returned what the
\* last of the tiers `ran` gave.
CallEnds(t, first, ran, status, raised) ==
  /\ hit' = [hit EXCEPT ![t] = FALSE]
  /\ tier' = [tier EXCEPT ![t] = NoTier]
  /\ \/ /\ Retried(status, raised) /\ round[t] < Retries[t]
        /\ Goto(t, first)
        /\ round' = [round EXCEPT ![t] = @ + 1]
        /\ tried' = [tried EXCEPT ![t] = <<>>]
     \/ /\ ~Retried(status, raised) \/ round[t] >= Retries[t]
        /\ raised \/ status >= 400
        /\ Goto(t, "failed")
        /\ tried' = [tried EXCEPT ![t] = <<>>]
        /\ UNCHANGED round
     \/ /\ ~raised /\ status < 400
        /\ Goto(t, "done")
        /\ tried' = [tried EXCEPT ![t] = ran]
        /\ UNCHANGED round

\* One fetch, without the ladder, of the tier that was asked for.
Single(t) ==
  /\ at[t] = "single"
  /\ \E with \in IF t \in Paid THEN Tiers ELSE {Local} :
       \E o \in Possible(with) : \E raised \in Raises(with, o) :
         CallEnds(t, "single", <<with>>, Status(o), raised)
  /\ UNCHANGED <<profile, worked>>

(* get_domain_profile *)
ReadMemory(t) ==
  LET p == ProcOf[t]
  IN /\ at[t] = "memory"
     /\ IF memory[p] # NoTier /\ fresh[p]
          THEN tier' = [tier EXCEPT ![t] = memory[p]] /\ Goto(t, "start")
          ELSE Goto(t, IF memory[p] = NoTier THEN "redis" ELSE "pop") /\ UNCHANGED tier
     /\ UNCHANGED <<profile, round, tried, hit, worked>>

\* The expired entry goes, or the one a thread has stored since.
Pop(t) ==
  /\ at[t] = "pop"
  /\ memory' = [memory EXCEPT ![ProcOf[t]] = NoTier]
  /\ Goto(t, "redis")
  /\ UNCHANGED <<fresh, redis, round, tier, tried, hit, worked>>

\* A Redis that does not answer is one without the key.
ReadRedis(t) ==
  /\ at[t] = "redis"
  /\ \/ redis # NoTier /\ tier' = [tier EXCEPT ![t] = redis] /\ Goto(t, "warm")
     \/ Goto(t, "start") /\ UNCHANGED tier
  /\ UNCHANGED <<profile, round, tried, hit, worked>>

Remember(t) ==
  /\ memory' = [memory EXCEPT ![ProcOf[t]] = tier[t]]
  /\ fresh' = [fresh EXCEPT ![ProcOf[t]] = TRUE]
  /\ UNCHANGED redis

Warm(t) ==
  /\ at[t] = "warm"
  /\ Remember(t)
  /\ Goto(t, "start")
  /\ UNCHANGED <<round, tier, tried, hit, worked>>

\* Mutant: no `if start_tier != "local" and not has_paid`.
StartMutantAnyone(t) ==
  /\ at[t] = "start"
  /\ tier' = [tier EXCEPT ![t] = IF @ = NoTier THEN Local ELSE @]
  /\ hit' = [hit EXCEPT ![t] = tier[t] \notin {Local, NoTier}]
  /\ Goto(t, "run")
  /\ UNCHANGED <<profile, round, tried, worked>>

\* The profile's tier, unless it costs what this caller has not got.
Start(t) ==
  LET known == t \in Paid /\ tier[t] \notin {Local, NoTier}
  IN /\ at[t] = "start"
     /\ tier' = [tier EXCEPT ![t] = IF known THEN @ ELSE Local]
     /\ hit' = [hit EXCEPT ![t] = known]
     /\ Goto(t, "run")
     /\ UNCHANGED <<profile, round, tried, worked>>

Allowed(t) == tier[t] = Local \/ t \in Paid

\* Mutant: the profile is stored whatever the verdict.
RunTierMutantStores(t) ==
  LET ran == Append(tried[t], tier[t])
  IN /\ at[t] = "run" /\ Allowed(t)
     /\ \E o \in Possible(tier[t]) :
          /\ tried' = [tried EXCEPT ![t] = ran]
          /\ Goto(t, "store")
          /\ worked' = IF o = "rich" THEN worked \cup {tier[t]} ELSE worked
     /\ UNCHANGED <<profile, round, tier, hit>>

\* One tier is run; a usable page is stored as the profile, anything else
\* leads to the next tier or ends the call.
RunTier(t) ==
  LET ran == Append(tried[t], tier[t])
  IN /\ at[t] = "run" /\ Allowed(t)
     /\ \E o \in Possible(tier[t]) : \E raised \in Raises(tier[t], o) :
          LET next == IF t \in Paid THEN NextTier(Verdict(o), tier[t]) ELSE NoTier
          IN \/ /\ o = "rich"
                /\ tried' = [tried EXCEPT ![t] = ran]
                /\ Goto(t, "store")
                /\ worked' = worked \cup {tier[t]}
                /\ UNCHANGED <<round, tier, hit>>
             \/ /\ o # "rich" /\ next < NoTier
                /\ tried' = [tried EXCEPT ![t] = ran]
                /\ tier' = [tier EXCEPT ![t] = next]
                /\ UNCHANGED <<at, round, hit, worked>>
             \/ /\ o # "rich" /\ next >= NoTier
                /\ CallEnds(t, "memory", ran, Status(o), raised)
                /\ UNCHANGED worked
     /\ UNCHANGED profile

(* set_domain_profile, then the page is returned. *)
Store(t) ==
  /\ at[t] = "store"
  /\ Remember(t)
  /\ Goto(t, "publish")
  /\ UNCHANGED <<round, tier, tried, hit, worked>>

\* Mutant: no `and len(attempts) == 1`.
PublishMutantAnyHit(t) ==
  /\ at[t] = "publish"
  /\ redis' \in {redis, tier[t]}
  /\ Goto(t, "done")
  /\ tier' = [tier EXCEPT ![t] = NoTier]
  /\ UNCHANGED <<memory, fresh, round, tried, hit, worked>>

Publish(t) ==
  /\ at[t] = "publish"
  /\ redis' \in {redis, tier[t]}
  /\ hit' = [hit EXCEPT ![t] = @ /\ Len(tried[t]) = 1]
  /\ Goto(t, "done")
  /\ tier' = [tier EXCEPT ![t] = NoTier]
  /\ UNCHANGED <<memory, fresh, round, tried, worked>>

\* A profile's time to live ends.
ExpireMemory(p) ==
  /\ memory[p] # NoTier /\ fresh[p]
  /\ fresh' = [fresh EXCEPT ![p] = FALSE]
  /\ UNCHANGED <<memory, redis, at, round, tier, tried, hit, worked>>

ExpireRedis ==
  /\ redis # NoTier /\ redis' = NoTier
  /\ UNCHANGED <<memory, fresh, at, round, tier, tried, hit, worked>>

----------------------------------------------------------------------------
Step(t) ==
  \/ Single(t)
  \/ ReadMemory(t)
  \/ Pop(t)
  \/ ReadRedis(t)
  \/ Warm(t)
  \/ Start(t)
  \/ RunTier(t)
  \/ Store(t)
  \/ Publish(t)

Next ==
  \/ \E t \in Threads : Begin(t) \/ Step(t)
  \/ \E p \in Procs : ExpireMemory(p)
  \/ ExpireRedis

Spec == Init /\ [][Next]_vars

\* A thread that fetches goes on: every request has a timeout.
FairSpec == Spec /\ \A t \in Threads : WF_vars(Step(t))

----------------------------------------------------------------------------
\* One call never runs a tier twice nor steps back to a cheaper one, wherever
\* its profile let it start and whatever the outcomes: the loop's own bound is
\* never what ends it.
Ascends ==
  \A t \in Threads : \A i, k \in DOMAIN tried[t] :
    i < k => tried[t][i] < tried[t][k]

\* A thread without a provider, or with a private host, is never at a paid tier,
\* though threads that have one share its domain's profile; so the "no result"
\* at the end of fetch_with_strategy is not reached.
NeverRefused == \A t \in Threads : at[t] = "run" => Allowed(t)

\* What any thread remembers, in memory, in Redis or in hand, is a tier that has
\* given a usable page, and it is what a call that starts above local starts with.
ProfileWorked ==
  /\ {memory[p] : p \in Procs} \cup {redis} \subseteq worked \cup {NoTier}
  /\ \A t \in Threads : at[t] \in {"warm", "store", "publish"} => tier[t] \in worked
  /\ \A t \in Threads : hit[t] /\ Len(tried[t]) > 0 => tried[t][1] \in worked

\* A page reported as a profile hit cost one run of one paid tier in its call:
\* the savings charge it once.
HitIsOneRun ==
  \A t \in Threads : at[t] = "done" /\ hit[t] => Len(tried[t]) = 1 /\ PaidIn(tried[t]) = 1

\* Every page is fetched or given up.
FetchEnds ==
  \A t \in Threads : at[t] \notin {"idle", "done", "failed"} ~> at[t] \in {"done", "failed"}
=============================================================================
