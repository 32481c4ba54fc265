-------------------------- MODULE FetchLadder_proofs --------------------------
(***************************************************************************)
(* FetchLadder for any number of threads, processes and retries, and for   *)
(* every set of tiers at which the domain gives a usable page.             *)
(***************************************************************************)
EXTENDS FetchLadder, FiniteSetTheorems, SequenceTheorems, TLAPS

Ascending(s) == \A i, k \in DOMAIN s : i < k => s[i] < s[k]

\* What the variables of a thread say of each other, W being the tiers that worked:
\* thread t is at step `a` with tier `r`, has tried the tiers `s`, profile hit or not.
Fits(t, a, r, s, h, W) ==
  /\ a \notin {"start", "run", "warm", "store", "publish"} => r = NoTier
  /\ a \in {"memory", "pop", "redis", "warm", "start"} => s = <<>>
  /\ h => a \in {"run", "store", "publish", "done"}
  /\ a = "start" => r \in W \cup {NoTier}
  /\ a \in {"warm", "store", "publish"} => r \in W
  /\ a = "run" => /\ r \in Tiers /\ (r = Local \/ t \in Paid)
                  /\ \A i \in DOMAIN s : s[i] < r
                  /\ h /\ s = <<>> => r \in W /\ r # Local
  /\ h /\ s # <<>> => s[1] \in W /\ s[1] # Local
  /\ a \in {"store", "publish"} => s # <<>>
  /\ a = "done" /\ h => Len(s) = 1
  /\ Ascending(s)

ThreadInv(t) == Fits(t, at[t], tier[t], tried[t], hit[t], worked)

Remembered == {memory[p] : p \in Procs} \cup {redis} \subseteq worked \cup {NoTier}

IInv == TypeOK /\ Remembered /\ \A t \in Threads : ThreadInv(t)

----------------------------------------------------------------------------
\* The steps of a thread.
Places == {"idle", "single", "memory", "pop", "redis", "warm",
           "start", "run", "store", "publish", "done", "failed"}

\* Only thread t has moved.
OnlyMoved(t) ==
  \A u \in Threads \ {t} : /\ at'[u] = at[u] /\ tier'[u] = tier[u]
                           /\ tried'[u] = tried[u] /\ hit'[u] = hit[u]

\* The variables of the threads keep their types.
ThreadsTyped ==
  /\ at \in [Threads -> Places] /\ round \in [Threads -> Nat]
  /\ tier \in [Threads -> Tiers \cup {NoTier}]
  /\ tried \in [Threads -> Seq(Tiers)] /\ hit \in [Threads -> BOOLEAN]

\* The profile keeps its type and only names tiers that worked.
ProfileInv ==
  /\ memory \in [Procs -> Tiers \cup {NoTier}] /\ fresh \in [Procs -> BOOLEAN]
  /\ redis \in Tiers \cup {NoTier}
  /\ worked \in SUBSET Tiers
  /\ Remembered

\* IInv by its parts.
LEMMA Parts == IInv <=> ThreadsTyped /\ ProfileInv /\ \A t \in Threads : ThreadInv(t)
BY DEF IInv, TypeOK, ThreadsTyped, ProfileInv, Places

\* More tiers that worked do not hurt a thread.
LEMMA Grows ==
  ASSUME NEW t, NEW a, NEW r, NEW s, NEW h \in BOOLEAN, NEW W, NEW V,
         Fits(t, a, r, s, h, W), W \subseteq V
  PROVE  Fits(t, a, r, s, h, V)
BY DEF Fits

\* A step of thread t that leaves t and the profile in order keeps the invariant.
LEMMA OneThread ==
  ASSUME IInv, NEW t \in Threads, OnlyMoved(t), worked \subseteq worked',
         ThreadsTyped', ProfileInv', ThreadInv(t)'
  PROVE  IInv'
<1>1. ASSUME NEW u \in Threads, u # t PROVE ThreadInv(u)'
  <2>1. /\ at'[u] = at[u] /\ tier'[u] = tier[u]
        /\ tried'[u] = tried[u] /\ hit'[u] = hit[u]
    BY <1>1 DEF OnlyMoved
  <2>2. hit[u] \in BOOLEAN /\ ThreadInv(u)
    BY Parts DEF ThreadsTyped
  <2>3. Fits(u, at[u], tier[u], tried[u], hit[u], worked')
    BY <2>2, Grows DEF ThreadInv
  <2> QED BY <2>1, <2>3 DEF ThreadInv
<1>2. \A u \in Threads : ThreadInv(u)'
  BY <1>1
<1> QED BY <1>2 DEF IInv, TypeOK, ThreadsTyped, ProfileInv, Places

\* A list of one tier.
LEMMA OneTier ==
  ASSUME NEW r \in Tiers
  PROVE  /\ <<r>> \in Seq(Tiers) /\ Len(<<r>>) = 1 /\ Ascending(<<r>>)
         /\ <<r>> = Append(<<>>, r)
BY DEF Ascending

\* The list of tiers once one more, above all of them, is run.
LEMMA OneMore ==
  ASSUME NEW s \in Seq(Tiers), NEW r \in Tiers, Ascending(s),
         \A i \in DOMAIN s : s[i] < r
  PROVE  /\ Append(s, r) \in Seq(Tiers) /\ Append(s, r) # <<>> /\ Ascending(Append(s, r))
         /\ \A q \in Tiers : r < q => \A i \in DOMAIN Append(s, r) : Append(s, r)[i] < q
         /\ s = <<>> => Append(s, r)[1] = r
         /\ s # <<>> => Append(s, r)[1] = s[1]
         /\ Len(Append(s, r)) = 1 => s = <<>>
<1>1. /\ Append(s, r) \in Seq(Tiers) /\ Len(Append(s, r)) = Len(s) + 1
      /\ Append(s, r)[Len(s) + 1] = r /\ Len(s) \in Nat
      /\ \A i \in 1..Len(s) : Append(s, r)[i] = s[i]
      /\ DOMAIN s = 1..Len(s) /\ DOMAIN Append(s, r) = 1 .. Len(s) + 1
  BY AppendProperties
<1>2. \A i \in 1..Len(s) : s[i] \in Tiers
  BY <1>1
<1>3. \A i \in 1 .. Len(s) + 1 : i \in 1..Len(s) \/ i = Len(s) + 1
  BY <1>1
<1>4. Ascending(Append(s, r))
  <2>1. SUFFICES ASSUME NEW i \in 1 .. Len(s) + 1, NEW k \in 1 .. Len(s) + 1, i < k
                 PROVE  Append(s, r)[i] < Append(s, r)[k]
    BY <1>1 DEF Ascending
  <2>2. i \in 1..Len(s)
    BY <1>1, <2>1
  <2> QED BY <1>1, <1>3, <2>1, <2>2 DEF Ascending
<1>5. ASSUME NEW q \in Tiers, r < q, NEW i \in 1 .. Len(s) + 1
      PROVE  Append(s, r)[i] < q
  BY <1>1, <1>2, <1>3, <1>5 DEF Tiers, Local, Residential
<1>6. s # <<>> => 1 \in 1..Len(s)
  BY <1>1, EmptySeq
<1>7. Append(s, r) # <<>>
  BY <1>1
<1> QED BY <1>1, <1>4, <1>5, <1>6, <1>7, EmptySeq

----------------------------------------------------------------------------
(* The steps.  A step of thread t is shown to keep the types, to move only t, *)
(* and to leave t's variables fitting each other.                            *)

\* A call that ends leaves the thread outside the ladder or at its foot.
LEMMA CallEndsKeeps ==
  ASSUME ThreadsTyped, NEW t \in Threads, NEW first \in {"single", "memory"},
         NEW ran \in Seq(Tiers), Ascending(ran), NEW status, NEW raised,
         CallEnds(t, first, ran, status, raised)
  PROVE  /\ ThreadsTyped' /\ OnlyMoved(t)
         /\ Fits(t, at'[t], tier'[t], tried'[t], hit'[t], worked')
<1>1. PICK a \in {first, "failed", "done"}, s \in {ran, <<>>} :
        /\ at' = [at EXCEPT ![t] = a] /\ tried' = [tried EXCEPT ![t] = s]
        /\ a # "done" => s = <<>>
  BY DEF CallEnds, Goto
<1>2. hit' = [hit EXCEPT ![t] = FALSE] /\ tier' = [tier EXCEPT ![t] = NoTier]
  BY DEF CallEnds
<1>3. round' \in [Threads -> Nat]
  <2>1. round' = [round EXCEPT ![t] = round[t] + 1] \/ round' = round
    BY DEF CallEnds
  <2>2. round[t] + 1 \in Nat
    BY DEF ThreadsTyped
  <2> QED BY <2>1, <2>2 DEF ThreadsTyped
<1>4. a \in {"single", "memory", "failed", "done"} /\ a \in Places
  BY <1>1 DEF Places
<1>5. s \in Seq(Tiers) /\ Ascending(s)
  <2>1. <<>> \in Seq(Tiers) /\ Ascending(<<>>)
    BY DEF Ascending
  <2> QED BY <1>1, <2>1
<1>6. at' \in [Threads -> Places] /\ at'[t] = a
  BY <1>1, <1>4 DEF ThreadsTyped
<1>7. tried' \in [Threads -> Seq(Tiers)] /\ tried'[t] = s
  BY <1>1, <1>5 DEF ThreadsTyped
<1>8. /\ tier' \in [Threads -> Tiers \cup {NoTier}] /\ tier'[t] = NoTier
      /\ hit' \in [Threads -> BOOLEAN] /\ hit'[t] = FALSE
  BY <1>2 DEF ThreadsTyped
<1>9. ThreadsTyped'
  BY <1>3, <1>6, <1>7, <1>8 DEF ThreadsTyped
<1>10. OnlyMoved(t)
  BY <1>1, <1>2 DEF OnlyMoved, ThreadsTyped
<1>11. Fits(t, a, NoTier, s, FALSE, worked')
  BY <1>1, <1>4, <1>5 DEF Fits
<1> QED BY <1>6, <1>7, <1>8, <1>9, <1>10, <1>11

\* A thread is given a page to fetch.
LEMMA BeginKeeps ==
  ASSUME IInv, NEW t \in Threads, Begin(t)
  PROVE  IInv'
<1>1. ThreadsTyped /\ ProfileInv /\ ThreadInv(t)
  BY Parts
<1>2. PICK a \in {"single", "memory"} : at' = [at EXCEPT ![t] = a]
  BY DEF Begin, Goto
<1>3. /\ ThreadsTyped' /\ OnlyMoved(t)
  BY <1>1, <1>2 DEF Begin, ThreadsTyped, OnlyMoved, Places
<1>4. /\ at'[t] = a /\ tried'[t] = <<>> /\ ~hit'[t] /\ tier'[t] = NoTier
  <2>1. tier[t] = NoTier
    BY <1>1 DEF Begin, ThreadInv, Fits
  <2> QED BY <1>1, <1>2, <2>1 DEF Begin, ThreadsTyped
<1>5. ThreadInv(t)'
  BY <1>4 DEF ThreadInv, Fits, Ascending
<1>6. ProfileInv' /\ worked \subseteq worked'
  BY <1>1 DEF Begin, ProfileInv, Remembered, profile
<1> QED BY <1>3, <1>5, <1>6, OneThread

\* A strategy of one tier runs it.
LEMMA SingleKeeps ==
  ASSUME IInv, NEW t \in Threads, Single(t)
  PROVE  IInv'
<1>1. ThreadsTyped /\ ProfileInv
  BY Parts
<1>2. PICK with \in Tiers : \E o, raised : CallEnds(t, "single", <<with>>, Status(o), raised)
  BY DEF Single, Tiers, Local, Residential
<1>3. /\ ThreadsTyped' /\ OnlyMoved(t)
      /\ Fits(t, at'[t], tier'[t], tried'[t], hit'[t], worked')
  <2>1. PICK o, raised : CallEnds(t, "single", <<with>>, Status(o), raised)
    BY <1>2
  <2> QED BY <1>1, <2>1, OneTier, CallEndsKeeps
<1>4. ProfileInv' /\ worked \subseteq worked'
  BY <1>1 DEF Single, ProfileInv, Remembered, profile
<1>5. ThreadInv(t)'
  BY <1>3 DEF ThreadInv
<1> QED BY <1>3, <1>4, <1>5, OneThread

\* The cached profile is read.
LEMMA ReadMemoryKeeps ==
  ASSUME IInv, NEW t \in Threads, ReadMemory(t)
  PROVE  IInv'
<1>1. ThreadsTyped /\ ProfileInv /\ ThreadInv(t) /\ ProcOf[t] \in Procs
  BY Parts, Constants
<1>2. PICK a \in {"start", "redis", "pop"}, r \in worked \cup {NoTier} :
        /\ at' = [at EXCEPT ![t] = a] /\ tier' = [tier EXCEPT ![t] = r]
        /\ a # "start" => r = NoTier
  <2>1. CASE memory[ProcOf[t]] # NoTier /\ fresh[ProcOf[t]]
    BY <1>1, <2>1 DEF ReadMemory, Goto, ProfileInv, Remembered
  <2>2. CASE ~(memory[ProcOf[t]] # NoTier /\ fresh[ProcOf[t]])
    <3>1. tier[t] = NoTier
      BY <1>1 DEF ReadMemory, ThreadInv, Fits
    <3>2. tier' = [tier EXCEPT ![t] = NoTier]
      BY <1>1, <2>2, <3>1 DEF ReadMemory, ThreadsTyped
    <3> QED BY <2>2, <3>2 DEF ReadMemory, Goto
  <2> QED BY <2>1, <2>2
<1>3. /\ ThreadsTyped' /\ OnlyMoved(t)
  BY <1>1, <1>2 DEF ReadMemory, ThreadsTyped, OnlyMoved, Places, ProfileInv
<1>4. /\ at'[t] = a /\ tier'[t] = r /\ tried'[t] = <<>> /\ ~hit'[t]
  BY <1>1, <1>2 DEF ReadMemory, ThreadsTyped, ThreadInv, Fits
<1>5. ProfileInv' /\ worked' = worked
  BY <1>1 DEF ReadMemory, ProfileInv, Remembered, profile
<1>6. ThreadInv(t)'
  BY <1>2, <1>4, <1>5 DEF ThreadInv, Fits, Ascending
<1> QED BY <1>3, <1>5, <1>6, OneThread

\* An expired profile is dropped.
LEMMA PopKeeps ==
  ASSUME IInv, NEW t \in Threads, Pop(t)
  PROVE  IInv'
<1>1. ThreadsTyped /\ ProfileInv /\ ThreadInv(t) /\ ProcOf[t] \in Procs
  BY Parts, Constants
<1>2. /\ ThreadsTyped' /\ OnlyMoved(t)
  BY <1>1 DEF Pop, Goto, ThreadsTyped, OnlyMoved, Places
<1>3. /\ at'[t] = "redis" /\ tier'[t] = NoTier /\ tried'[t] = <<>> /\ ~hit'[t]
  BY <1>1 DEF Pop, Goto, ThreadsTyped, ThreadInv, Fits
<1>4. ProfileInv' /\ worked' = worked
  BY <1>1 DEF Pop, ProfileInv, Remembered
<1>5. ThreadInv(t)'
  BY <1>3 DEF ThreadInv, Fits, Ascending
<1> QED BY <1>2, <1>4, <1>5, OneThread

\* The profile is read from Redis.
LEMMA ReadRedisKeeps ==
  ASSUME IInv, NEW t \in Threads, ReadRedis(t)
  PROVE  IInv'
<1>1. ThreadsTyped /\ ProfileInv /\ ThreadInv(t)
  BY Parts
<1>2. PICK a \in {"start", "warm"}, r \in worked \cup {NoTier} :
        /\ at' = [at EXCEPT ![t] = a] /\ tier' = [tier EXCEPT ![t] = r]
        /\ a = "warm" => r # NoTier
  <2>1. CASE redis # NoTier /\ tier' = [tier EXCEPT ![t] = redis] /\ Goto(t, "warm")
    BY <1>1, <2>1 DEF Goto, ProfileInv, Remembered
  <2>2. CASE Goto(t, "start") /\ UNCHANGED tier
    <3>1. tier[t] = NoTier
      BY <1>1 DEF ReadRedis, ThreadInv, Fits
    <3>2. tier' = [tier EXCEPT ![t] = NoTier]
      BY <1>1, <2>2, <3>1 DEF ThreadsTyped
    <3> QED BY <2>2, <3>2 DEF Goto
  <2> QED BY <2>1, <2>2 DEF ReadRedis
<1>3. /\ ThreadsTyped' /\ OnlyMoved(t)
  BY <1>1, <1>2 DEF ReadRedis, ThreadsTyped, OnlyMoved, Places, ProfileInv
<1>4. /\ at'[t] = a /\ tier'[t] = r /\ tried'[t] = <<>> /\ ~hit'[t]
  BY <1>1, <1>2 DEF ReadRedis, ThreadsTyped, ThreadInv, Fits
<1>5. ProfileInv' /\ worked' = worked
  BY <1>1 DEF ReadRedis, ProfileInv, Remembered, profile
<1>6. ThreadInv(t)'
  BY <1>2, <1>4, <1>5 DEF ThreadInv, Fits, Ascending
<1> QED BY <1>3, <1>5, <1>6, OneThread

\* set_domain_profile's and get_domain_profile's write to memory.
LEMMA RememberKeeps ==
  ASSUME ProfileInv, NEW t \in Threads, tier[t] \in worked, Remember(t), worked' = worked
  PROVE  ProfileInv'
<1>1. PICK r \in worked : r = tier[t]
  OBVIOUS
<1>2. PICK p \in Procs : p = ProcOf[t]
  BY Constants
<1>3. /\ memory' = [memory EXCEPT ![p] = r] /\ fresh' = [fresh EXCEPT ![p] = TRUE]
      /\ redis' = redis /\ worked' = worked /\ r \in Tiers
  BY <1>1, <1>2 DEF Remember, ProfileInv
<1>4. /\ memory' \in [Procs -> Tiers \cup {NoTier}] /\ fresh' \in [Procs -> BOOLEAN]
  BY <1>3 DEF ProfileInv
<1>5. \A q \in Procs : memory'[q] = memory[q] \/ memory'[q] = r
  BY <1>3 DEF ProfileInv
<1>6. Remembered'
  BY <1>1, <1>3, <1>5 DEF ProfileInv, Remembered
<1> QED BY <1>3, <1>4, <1>6 DEF ProfileInv

\* A profile read from Redis is cached.
LEMMA WarmKeeps ==
  ASSUME IInv, NEW t \in Threads, Warm(t)
  PROVE  IInv'
<1>1. ThreadsTyped /\ ProfileInv /\ ThreadInv(t)
  BY Parts
<1>2. tier[t] \in worked
  BY <1>1 DEF Warm, ThreadInv, Fits
<1>3. /\ ThreadsTyped' /\ OnlyMoved(t)
  BY <1>1 DEF Warm, Goto, ThreadsTyped, OnlyMoved, Places
<1>4. ProfileInv' /\ worked' = worked
  BY <1>1, <1>2, RememberKeeps DEF Warm
<1>5. /\ at'[t] = "start" /\ tier'[t] = tier[t] /\ tried'[t] = <<>> /\ ~hit'[t]
  BY <1>1 DEF Warm, Goto, ThreadsTyped, ThreadInv, Fits
<1>6. ThreadInv(t)'
  BY <1>2, <1>4, <1>5 DEF ThreadInv, Fits, Ascending
<1> QED BY <1>3, <1>4, <1>6, OneThread

\* The first tier is chosen.
LEMMA StartKeeps ==
  ASSUME IInv, NEW t \in Threads, Start(t)
  PROVE  IInv'
<1>1. ThreadsTyped /\ ProfileInv /\ ThreadInv(t)
  BY Parts
<1>2. PICK h \in BOOLEAN, r \in Tiers \cup {NoTier} :
        /\ h = (t \in Paid /\ tier[t] \notin {Local, NoTier})
        /\ r = IF h THEN tier[t] ELSE Local
  <2>1. tier[t] \in Tiers \cup {NoTier} /\ Local \in Tiers
    BY <1>1 DEF ThreadsTyped, Tiers, Local, Residential
  <2>2. CASE t \in Paid /\ tier[t] \notin {Local, NoTier}
    BY <2>1, <2>2
  <2>3. CASE ~(t \in Paid /\ tier[t] \notin {Local, NoTier})
    BY <2>1, <2>3
  <2> QED BY <2>2, <2>3
<1>3. /\ at' = [at EXCEPT ![t] = "run"] /\ tier' = [tier EXCEPT ![t] = r]
      /\ hit' = [hit EXCEPT ![t] = h]
  BY <1>1, <1>2 DEF Start, Goto, ThreadsTyped
<1>4. /\ ThreadsTyped' /\ OnlyMoved(t)
  BY <1>1, <1>3 DEF Start, ThreadsTyped, OnlyMoved, Places
<1>5. /\ at'[t] = "run" /\ tier'[t] = r /\ tried'[t] = <<>> /\ hit'[t] = h
  BY <1>1, <1>3 DEF Start, ThreadsTyped, ThreadInv, Fits
<1>6. /\ r \in Tiers /\ (r = Local \/ t \in Paid)
      /\ h => r \in worked /\ r # Local
  BY <1>1, <1>2 DEF Start, ThreadInv, Fits, ThreadsTyped, Tiers, Local, Residential
<1>7. ProfileInv' /\ worked' = worked
  BY <1>1 DEF Start, ProfileInv, Remembered, profile
<1>8. ThreadInv(t)'
  BY <1>5, <1>6, <1>7 DEF ThreadInv, Fits, Ascending
<1> QED BY <1>4, <1>7, <1>8, OneThread

\* The next tier is dearer, whatever the verdict.
LEMMA NextIsDearer ==
  ASSUME NEW o \in Outcomes, NEW r \in Tiers, NextTier(Verdict(o), r) < NoTier, o # "rich"
  PROVE  NextTier(Verdict(o), r) \in Tiers /\ r < NextTier(Verdict(o), r)
<1>1. Verdict(o) \in {"needs_js", "terminal", "bot_wall", "soft_fail"}
  BY DEF Outcomes, Verdict
<1>2. ASSUME NEW a \in {Static, Js, Asp}
      PROVE  /\ Highest(r + 1, a) < NoTier => Highest(r + 1, a) \in Tiers
             /\ r < Highest(r + 1, a)
  BY DEF Highest, Tiers, Local, Static, Js, Asp, Residential, NoTier
<1>3. Verdict(o) # "terminal"
  BY DEF NextTier, NoTier
<1> QED BY <1>1, <1>2, <1>3 DEF NextTier

\* A tier runs.
LEMMA RunTierKeeps ==
  ASSUME IInv, NEW t \in Threads, RunTier(t)
  PROVE  IInv'
<1> DEFINE r == tier[t]
           s == tried[t]
           ran == Append(s, r)
<1>1. ThreadsTyped /\ ProfileInv /\ ThreadInv(t)
  BY Parts
<1>2. /\ at[t] = "run" /\ s \in Seq(Tiers) /\ hit[t] \in BOOLEAN
      /\ r \in Tiers /\ (r = Local \/ t \in Paid)
      /\ Ascending(s) /\ \A i \in DOMAIN s : s[i] < r
      /\ hit[t] /\ s = <<>> => r \in worked /\ r # Local
      /\ hit[t] /\ s # <<>> => s[1] \in worked /\ s[1] # Local
  BY <1>1 DEF RunTier, ThreadsTyped, ThreadInv, Fits
<1>3. /\ ran \in Seq(Tiers) /\ ran # <<>> /\ Ascending(ran)
      /\ \A q \in Tiers : r < q => \A i \in DOMAIN ran : ran[i] < q
      /\ hit[t] => ran[1] \in worked /\ ran[1] # Local
  BY <1>2, OneMore
<1> HIDE DEF ran
<1>4. PICK o \in Outcomes :
        \/ /\ tried' = [tried EXCEPT ![t] = ran] /\ Goto(t, "store")
           /\ worked' = worked \cup {r} /\ UNCHANGED <<round, tier, hit>>
        \/ /\ t \in Paid /\ o # "rich" /\ NextTier(Verdict(o), r) < NoTier
           /\ tried' = [tried EXCEPT ![t] = ran]
           /\ tier' = [tier EXCEPT ![t] = NextTier(Verdict(o), r)]
           /\ UNCHANGED <<at, round, hit, worked>>
        \/ (\E raised : CallEnds(t, "memory", ran, Status(o), raised)) /\ UNCHANGED worked
  BY DEF RunTier, ran, Possible, NoTier
<1>5. CASE /\ tried' = [tried EXCEPT ![t] = ran] /\ Goto(t, "store")
           /\ worked' = worked \cup {r} /\ UNCHANGED <<round, tier, hit>>
  <2>1. /\ ThreadsTyped' /\ OnlyMoved(t)
    BY <1>1, <1>3, <1>5 DEF ThreadsTyped, OnlyMoved, Goto, Places
  <2>2. /\ at'[t] = "store" /\ tier'[t] = r /\ tried'[t] = ran /\ hit'[t] = hit[t]
    BY <1>1, <1>5 DEF ThreadsTyped, Goto
  <2>3. ThreadInv(t)'
    BY <1>2, <1>3, <1>5, <2>2 DEF ThreadInv, Fits
  <2>4. ProfileInv' /\ worked \subseteq worked'
    BY <1>1, <1>2, <1>5 DEF RunTier, ProfileInv, Remembered, profile
  <2> QED BY <2>1, <2>3, <2>4, OneThread
<1>6. CASE /\ t \in Paid /\ o # "rich" /\ NextTier(Verdict(o), r) < NoTier
           /\ tried' = [tried EXCEPT ![t] = ran]
           /\ tier' = [tier EXCEPT ![t] = NextTier(Verdict(o), r)]
           /\ UNCHANGED <<at, round, hit, worked>>
  <2>1. PICK q \in Tiers : q = NextTier(Verdict(o), r) /\ r < q
    BY <1>2, <1>6, NextIsDearer
  <2>2. tier' = [tier EXCEPT ![t] = q]
    BY <1>6, <2>1
  <2>3. /\ ThreadsTyped' /\ OnlyMoved(t)
    BY <1>1, <1>3, <1>6, <2>2 DEF ThreadsTyped, OnlyMoved
  <2>4. /\ at'[t] = "run" /\ tier'[t] = q /\ tried'[t] = ran /\ hit'[t] = hit[t]
    BY <1>1, <1>2, <1>6, <2>2 DEF ThreadsTyped
  <2>5. ThreadInv(t)'
    BY <1>2, <1>3, <1>6, <2>1, <2>4 DEF ThreadInv, Fits
  <2>6. ProfileInv' /\ worked \subseteq worked'
    BY <1>1, <1>6 DEF RunTier, ProfileInv, Remembered, profile
  <2> QED BY <2>3, <2>5, <2>6, OneThread
<1>7. CASE (\E raised : CallEnds(t, "memory", ran, Status(o), raised)) /\ UNCHANGED worked
  <2>1. PICK raised : CallEnds(t, "memory", ran, Status(o), raised)
    BY <1>7
  <2>2. /\ ThreadsTyped' /\ OnlyMoved(t)
        /\ Fits(t, at'[t], tier'[t], tried'[t], hit'[t], worked')
    BY <1>1, <1>3, <2>1, CallEndsKeeps
  <2>3. ThreadInv(t)'
    BY <2>2 DEF ThreadInv
  <2>4. ProfileInv' /\ worked \subseteq worked'
    BY <1>1, <1>7 DEF RunTier, ProfileInv, Remembered, profile
  <2> QED BY <2>2, <2>3, <2>4, OneThread
<1> QED BY <1>4, <1>5, <1>6, <1>7

\* What worked is cached.
LEMMA StoreKeeps ==
  ASSUME IInv, NEW t \in Threads, Store(t)
  PROVE  IInv'
<1>1. ThreadsTyped /\ ProfileInv /\ ThreadInv(t)
  BY Parts
<1>2. tier[t] \in worked
  BY <1>1 DEF Store, ThreadInv, Fits
<1>3. /\ ThreadsTyped' /\ OnlyMoved(t)
  BY <1>1 DEF Store, Goto, ThreadsTyped, OnlyMoved, Places
<1>4. ProfileInv' /\ worked' = worked
  BY <1>1, <1>2, RememberKeeps DEF Store
<1>5. /\ at[t] = "store" /\ at'[t] = "publish" /\ tier'[t] = tier[t]
      /\ tried'[t] = tried[t] /\ hit'[t] = hit[t]
  BY <1>1 DEF Store, Goto, ThreadsTyped
<1>6. ThreadInv(t)'
  BY <1>1, <1>4, <1>5 DEF ThreadInv, Fits
<1> QED BY <1>3, <1>4, <1>6, OneThread

\* What worked is written to Redis.
LEMMA PublishKeeps ==
  ASSUME IInv, NEW t \in Threads, Publish(t)
  PROVE  IInv'
<1>1. ThreadsTyped /\ ProfileInv /\ ThreadInv(t)
  BY Parts
<1>2. at[t] = "publish" /\ tier[t] \in worked /\ hit[t] \in BOOLEAN
  BY <1>1 DEF Publish, ThreadInv, Fits, ThreadsTyped
<1>3. PICK h \in BOOLEAN : h = (hit[t] /\ Len(tried[t]) = 1)
  OBVIOUS
<1>4. /\ at' = [at EXCEPT ![t] = "done"] /\ tier' = [tier EXCEPT ![t] = NoTier]
      /\ hit' = [hit EXCEPT ![t] = h]
  BY <1>1, <1>3 DEF Publish, Goto, ThreadsTyped
<1>5. /\ ThreadsTyped' /\ OnlyMoved(t)
  BY <1>1, <1>4 DEF Publish, ThreadsTyped, OnlyMoved, Places
<1>6. /\ at'[t] = "done" /\ tier'[t] = NoTier /\ tried'[t] = tried[t] /\ hit'[t] = h
  BY <1>1, <1>4 DEF Publish, ThreadsTyped
<1>7. ProfileInv' /\ worked' = worked
  BY <1>1, <1>2 DEF Publish, ProfileInv, Remembered
<1>8. ThreadInv(t)'
  BY <1>1, <1>3, <1>6, <1>7 DEF ThreadInv, Fits
<1> QED BY <1>5, <1>7, <1>8, OneThread

\* A profile that expires, in memory or in Redis.
LEMMA ExpireKeeps ==
  ASSUME IInv, (\E p \in Procs : ExpireMemory(p)) \/ ExpireRedis
  PROVE  IInv'
<1>1. ThreadsTyped /\ ProfileInv /\ \A t \in Threads : ThreadInv(t)
  BY Parts
<1>2. UNCHANGED <<at, round, tier, tried, hit, worked>> /\ UNCHANGED memory
  BY DEF ExpireMemory, ExpireRedis
<1>3. ThreadsTyped' /\ \A t \in Threads : ThreadInv(t)'
  BY <1>1, <1>2 DEF ThreadsTyped, ThreadInv
<1>4. ProfileInv'
  <2>1. fresh' \in [Procs -> BOOLEAN]
    BY <1>1, <1>2 DEF ExpireMemory, ExpireRedis, ProfileInv
  <2>2. redis' = redis \/ redis' = NoTier
    BY DEF ExpireMemory, ExpireRedis
  <2>3. Remembered'
    BY <1>1, <1>2, <2>2 DEF ProfileInv, Remembered
  <2>4. redis' \in Tiers \cup {NoTier}
    BY <1>1, <2>2 DEF ProfileInv
  <2> QED BY <1>1, <1>2, <2>1, <2>3, <2>4 DEF ProfileInv
<1> QED BY <1>3, <1>4 DEF IInv, TypeOK, ThreadsTyped, ProfileInv, Places

\* IInv holds at first ...
LEMMA InitInv == Init => IInv
<1> SUFFICES ASSUME Init PROVE IInv
  OBVIOUS
<1>1. TypeOK /\ Remembered
  BY DEF Init, TypeOK, Remembered
<1>2. ASSUME NEW t \in Threads PROVE ThreadInv(t)
  BY DEF Init, ThreadInv, Fits, Ascending
<1> QED BY <1>1, <1>2 DEF IInv

\* ... and every step keeps it.
LEMMA NextInv == IInv /\ [Next]_vars => IInv'
<1> SUFFICES ASSUME IInv, [Next]_vars PROVE IInv'
  OBVIOUS
<1>1. ASSUME NEW t \in Threads, Begin(t) PROVE IInv'
  BY <1>1, BeginKeeps
<1>2. ASSUME NEW t \in Threads, Step(t) PROVE IInv'
  BY <1>2, SingleKeeps, ReadMemoryKeeps, PopKeeps, ReadRedisKeeps, WarmKeeps,
     StartKeeps, RunTierKeeps, StoreKeeps, PublishKeeps DEF Step
<1>3. CASE (\E p \in Procs : ExpireMemory(p)) \/ ExpireRedis
  BY <1>3, ExpireKeeps
<1>4. CASE UNCHANGED vars
  BY <1>4 DEF vars, profile, IInv, TypeOK, Remembered, ThreadInv
<1> QED BY <1>1, <1>2, <1>3, <1>4 DEF Next

\* The invariant of the ladder.
THEOREM Invariant == Spec => []IInv
BY InitInv, NextInv, PTL DEF Spec

----------------------------------------------------------------------------
\* Every reachable state is well typed: a call's tiers are tiers, and what is
\* remembered is one of TIER_ORDER (get_domain_profile, fetch_with_strategy).
THEOREM TypeCorrect == Spec => []TypeOK
<1>1. IInv => TypeOK
  BY DEF IInv
<1> QED BY <1>1, Invariant, PTL

\* A call of fetch_with_strategy only ever climbs: _next_tier_for and the start
\* at a remembered tier never make it run a tier twice or a cheaper one later.
THEOREM AlwaysAscends == Spec => []Ascends
<1>1. IInv => Ascends
  BY DEF IInv, ThreadInv, Fits, Ascends, Ascending
<1> QED BY <1>1, Invariant, PTL

\* No thread comes to a paid tier that it may not use, whatever the threads that
\* share its domain's profile have stored (the guards of fetch_with_strategy).
THEOREM NeverIsRefused == Spec => []NeverRefused
<1>1. IInv => NeverRefused
  BY DEF IInv, ThreadInv, Fits, NeverRefused, Allowed
<1> QED BY <1>1, Invariant, PTL

\* Everything remembered of a domain, by any process, is a tier that worked
\* (get_domain_profile and set_domain_profile without a lock).
THEOREM ProfileAlwaysWorked == Spec => []ProfileWorked
<1>1. ASSUME IInv, NEW t \in Threads
      PROVE  /\ at[t] \in {"warm", "store", "publish"} => tier[t] \in worked
             /\ hit[t] /\ Len(tried[t]) > 0 => tried[t][1] \in worked
  <2>1. ThreadInv(t) /\ tried[t] \in Seq(Tiers) /\ hit[t] \in BOOLEAN
    BY <1>1 DEF IInv, TypeOK
  <2>2. Len(tried[t]) > 0 => tried[t] # <<>>
    BY <2>1
  <2> QED BY <2>1, <2>2 DEF ThreadInv, Fits
<1>2. IInv => ProfileWorked
  BY <1>1 DEF IInv, Remembered, ProfileWorked
<1> QED BY <1>2, Invariant, PTL

\* A page reported as a profile hit has cost one run of one paid tier in its call
\* (the condition on profile_hit in fetch_with_strategy's result).
THEOREM HitAlwaysOneRun == Spec => []HitIsOneRun
<1>1. ASSUME IInv, NEW t \in Threads, at[t] = "done", hit[t]
      PROVE  Len(tried[t]) = 1 /\ PaidIn(tried[t]) = 1
  <2>1. ThreadInv(t) /\ tried[t] \in Seq(Tiers)
    BY <1>1 DEF IInv, TypeOK
  <2>2. Len(tried[t]) = 1
    BY <1>1, <2>1 DEF ThreadInv, Fits
  <2>3. tried[t] # <<>> /\ DOMAIN tried[t] = {1}
    <3>1. DOMAIN tried[t] = 1..1
      BY <2>1, <2>2
    <3> QED BY <2>1, <2>2, <3>1, EmptySeq
  <2>4. tried[t][1] # Local
    BY <1>1, <2>1, <2>3 DEF ThreadInv, Fits
  <2>5. {i \in DOMAIN tried[t] : tried[t][i] # Local} = {1}
    BY <2>3, <2>4
  <2> QED BY <2>2, <2>5, FS_Singleton DEF PaidIn
<1>2. IInv => HitIsOneRun
  BY <1>1 DEF HitIsOneRun
<1> QED BY <1>2, Invariant, PTL

----------------------------------------------------------------------------
(* What TLC cannot say of every number of retries: that a page is fetched or *)
(* given up, by a count of the steps that its thread can still make.         *)

\* The steps left to a thread at step `a` with tier `r` before its call ends; a run
\* leaves two for storing what worked and one for each dearer tier.
StepsOfCall(a, r) ==
  CASE a = "memory" -> 12 [] a = "pop" -> 11 [] a = "redis" -> 10 [] a = "warm" -> 9
    [] a = "start" -> 8   [] a = "run" -> 7 - r
    [] a = "store" -> 2   [] a \in {"publish", "single"} -> 1

\* ... and before the page is fetched or given up, `k` attempts having been begun.
StepsLeft(t, a, r, k) ==
  IF a \in {"idle", "done", "failed"} THEN 0
  ELSE 12 * (Retries[t] - k) + StepsOfCall(a, r)

Left(t) == StepsLeft(t, at[t], tier[t], round[t])

\* fetch_with_retries makes no more than its max_retries attempts.
WithinRetries == \A t \in Threads : round[t] \in 1..Retries[t]

\* A thread's call goes on, within the attempt it is in.
LEMMA OnwardCounts ==
  ASSUME NEW t \in Threads, NEW k \in 1..Retries[t],
         NEW a \in Places, NEW b \in Places, NEW r, NEW q,
         b \notin {"idle", "done", "failed"}, a \notin {"idle", "done", "failed"},
         StepsOfCall(a, r) \in 1..12, StepsOfCall(b, q) \in 1..12,
         StepsOfCall(b, q) < StepsOfCall(a, r)
  PROVE  StepsLeft(t, b, q, k) < StepsLeft(t, a, r, k)
<1>1. Retries[t] \in Nat
  BY Constants
<1> QED BY <1>1 DEF StepsLeft

\* What is left is a number, up to twelve steps an attempt.
LEMMA LeftCounts ==
  ASSUME IInv, WithinRetries, NEW t \in Threads
  PROVE  /\ Left(t) \in 0 .. 12 * Retries[t]
         /\ at[t] \notin {"idle", "done", "failed"} <=> Left(t) > 0
<1>1. /\ Retries[t] \in Nat \ {0} /\ round[t] \in 1..Retries[t]
      /\ ThreadsTyped /\ ThreadInv(t)
  BY Constants, Parts DEF WithinRetries
<1>2. CASE at[t] \in {"idle", "done", "failed"}
  BY <1>1, <1>2 DEF Left, StepsLeft
<1>3. CASE at[t] \notin {"idle", "done", "failed"}
  <2>1. at[t] \in Places /\ (at[t] = "run" => tier[t] \in Tiers)
    BY <1>1 DEF ThreadsTyped, ThreadInv, Fits
  <2>2. StepsOfCall(at[t], tier[t]) \in 1..12
    BY <1>3, <2>1 DEF StepsOfCall, Places, Tiers, Local, Residential
  <2>3. Left(t) = 12 * (Retries[t] - round[t]) + StepsOfCall(at[t], tier[t])
    BY <1>3 DEF Left, StepsLeft
  <2> QED BY <1>1, <1>3, <2>2, <2>3
<1> QED BY <1>2, <1>3

\* A call that ends is followed by another attempt, or by none.
LEMMA CallEndsCounts ==
  ASSUME ThreadsTyped, WithinRetries, NEW t \in Threads, NEW first \in {"single", "memory"},
         NEW ran, NEW status, NEW raised, CallEnds(t, first, ran, status, raised),
         at[t] \in {"single", "run"}, at[t] = "single" <=> first = "single",
         at[t] = "run" => tier[t] \in Tiers
  PROVE  WithinRetries' /\ Left(t)' < Left(t)
<1>1. /\ Retries[t] \in Nat \ {0} /\ round[t] \in 1..Retries[t]
      /\ at \in [Threads -> Places] /\ round \in [Threads -> Nat]
      /\ tier'[t] = NoTier
  BY Constants DEF WithinRetries, ThreadsTyped, CallEnds
<1>2. PICK n \in 0..4 : /\ at[t] = "run" => n = tier[t]
                        /\ Left(t) = 12 * (Retries[t] - round[t])
                                     + (IF first = "single" THEN 1 ELSE 7 - n)
  BY DEF Left, StepsLeft, StepsOfCall, Tiers, Local, Residential
<1>3. CASE round[t] < Retries[t] /\ Goto(t, first) /\ round' = [round EXCEPT ![t] = @ + 1]
  <2>1. at'[t] = first /\ round'[t] = round[t] + 1
    BY <1>1, <1>3 DEF Goto
  <2>2. Left(t)' = 12 * (Retries[t] - (round[t] + 1)) + (IF first = "single" THEN 1 ELSE 12)
    BY <1>1, <2>1 DEF Left, StepsLeft, StepsOfCall
  <2>3. Left(t)' < Left(t)
    BY <1>1, <1>2, <2>2
  <2>4. ASSUME NEW u \in Threads PROVE round'[u] \in 1..Retries[u]
    <3>1. Retries[u] \in Nat /\ round[u] \in 1..Retries[u]
      BY Constants DEF WithinRetries
    <3>2. CASE u = t
      BY <1>1, <1>3, <2>1, <3>2
    <3>3. CASE u # t
      BY <1>1, <1>3, <3>1, <3>3
    <3> QED BY <3>2, <3>3
  <2> QED BY <2>3, <2>4 DEF WithinRetries
<1>4. CASE (Goto(t, "failed") \/ Goto(t, "done")) /\ UNCHANGED round
  <2>1. at'[t] \in {"failed", "done"}
    BY <1>1, <1>4 DEF Goto
  <2>2. Left(t)' = 0
    BY <2>1 DEF Left, StepsLeft
  <2> QED BY <1>1, <1>2, <1>4, <2>2 DEF WithinRetries
<1> QED BY <1>3, <1>4 DEF CallEnds

\* A step within a call counts.
LEMMA WithinCallCounts ==
  ASSUME IInv, WithinRetries, NEW t \in Threads, UNCHANGED round,
         at'[t] \in Places, at[t] \notin {"idle", "done", "failed"},
         \/ at'[t] \in {"done", "failed"}
         \/ /\ at'[t] # "idle"
            /\ StepsOfCall(at[t], tier[t]) \in 1..12
            /\ StepsOfCall(at'[t], tier'[t]) \in 1..12
            /\ StepsOfCall(at'[t], tier'[t]) < StepsOfCall(at[t], tier[t])
  PROVE  WithinRetries' /\ Left(t)' < Left(t)
<1>1. WithinRetries'
  BY DEF WithinRetries
<1>2. CASE at'[t] \in {"done", "failed"}
  <2>1. Left(t)' = 0
    BY <1>2 DEF Left, StepsLeft
  <2>2. Left(t) \in Int /\ Left(t) > 0
    BY LeftCounts, Constants
  <2> QED BY <1>1, <2>1, <2>2
<1>3. CASE at'[t] \notin {"idle", "done", "failed"}
  <2>1. at[t] \in Places /\ round[t] \in 1..Retries[t]
    BY Parts DEF ThreadsTyped, WithinRetries
  <2>2. PICK k \in 1..Retries[t], a \in Places, b \in Places :
          k = round[t] /\ k = round'[t] /\ a = at[t] /\ b = at'[t]
    BY <2>1
  <2>3. PICK r, q : r = tier[t] /\ q = tier'[t]
    OBVIOUS
  <2>4. StepsLeft(t, b, q, k) < StepsLeft(t, a, r, k)
    BY <1>3, <2>2, <2>3, OnwardCounts
  <2> QED BY <1>1, <2>2, <2>3, <2>4 DEF Left
<1> QED BY <1>2, <1>3

\* Every step of a thread counts.
LEMMA StepCounts ==
  ASSUME IInv, WithinRetries, NEW t \in Threads, Step(t)
  PROVE  WithinRetries' /\ Left(t)' < Left(t)
<1>1. ThreadsTyped /\ ThreadInv(t)
  BY Parts
<1>2. at[t] = "run" => tier[t] \in Tiers
  BY <1>1 DEF ThreadInv, Fits
<1>3. CASE Single(t)
  <2>1. PICK with, o, raised : CallEnds(t, "single", <<with>>, Status(o), raised)
    BY <1>3 DEF Single
  <2> QED BY <1>1, <1>3, <2>1, CallEndsCounts DEF Single
<1>4. CASE ReadMemory(t) \/ Pop(t) \/ ReadRedis(t) \/ Warm(t)
  <2>1. /\ UNCHANGED round
        /\ at[t] \in {"memory", "pop", "redis", "warm"}
        /\ \/ at[t] = "memory" /\ at'[t] \in {"start", "redis", "pop"}
           \/ at[t] = "pop" /\ at'[t] = "redis"
           \/ at[t] = "redis" /\ at'[t] \in {"warm", "start"}
           \/ at[t] = "warm" /\ at'[t] = "start"
    BY <1>1, <1>4 DEF ReadMemory, Pop, ReadRedis, Warm, Goto, ThreadsTyped
  <2> QED BY <2>1, WithinCallCounts DEF StepsOfCall, Places
<1>5. CASE Start(t)
  <2>1. /\ UNCHANGED round /\ at[t] = "start" /\ at'[t] = "run"
        /\ tier'[t] \in Tiers
    BY <1>1, <1>5 DEF Start, Goto, ThreadsTyped, Tiers, Local, Residential
  <2> QED BY <2>1, WithinCallCounts DEF StepsOfCall, Places, Tiers, Local, Residential
<1>6. CASE RunTier(t)
  <2>1. PICK o \in Outcomes :
          \/ Goto(t, "store") /\ UNCHANGED round
          \/ /\ o # "rich" /\ NextTier(Verdict(o), tier[t]) < NoTier
             /\ tier' = [tier EXCEPT ![t] = NextTier(Verdict(o), tier[t])]
             /\ UNCHANGED <<at, round>>
          \/ \E ran, raised : CallEnds(t, "memory", ran, Status(o), raised)
    BY <1>6 DEF RunTier, Possible, NoTier
  <2>2. at[t] = "run" /\ tier[t] \in Tiers
    BY <1>2, <1>6 DEF RunTier
  <2>3. CASE Goto(t, "store") /\ UNCHANGED round
    <3>1. at'[t] = "store"
      BY <1>1, <2>3 DEF Goto, ThreadsTyped
    <3> QED BY <2>2, <2>3, <3>1, WithinCallCounts
            DEF StepsOfCall, Places, Tiers, Local, Residential
  <2>4. CASE /\ o # "rich" /\ NextTier(Verdict(o), tier[t]) < NoTier
             /\ tier' = [tier EXCEPT ![t] = NextTier(Verdict(o), tier[t])]
             /\ UNCHANGED <<at, round>>
    <3>1. PICK r \in Tiers, q \in Tiers :
            r = tier[t] /\ q = NextTier(Verdict(o), tier[t]) /\ r < q
      BY <2>2, <2>4, NextIsDearer
    <3>2. tier'[t] = q /\ at'[t] = "run"
      BY <1>1, <2>2, <2>4, <3>1 DEF ThreadsTyped
    <3> QED BY <2>2, <2>4, <3>1, <3>2, WithinCallCounts
            DEF StepsOfCall, Places, Tiers, Local, Residential
  <2>5. CASE \E ran, raised : CallEnds(t, "memory", ran, Status(o), raised)
    BY <1>1, <2>2, <2>5, CallEndsCounts
  <2> QED BY <2>1, <2>3, <2>4, <2>5
<1>7. CASE Store(t) \/ Publish(t)
  <2>1. /\ UNCHANGED round
        /\ \/ at[t] = "store" /\ at'[t] = "publish"
           \/ at[t] = "publish" /\ at'[t] = "done"
    BY <1>1, <1>7 DEF Store, Publish, Goto, ThreadsTyped
  <2> QED BY <2>1, WithinCallCounts DEF StepsOfCall, Places
<1> QED BY <1>3, <1>4, <1>5, <1>6, <1>7 DEF Step

\* Only a thread's own steps change what is left to it.
OwnSteps == \A t \in Threads : [Begin(t) \/ Step(t)]_<<at[t], tier[t], round[t]>>

LEMMA StepIsOwn ==
  ASSUME IInv, [Next]_vars
  PROVE  OwnSteps
<1> SUFFICES ASSUME NEW u \in Threads, ~Begin(u), ~Step(u)
             PROVE  at'[u] = at[u] /\ tier'[u] = tier[u] /\ round'[u] = round[u]
  BY DEF OwnSteps
<1>1. ThreadsTyped
  BY Parts
<1>2. ASSUME NEW t \in Threads, Begin(t) \/ Step(t)
      PROVE  at'[u] = at[u] /\ tier'[u] = tier[u] /\ round'[u] = round[u]
  <2>1. u # t
    BY <1>2
  <2>2. CASE Begin(t)
    BY <1>1, <2>1, <2>2 DEF Begin, Goto, ThreadsTyped
  <2>3. ASSUME NEW first, NEW ran, NEW status, NEW raised,
               CallEnds(t, first, ran, status, raised)
        PROVE  at'[u] = at[u] /\ tier'[u] = tier[u] /\ round'[u] = round[u]
    BY <1>1, <2>1, <2>3 DEF CallEnds, Goto, ThreadsTyped
  <2>4. CASE Single(t)
    BY <2>3, <2>4 DEF Single
  <2>5. CASE ReadMemory(t) \/ Pop(t) \/ ReadRedis(t) \/ Warm(t) \/ Start(t)
    BY <1>1, <2>1, <2>5 DEF ReadMemory, Pop, ReadRedis, Warm, Start, Goto, ThreadsTyped
  <2>6. CASE RunTier(t)
    BY <1>1, <2>1, <2>3, <2>6 DEF RunTier, Goto, ThreadsTyped
  <2>7. CASE Store(t) \/ Publish(t)
    BY <1>1, <2>1, <2>7 DEF Store, Publish, Goto, ThreadsTyped
  <2> QED BY <1>2, <2>2, <2>4, <2>5, <2>6, <2>7 DEF Step
<1>3. CASE (\E p \in Procs : ExpireMemory(p)) \/ ExpireRedis \/ UNCHANGED vars
  BY <1>3 DEF ExpireMemory, ExpireRedis, vars
<1> QED BY <1>2, <1>3 DEF Next

\* A step that begins a page, or is none, keeps the attempts within the retries.
LEMMA RoundsKept == IInv /\ WithinRetries /\ [Next]_vars => WithinRetries'
<1> SUFFICES ASSUME IInv, WithinRetries, [Next]_vars PROVE WithinRetries'
  OBVIOUS
<1>1. ASSUME NEW t \in Threads, Begin(t) PROVE WithinRetries'
  BY <1>1, Parts, Constants DEF Begin, WithinRetries, ThreadsTyped
<1>2. ASSUME NEW t \in Threads, Step(t) PROVE WithinRetries'
  BY <1>2, StepCounts
<1>3. CASE (\E p \in Procs : ExpireMemory(p)) \/ ExpireRedis \/ UNCHANGED vars
  BY <1>3 DEF ExpireMemory, ExpireRedis, vars, WithinRetries
<1> QED BY <1>1, <1>2, <1>3 DEF Next

\* No fetch makes more attempts than its max_retries (the loop of fetch_with_retries).
THEOREM AlwaysWithinRetries == Spec => [](IInv /\ WithinRetries)
<1>1. Init => WithinRetries
  BY Constants DEF Init, WithinRetries
<1> QED BY <1>1, InitInv, NextInv, RoundsKept, PTL DEF Spec

\* Between two pages each step of a thread uses up one of at most twelve for each
\* attempt, and nothing another thread or an expiry does gives it one back: whatever
\* the outcomes and the profiles, fetch_with_retries returns or raises within as many
\* of its thread's steps.
Dwindles ==
  \A t \in Threads : ~Begin(t) => /\ Left(t)' <= Left(t)
                                  /\ Step(t) => Left(t)' < Left(t)

\* ... and there is something left to do exactly while a page is being fetched.
Bounded ==
  \A t \in Threads : /\ Left(t) \in 0 .. 12 * Retries[t]
                     /\ at[t] \notin {"idle", "done", "failed"} <=> Left(t) > 0

\* Every fetch comes to its end within twelve steps of its thread for each attempt
\* (fetch_with_retries, fetch_with_strategy).
THEOREM FetchIsBounded == Spec => []Bounded /\ [][Dwindles]_vars
<1>1. IInv /\ WithinRetries => Bounded
  BY LeftCounts DEF Bounded
<1>2. IInv /\ WithinRetries /\ Bounded /\ Bounded' /\ [Next]_vars => [Dwindles]_vars
  <2> SUFFICES ASSUME IInv, WithinRetries, Bounded, Bounded', [Next]_vars PROVE Dwindles
    OBVIOUS
  <2>1. ASSUME NEW t \in Threads, Step(t) PROVE Left(t)' < Left(t)
    BY <2>1, StepCounts
  <2>2. ASSUME NEW t \in Threads, ~Begin(t), ~Step(t) PROVE Left(t)' = Left(t)
    BY <2>2, StepIsOwn DEF OwnSteps, Left
  <2>3. \A t \in Threads : Left(t) \in Int /\ Left(t)' \in Int
    BY Constants DEF Bounded
  <2> QED BY <2>1, <2>2, <2>3 DEF Dwindles
<1> QED BY <1>1, <1>2, AlwaysWithinRetries, PTL DEF Spec
=============================================================================
