--------------------------- MODULE CrawlBFS_proofs ---------------------------
(***************************************************************************)
(* CrawlBFS for every site, every size of the pool and of the budget: the  *)
(* types, the exact budget, pages without duplicates, no URL lost between  *)
(* the frontier, the pool and the batch, the gates of the seed's host, the *)
(* depths of the pages, and that the crawl neither gets stuck nor runs on. *)
(***************************************************************************)
EXTENDS CrawlBFS, FiniteSetTheorems, SequenceTheorems, TLAPS

UrlsOf(s) == {s[i].url : i \in DOMAIN s}

\* What is submitted and what is yielded fits the budget.
WithinBudget == count + Cardinality(inFlight) <= Limit

\* A seen URL is under way, yielded or reported, and only seen URLs are.
SeenIsKept ==
  /\ seen \subseteq inFlight \cup Got \cup errors
  /\ inFlight \subseteq seen /\ Got \subseteq seen
  /\ Got \cap inFlight = {}

\* A queued URL is still on the frontier or was seen.
QueuedIsKept == queued \subseteq UrlsOf(queue) \cup seen

\* Only submitted URLs have a thread.
ActiveIsInFlight == Active \subseteq inFlight

\* The crawl ends with nothing under way and, below its limit, nothing queued.
EndedIsEmpty ==
  phase \in {"ending", "done"} => /\ inFlight = {}
                                  /\ count < Limit => queue = <<>>

IInv ==
  /\ TypeOK
  /\ WithinBudget
  /\ SeenIsKept
  /\ QueuedIsKept
  /\ ActiveIsInFlight
  /\ EndedIsEmpty
  /\ PagesDistinct

----------------------------------------------------------------------------
(* Numbers, lists and sets. *)

\* The limits are positive numbers, whatever the request and the environment say.
LEMMA Numbers ==
  /\ Limit \in Nat \ {0} /\ MaxDepth \in Nat /\ HostCap \in Nat \ {0}
  /\ GlobalCap \in Nat \ {0}
  /\ \A g \in Gates : Permits(g) \in Nat \ {0}
BY Constants DEF Limit, MaxDepth, HostCap, Gates, Permits

\* Sets of URLs are finite, and gain or lose one element at a time.
LEMMA UrlSets ==
  ASSUME NEW S \in SUBSET URLs
  PROVE  /\ IsFiniteSet(S) /\ Cardinality(S) \in Nat
         /\ Cardinality(S) = 0 <=> S = {}
         /\ \A u \in URLs :
              /\ u \notin S => Cardinality(S \cup {u}) = Cardinality(S) + 1
              /\ u \in S => Cardinality(S \ {u}) = Cardinality(S) - 1
<1>1. IsFiniteSet(S)
  BY Constants, FS_Subset
<1> QED BY <1>1, FS_CardinalityType, FS_EmptySet, FS_AddElement, FS_RemoveElement

\* A set listed in some order is a sequence of its elements, all of them.
LEMMA Listed ==
  ASSUME NEW S \in SUBSET URLs, NEW s \in SetToSeqs(S)
  PROVE  s \in Seq(S) /\ S = {s[i] : i \in DOMAIN s}
<1> DEFINE n == Cardinality(S)
<1>1. IsFiniteSet(S) /\ n \in Nat
  BY UrlSets
<1>2. s \in [1..n -> S] /\ \A i, j \in 1..n : i # j => s[i] # s[j]
  BY DEF SetToSeqs
<1>3. s \in Injection(1..n, S)
  BY <1>2 DEF Injection, IsInjective
<1>4. IsFiniteSet(1..n) /\ Cardinality(1..n) = n
  BY <1>1, FS_Interval
<1>5. s \in Surjection(1..n, S)
  BY <1>1, <1>3, <1>4, FS_Injection
<1>6. S = {s[i] : i \in DOMAIN s}
  BY <1>2, <1>5 DEF Surjection
<1>7. s \in Seq(S)
  BY <1>1, <1>2
<1> QED BY <1>6, <1>7

\* The URLs of a list from which the head is taken.
LEMMA UrlsOfTail ==
  ASSUME NEW s \in Seq(Entry), s # <<>>
  PROVE  /\ Head(s) \in Entry /\ Tail(s) \in Seq(Entry)
         /\ UrlsOf(s) \subseteq UrlsOf(Tail(s)) \cup {Head(s).url}
<1>1. /\ Head(s) \in Entry /\ Tail(s) \in Seq(Entry) /\ Head(s) = s[1]
      /\ Len(s) \in Nat \ {0} /\ Len(Tail(s)) = Len(s) - 1
      /\ \A i \in 1..(Len(s) - 1) : Tail(s)[i] = s[i + 1]
      /\ DOMAIN s = 1..Len(s) /\ DOMAIN Tail(s) = 1..(Len(s) - 1)
  BY EmptySeq, HeadTailProperties
<1>2. ASSUME NEW i \in 2..Len(s) PROVE s[i].url \in UrlsOf(Tail(s))
  <2>1. i - 1 \in 1..(Len(s) - 1) /\ Tail(s)[i - 1] = s[i]
    BY <1>1
  <2> QED BY <1>1, <2>1 DEF UrlsOf
<1> QED BY <1>1, <1>2 DEF UrlsOf

\* The URLs of two lists put together.
LEMMA UrlsOfConcat ==
  ASSUME NEW s \in Seq(Entry), NEW t \in Seq(Entry)
  PROVE  s \o t \in Seq(Entry) /\ UrlsOf(s) \cup UrlsOf(t) \subseteq UrlsOf(s \o t)
<1>1. /\ s \o t \in Seq(Entry) /\ DOMAIN (s \o t) = 1..(Len(s) + Len(t))
      /\ \A i \in 1 .. Len(s) + Len(t) :
           (s \o t)[i] = IF i <= Len(s) THEN s[i] ELSE t[i - Len(s)]
      /\ Len(s) \in Nat /\ Len(t) \in Nat
      /\ DOMAIN s = 1..Len(s) /\ DOMAIN t = 1..Len(t)
  BY ConcatProperties
<1>2. ASSUME NEW i \in DOMAIN s PROVE s[i].url \in UrlsOf(s \o t)
  BY <1>1 DEF UrlsOf
<1>3. ASSUME NEW i \in DOMAIN t PROVE t[i].url \in UrlsOf(s \o t)
  <2>1. Len(s) + i \in 1..(Len(s) + Len(t)) /\ (s \o t)[Len(s) + i] = t[i]
    BY <1>1
  <2> QED BY <1>1, <2>1 DEF UrlsOf
<1> QED BY <1>1, <1>2, <1>3 DEF UrlsOf

\* The entries made of a page's fresh links.
LEMMA UrlsOfEntries ==
  ASSUME NEW S \in SUBSET URLs, NEW s \in SetToSeqs(S), NEW d \in Nat,
         S # {} => d <= MaxDepth
  PROVE  Entries(s, d) \in Seq(Entry) /\ UrlsOf(Entries(s, d)) = S
<1>1. s \in Seq(S) /\ S = {s[i] : i \in DOMAIN s}
  BY Listed
<1>2. \A i \in DOMAIN s : s[i] \in S /\ [url |-> s[i], depth |-> d] \in Entry
  BY <1>1, Numbers DEF Entry
<1>3. DOMAIN s = 1..Len(s) /\ Len(s) \in Nat
  BY <1>1
<1>4. Entries(s, d) \in [1..Len(s) -> Entry]
  BY <1>2, <1>3 DEF Entries
<1>5. Entries(s, d) \in Seq(Entry)
  BY <1>3, <1>4
<1>6. UrlsOf(Entries(s, d)) = {s[i] : i \in DOMAIN s}
  BY DEF UrlsOf, Entries
<1> QED BY <1>1, <1>5, <1>6

\* The pages once one more is yielded.
LEMMA OneMorePage ==
  ASSUME pages \in Seq(Entry), NEW u \in URLs, NEW d \in 0..MaxDepth,
         pages' = Append(pages, [url |-> u, depth |-> d])
  PROVE  /\ pages' \in Seq(Entry) /\ count \in Nat /\ count' = count + 1
         /\ Got' = Got \cup {u}
         /\ PagesDistinct /\ u \notin Got => PagesDistinct'
<1> DEFINE e == [url |-> u, depth |-> d]
<1>1. e \in Entry /\ e.url = u
  BY DEF Entry
<1> HIDE DEF e
<1>2. /\ pages' \in Seq(Entry) /\ Len(pages) \in Nat /\ Len(pages') = Len(pages) + 1
      /\ DOMAIN pages = 1..Len(pages) /\ DOMAIN pages' = 1..(Len(pages) + 1)
      /\ \A i \in 1..Len(pages) : pages'[i] = pages[i]
      /\ pages'[Len(pages) + 1] = e
  BY <1>1, AppendProperties DEF e
<1>3. Got' = Got \cup {u}
  BY <1>1, <1>2 DEF Got
<1>4. PagesDistinct /\ u \notin Got => PagesDistinct'
  BY <1>1, <1>2 DEF PagesDistinct, Got
<1> QED BY <1>2, <1>3, <1>4 DEF count

----------------------------------------------------------------------------
(* The steps of the generator's thread. *)

\* Taking the head of the frontier.
LEMMA PopStep == IInv /\ Pop => IInv'
<1> SUFFICES ASSUME IInv, Pop PROVE IInv'
  OBVIOUS
<1> DEFINE u == Head(queue).url
           d == Head(queue).depth
<1>1. /\ u \in URLs /\ d \in 0..MaxDepth
      /\ queue' \in Seq(Entry) /\ UrlsOf(queue) \subseteq UrlsOf(queue') \cup {u}
  BY UrlsOfTail DEF IInv, TypeOK, Pop, Room, Entry
<1>2. /\ phase = "loop" /\ seen' = seen \cup {u} /\ Room
      /\ UNCHANGED <<site, phase, queued, batch, pages, gate, table, mine, permits>>
  BY DEF Pop
<1>3. QueuedIsKept' /\ PagesDistinct' /\ EndedIsEmpty'
  BY <1>1, <1>2 DEF IInv, QueuedIsKept, PagesDistinct, EndedIsEmpty
<1>4. CASE u \in seen /\ UNCHANGED <<inFlight, depth, errors, step>>
  <2>1. TypeOK' /\ WithinBudget' /\ SeenIsKept' /\ ActiveIsInFlight'
    BY <1>1, <1>2, <1>4 DEF IInv, TypeOK, WithinBudget, SeenIsKept,
       ActiveIsInFlight, Active, Got, count
  <2> QED BY <1>3, <2>1 DEF IInv
<1>5. CASE errors' = errors \cup {u} /\ UNCHANGED <<inFlight, depth, step>>
  <2>1. TypeOK' /\ WithinBudget' /\ SeenIsKept' /\ ActiveIsInFlight'
    BY <1>1, <1>2, <1>5 DEF IInv, TypeOK, WithinBudget, SeenIsKept,
       ActiveIsInFlight, Active, Got, count
  <2> QED BY <1>3, <2>1 DEF IInv
<1>6. CASE u \notin seen /\ Submit(u, d) /\ UNCHANGED errors
  <2>1. TypeOK'
    BY <1>1, <1>2, <1>6 DEF IInv, TypeOK, Submit
  <2>2. u \notin inFlight /\ u \notin Got
    BY <1>6 DEF IInv, SeenIsKept
  <2>3. WithinBudget'
    <3>1. /\ Cardinality(inFlight') = Cardinality(inFlight) + 1
          /\ Cardinality(inFlight) \in Nat
      BY <1>1, <1>6, <2>2, UrlSets DEF IInv, TypeOK, Submit
    <3>2. count \in Nat /\ count' = count /\ Limit \in Nat
      BY <1>2, Numbers DEF IInv, TypeOK, count
    <3> QED BY <1>2, <3>1, <3>2 DEF WithinBudget, Room
  <2>4. SeenIsKept'
    <3>1. inFlight' = inFlight \cup {u} /\ Got' = Got /\ UNCHANGED errors
      BY <1>2, <1>6 DEF Submit, Got
    <3> QED BY <1>2, <2>2, <3>1 DEF IInv, SeenIsKept
  <2>5. ActiveIsInFlight'
    BY <1>6 DEF IInv, TypeOK, ActiveIsInFlight, Active, Submit
  <2> QED BY <1>3, <2>1, <2>3, <2>4, <2>5 DEF IInv
<1> QED BY <1>1, <1>4, <1>5, <1>6, Numbers DEF Pop

\* What is known of a URL of the batch.
LEMMA BatchFacts ==
  ASSUME IInv, NEW u \in batch
  PROVE  /\ u \in URLs /\ u \in inFlight /\ u \in seen /\ u \notin Got
         /\ depth[u] \in 0..MaxDepth
         /\ count \in Nat /\ Limit \in Nat
         /\ Cardinality(inFlight) \in Nat \ {0}
         /\ Cardinality(inFlight \ {u}) = Cardinality(inFlight) - 1
         /\ count < Limit
<1>1. /\ u \in URLs /\ u \in inFlight /\ u \in seen /\ u \notin Got
      /\ depth[u] \in 0..MaxDepth
      /\ count \in Nat /\ Limit \in Nat
  BY Numbers DEF IInv, TypeOK, SeenIsKept, count
<1>2. /\ Cardinality(inFlight) \in Nat \ {0}
      /\ Cardinality(inFlight \ {u}) = Cardinality(inFlight) - 1
  BY <1>1, UrlSets DEF IInv, TypeOK
<1>3. count < Limit
  BY <1>1, <1>2 DEF IInv, WithinBudget
<1> QED BY <1>1, <1>2, <1>3

\* Yielding a page of the batch, with or without its links.
LEMMA PageStep ==
  ASSUME IInv, NEW u \in URLs, CollectPage(u) \/ Abandon(u)
  PROVE  IInv'
<1>1. /\ u \in batch /\ step[u] = "ok" /\ phase = "loop"
      /\ batch' = batch \ {u} /\ inFlight' = inFlight \ {u}
      /\ pages' = Append(pages, [url |-> u, depth |-> depth[u]])
      /\ UNCHANGED <<site, seen, depth, errors, step, gate, table, mine, permits>>
      /\ phase' \in {"loop", "closing"}
  BY DEF CollectPage, Abandon, Collected, pool
<1>2. /\ pages' \in Seq(Entry) /\ count \in Nat /\ count' = count + 1
      /\ Got' = Got \cup {u} /\ PagesDistinct'
  BY <1>1, BatchFacts, OneMorePage DEF IInv, TypeOK
<1>3. /\ queue' \in Seq(Entry) /\ queued' \in SUBSET URLs
      /\ QueuedIsKept'
  <2>1. CASE Abandon(u)
    BY <1>1, <2>1 DEF Abandon, IInv, TypeOK, QueuedIsKept
  <2>2. CASE CollectPage(u)
    <3>1. PICK s \in SetToSeqs(Fresh(u)) : queue' = queue \o Entries(s, depth[u] + 1)
      BY <2>2 DEF CollectPage
    <3>2. /\ Fresh(u) \in SUBSET URLs
          /\ Fresh(u) # {} => depth[u] + 1 <= MaxDepth
          /\ depth[u] + 1 \in Nat
      <4>1. depth[u] \in 0..MaxDepth /\ MaxDepth \in Nat
        BY <1>1, BatchFacts, Numbers
      <4>2. Fresh(u) # {} => depth[u] < MaxDepth
        BY DEF Fresh, Followed
      <4>3. Fresh(u) \in SUBSET URLs
        BY Constants DEF Fresh
      <4> QED BY <4>1, <4>2, <4>3
    <3>3. Entries(s, depth[u] + 1) \in Seq(Entry)
          /\ UrlsOf(Entries(s, depth[u] + 1)) = Fresh(u)
      BY <3>1, <3>2, UrlsOfEntries
    <3>4. queue' \in Seq(Entry) /\ UrlsOf(queue) \cup Fresh(u) \subseteq UrlsOf(queue')
      BY <3>1, <3>3, UrlsOfConcat DEF IInv, TypeOK
    <3>5. queued' = queued \cup Fresh(u)
      BY <2>2 DEF CollectPage
    <3> QED BY <1>1, <3>2, <3>4, <3>5 DEF IInv, TypeOK, QueuedIsKept
  <2> QED BY <2>1, <2>2
<1>4. TypeOK'
  BY <1>1, <1>2, <1>3 DEF IInv, TypeOK
<1>5. WithinBudget'
  BY <1>1, <1>2, BatchFacts DEF IInv, WithinBudget
<1>6. SeenIsKept'
  BY <1>1, <1>2, BatchFacts DEF IInv, SeenIsKept
<1>7. ActiveIsInFlight' /\ EndedIsEmpty'
  BY <1>1 DEF IInv, ActiveIsInFlight, Active, EndedIsEmpty
<1> QED BY <1>2, <1>3, <1>4, <1>5, <1>6, <1>7 DEF IInv

\* Collecting a failed fetch; the budget leaves no page to drop.
LEMMA NothingStep ==
  ASSUME IInv, NEW u \in URLs, CollectNothing(u)
  PROVE  IInv'
<1>1. /\ u \in batch /\ phase = "loop"
      /\ batch' = batch \ {u} /\ inFlight' = inFlight \ {u}
      /\ UNCHANGED <<site, phase, queue, seen, queued, depth, pages, step, gate, table,
                     mine, permits>>
  BY DEF CollectNothing, Collected, pool
<1>2. step[u] = "err" /\ errors' = errors \cup {u}
  BY <1>1, BatchFacts DEF CollectNothing
<1>3. TypeOK'
  BY <1>1, <1>2 DEF IInv, TypeOK
<1>4. WithinBudget'
  BY <1>1, BatchFacts DEF IInv, WithinBudget, count
<1>5. SeenIsKept' /\ QueuedIsKept' /\ PagesDistinct'
  BY <1>1, <1>2 DEF IInv, SeenIsKept, QueuedIsKept, PagesDistinct, Got
<1>6. ActiveIsInFlight' /\ EndedIsEmpty'
  BY <1>1, <1>2 DEF IInv, ActiveIsInFlight, Active, EndedIsEmpty
<1> QED BY <1>3, <1>4, <1>5, <1>6 DEF IInv

\* Leaving the loop: nothing is under way, and below the limit nothing queued.
LEMMA LeaveStep == IInv /\ Leave => IInv'
<1> SUFFICES ASSUME IInv, Leave PROVE IInv'
  OBVIOUS
<1>1. phase' = "ending" /\ UNCHANGED <<site, queue, seen, queued, inFlight, depth, batch,
                                       pages, errors, step, gate, table, mine, permits>>
  BY DEF Leave, pool
<1>2. /\ count \in Nat /\ Limit \in Nat /\ Cardinality(inFlight) \in Nat
      /\ Cardinality(inFlight) = 0 <=> inFlight = {}
      /\ count + Cardinality(inFlight) <= Limit
  BY Numbers, UrlSets DEF IInv, TypeOK, WithinBudget, count
<1>3. inFlight = {}
  BY <1>2 DEF Leave
<1>4. count < Limit => queue = <<>>
  BY <1>2, <1>3, Numbers DEF Leave, Room
<1>5. EndedIsEmpty'
  BY <1>1, <1>3, <1>4 DEF EndedIsEmpty, count
<1>6. TypeOK'
  BY <1>1 DEF IInv, TypeOK
<1> QED BY <1>1, <1>5, <1>6 DEF IInv, WithinBudget, SeenIsKept, QueuedIsKept,
           ActiveIsInFlight, PagesDistinct, Active, Got, count

\* wait() returning and the pool shutting down.
LEMMA QuietStep == IInv /\ (Wait \/ Shutdown) => IInv'
<1> SUFFICES ASSUME IInv, Wait \/ Shutdown PROVE IInv'
  OBVIOUS
<1>1. /\ UNCHANGED <<site, queue, seen, queued, inFlight, depth, pages, errors, step,
                     gate, table, mine, permits>>
      /\ batch' \subseteq inFlight
      /\ phase' \in {"loop", "done", "closed"}
      /\ phase' = "done" => phase = "ending"
  BY DEF Wait, Shutdown, pool, IInv, TypeOK
<1>2. TypeOK'
  BY <1>1 DEF IInv, TypeOK
<1>3. EndedIsEmpty'
  BY <1>1 DEF IInv, EndedIsEmpty, count
<1> QED BY <1>1, <1>2, <1>3 DEF IInv, WithinBudget, SeenIsKept, QueuedIsKept,
           ActiveIsInFlight, PagesDistinct, Active, Got, count

----------------------------------------------------------------------------
(* The steps of the pool's threads. *)

\* Updating an entry of a table of tables keeps its type.
LEMMA TwoLevels ==
  ASSUME NEW A, NEW B, NEW C, NEW f \in [A -> [B -> C]], NEW a \in A, NEW b, NEW c,
         b \in B => c \in C
  PROVE  [f EXCEPT ![a][b] = c] \in [A -> [B -> C]]
<1>1. [f[a] EXCEPT ![b] = c] \in [B -> C]
  OBVIOUS
<1> QED BY <1>1

\* They keep the pool's types and start nobody.
LEMMA ThreadFacts ==
  ASSUME TypeOK, NEW u \in URLs, Thread(u)
  PROVE  TypeOK' /\ UNCHANGED main /\ Active' \subseteq Active
<1>0. /\ gate[u] \in Gates /\ "lock" \in Gates /\ "sem" \in Gates
      /\ HostOf[u] \in Host
  BY Constants DEF TypeOK, Gates
<1>1. /\ UNCHANGED main /\ u \in Active
      /\ \E s \in {"make", "look", "wait", "delay", "fetch", "ok", "err"} : Goto(u, s)
  BY DEF Thread, Look, Make, Acquire, Delay, Fetch, Active
<1>2. /\ Active' \subseteq Active
      /\ step' \in [URLs -> {"idle", "look", "make", "wait", "delay", "fetch", "ok",
                             "err"}]
  BY <1>1 DEF Goto, TypeOK, Active
<1>3. gate' \in [URLs -> Gates]
  <2>1. gate' = gate \/ gate' = [gate EXCEPT ![u] = "lock"]
    BY DEF Thread, Look, Make, Acquire, Delay, Fetch
  <2> QED BY <1>0, <2>1 DEF TypeOK
<1>4. table' \in [Gates -> [Host -> URLs \cup {NoUrl}]]
  <2>1. CASE Make(u)
    BY <1>0, <2>1, TwoLevels DEF Make, TypeOK
  <2>2. CASE Look(u) \/ Acquire(u) \/ Delay(u) \/ Fetch(u)
    BY <2>2 DEF Look, Acquire, Delay, Fetch, TypeOK
  <2> QED BY <2>1, <2>2 DEF Thread
<1>5. mine' \in [Gates -> [URLs -> URLs \cup {NoUrl}]]
  <2>1. CASE Make(u)
    BY <1>0, <2>1, TwoLevels DEF Make, TypeOK
  <2>2. CASE Look(u)
    <3>1. PICK o \in URLs \cup {NoUrl} : o = table[gate[u]][HostOf[u]]
      BY <1>0 DEF TypeOK
    <3>2. mine' = mine \/ mine' = [mine EXCEPT ![gate[u]][u] = o]
      BY <2>2, <3>1 DEF Look
    <3>3. PICK g \in Gates : g = gate[u]
      BY <1>0
    <3>4. mine \in [Gates -> [URLs -> URLs \cup {NoUrl}]]
      BY DEF TypeOK
    <3>5. [mine EXCEPT ![g][u] = o] \in [Gates -> [URLs -> URLs \cup {NoUrl}]]
      BY <3>1, <3>3, <3>4, TwoLevels
    <3> QED BY <3>2, <3>3, <3>4, <3>5
  <2>3. CASE Acquire(u) \/ Delay(u) \/ Fetch(u)
    BY <2>3 DEF Acquire, Delay, Fetch, TypeOK
  <2> QED BY <2>1, <2>2, <2>3 DEF Thread
<1>6. permits' \in [Gates -> [URLs -> Nat]]
  <2>1. ASSUME NEW g \in Gates, NEW n,
               mine[g][u] \in URLs => n \in Nat,
               permits' = [permits EXCEPT ![g][mine[g][u]] = n]
        PROVE  permits' \in [Gates -> [URLs -> Nat]]
    <3>1. PICK o : o = mine[g][u]
      OBVIOUS
    <3>2. permits' = [permits EXCEPT ![g][o] = n] /\ (o \in URLs => n \in Nat)
      BY <2>1, <3>1
    <3>3. permits \in [Gates -> [URLs -> Nat]]
      BY DEF TypeOK
    <3>4. [permits EXCEPT ![g][o] = n] \in [Gates -> [URLs -> Nat]]
      BY <3>2, <3>3, TwoLevels
    <3> QED BY <3>2, <3>4
  <2>2. ASSUME NEW g \in Gates, Release(u, g)
        PROVE  permits' \in [Gates -> [URLs -> Nat]]
    <3>1. PICK n : n = permits[g][mine[g][u]] + 1
      OBVIOUS
    <3>2. mine[g][u] \in URLs => n \in Nat
      BY <3>1 DEF TypeOK
    <3> QED BY <2>1, <2>2, <3>1, <3>2 DEF Release
  <2>3. CASE Acquire(u)
    <3>1. PICK g \in Gates : g = gate[u]
      BY <1>0
    <3>2. PICK n : n = permits[g][mine[g][u]] - 1
      OBVIOUS
    <3>3. mine[g][u] \in URLs => permits[g][mine[g][u]] \in Nat
      BY DEF TypeOK
    <3>4. permits[g][mine[g][u]] > 0
      BY <2>3, <3>1 DEF Acquire
    <3>5. permits' = [permits EXCEPT ![g][mine[g][u]] = n]
      BY <2>3, <3>1, <3>2 DEF Acquire
    <3>6. mine[g][u] \in URLs => n \in Nat
      BY <3>2, <3>3, <3>4
    <3> QED BY <2>1, <3>5, <3>6
  <2>4. CASE Look(u) \/ Make(u)
    BY <2>4 DEF Look, Make, TypeOK
  <2>5. CASE Delay(u) \/ Fetch(u)
    BY <1>0, <2>2, <2>5 DEF Delay, Fetch
  <2> QED BY <2>3, <2>4, <2>5 DEF Thread
<1> QED BY <1>1, <1>2, <1>3, <1>4, <1>5, <1>6 DEF TypeOK, main

\* They keep the invariant.
LEMMA ThreadStep ==
  ASSUME IInv, NEW u \in URLs, Thread(u)
  PROVE  IInv'
BY ThreadFacts DEF IInv, main, WithinBudget, SeenIsKept, QueuedIsKept,
   ActiveIsInFlight, EndedIsEmpty, PagesDistinct, Got, count

----------------------------------------------------------------------------
(* The gates of the seed's host. *)

Home == HostOf[Seed]
Stored(g) == table[g][Home] = Seed

\* The seed is fetched before anything else is queued or started.
SeedFirst ==
  step[Seed] \notin {"ok", "err"} =>
    UrlsOf(queue) \subseteq {Seed} /\ \A u \in URLs \ {Seed} : step[u] = "idle"

\* A thread starts once, at the semaphore.
StartsOnce ==
  \A u \in URLs : IF step[u] = "idle" THEN gate[u] = "sem" ELSE u \in seen

\* The seed's thread made the objects of its host: the other threads of that
\* host find them, and those of other hosts never do.
Holds(u) ==
  /\ step[u] = "make" => u = Seed
  /\ step[u] = "wait" => mine[gate[u]][u] = Seed /\ Stored(gate[u])
  /\ step[u] # "idle" /\ gate[u] = "lock" => mine["sem"][u] = Seed /\ Stored("sem")
  /\ step[u] \in {"delay", "fetch", "ok", "err"} =>
       gate[u] = "lock" /\ mine["lock"][u] = Seed /\ Stored("lock")

OneObject ==
  /\ \A u \in URLs : HostOf[u] = Home => Holds(u)
  /\ \A g \in Gates : table[g][Home] \in {NoUrl, Seed}

Apart ==
  \A g \in Gates :
    /\ \A u \in URLs : HostOf[u] # Home => mine[g][u] # Seed
    /\ \A h \in Host \ {Home} : table[g][h] # Seed

\* What the seed's objects have given out is held by the threads at its gates.
Balanced ==
  /\ permits["sem"][Seed] + Cardinality(InGate(Home)) = HostCap
  /\ permits["lock"][Seed] + Cardinality(InDelay(Home)) = 1

Gated == SeedFirst /\ StartsOnce /\ OneObject /\ Apart /\ Balanced

\* The head of a list is one of its URLs, and its tail has no others.
LEMMA TailIsWithin ==
  ASSUME NEW s \in Seq(Entry), s # <<>>
  PROVE  UrlsOf(Tail(s)) \cup {Head(s).url} \subseteq UrlsOf(s)
<1>1. /\ Head(s) = s[1] /\ Len(s) \in Nat \ {0} /\ Len(Tail(s)) = Len(s) - 1
      /\ \A i \in 1..(Len(s) - 1) : Tail(s)[i] = s[i + 1]
      /\ DOMAIN s = 1..Len(s) /\ DOMAIN Tail(s) = 1..(Len(s) - 1)
  BY EmptySeq, HeadTailProperties
<1>2. ASSUME NEW i \in 1..(Len(s) - 1) PROVE Tail(s)[i].url \in UrlsOf(s)
  <2>1. i + 1 \in DOMAIN s /\ Tail(s)[i] = s[i + 1]
    BY <1>1
  <2> QED BY <2>1 DEF UrlsOf
<1>3. Head(s).url \in UrlsOf(s)
  <2>1. 1 \in DOMAIN s
    BY <1>1
  <2> QED BY <1>1, <2>1 DEF UrlsOf
<1> QED BY <1>1, <1>2, <1>3 DEF UrlsOf

\* One entry of a table of tables is changed.
LEMMA OneCell ==
  ASSUME NEW A, NEW B, NEW C, NEW f \in [A -> [B -> C]], NEW a \in A, NEW b, NEW c
  PROVE  \A x \in A, y \in B :
           [f EXCEPT ![a][b] = c][x][y] = IF x = a /\ y = b THEN c ELSE f[x][y]
<1>1. ASSUME NEW x \in A, NEW y \in B
      PROVE  [f EXCEPT ![a][b] = c][x][y] = IF x = a /\ y = b THEN c ELSE f[x][y]
  <2>1. [f EXCEPT ![a][b] = c][a] = [f[a] EXCEPT ![b] = c]
    OBVIOUS
  <2>2. x # a => [f EXCEPT ![a][b] = c][x] = f[x]
    OBVIOUS
  <2>3. f[a] \in [B -> C]
    OBVIOUS
  <2> QED BY <2>1, <2>2, <2>3
<1> QED BY <1>1

\* The steps of the generator that neither start nor follow anything.
LEMMA GeneratorGated ==
  ASSUME IInv, Gated, UNCHANGED <<seen, pool>>, UrlsOf(queue') \subseteq UrlsOf(queue)
  PROVE  Gated'
<1>1. UNCHANGED <<seen, step, gate, table, mine, permits>>
  BY DEF pool
<1>2. InGate(Home)' = InGate(Home) /\ InDelay(Home)' = InDelay(Home)
  BY <1>1 DEF InGate, InDelay, Active
<1>3. SeedFirst' /\ StartsOnce' /\ Balanced'
  BY <1>1, <1>2 DEF Gated, SeedFirst, StartsOnce, Balanced, UrlsOf
<1>4. OneObject' /\ Apart'
  BY <1>1 DEF Gated, OneObject, Holds, Stored, Apart
<1> QED BY <1>3, <1>4 DEF Gated

\* Yielding a page, and with it the links that join the frontier: by then the
\* seed has been fetched.
LEMMA PageGated ==
  ASSUME IInv, Gated, NEW u \in URLs, CollectPage(u) \/ Abandon(u)
  PROVE  Gated'
<1>1. /\ UNCHANGED <<seen, step, gate, table, mine, permits>> /\ step[u] = "ok"
  BY DEF CollectPage, Abandon, pool
<1>2. step[Seed] \in {"ok", "err"}
  BY <1>1 DEF Gated, SeedFirst
<1>3. SeedFirst'
  BY <1>1, <1>2 DEF SeedFirst
<1>4. InGate(Home)' = InGate(Home) /\ InDelay(Home)' = InDelay(Home)
  BY <1>1 DEF InGate, InDelay, Active
<1>5. StartsOnce' /\ Balanced' /\ OneObject' /\ Apart'
  BY <1>1, <1>4 DEF Gated, StartsOnce, Balanced, OneObject, Holds, Stored, Apart
<1> QED BY <1>3, <1>5 DEF Gated

\* Taking the head of the frontier: a thread is started before its first gate.
LEMMA PopGated ==
  ASSUME IInv, Gated, Pop
  PROVE  Gated'
<1> DEFINE u == Head(queue).url
           d == Head(queue).depth
<1>1. /\ u \in URLs /\ u \in UrlsOf(queue) /\ UrlsOf(queue') \subseteq UrlsOf(queue)
  BY UrlsOfTail, TailIsWithin DEF IInv, TypeOK, Pop, Room, Entry
<1>2. /\ seen' = seen \cup {u} /\ UNCHANGED <<gate, table, mine, permits>>
      /\ \/ UNCHANGED step
         \/ u \notin seen /\ step' = [step EXCEPT ![u] = "look"]
  BY DEF Pop, Submit
<1>3. step \in [URLs -> {"idle", "look", "make", "wait", "delay", "fetch", "ok", "err"}]
      /\ gate \in [URLs -> Gates] /\ Seed \in URLs
  BY Constants DEF IInv, TypeOK
<1> HIDE DEF u, d
<1>4. CASE UNCHANGED step
  <2>1. InGate(Home)' = InGate(Home) /\ InDelay(Home)' = InDelay(Home)
    BY <1>2, <1>4 DEF InGate, InDelay, Active
  <2>2. SeedFirst' /\ StartsOnce' /\ Balanced'
    BY <1>1, <1>2, <1>4, <2>1 DEF Gated, SeedFirst, StartsOnce, Balanced, UrlsOf
  <2>3. OneObject' /\ Apart'
    BY <1>2, <1>4 DEF Gated, OneObject, Holds, Stored, Apart
  <2> QED BY <2>2, <2>3 DEF Gated
<1>5. CASE u \notin seen /\ step' = [step EXCEPT ![u] = "look"]
  <2>1. step[u] = "idle" /\ gate[u] = "sem" /\ step'[u] = "look"
        /\ \A v \in URLs \ {u} : step'[v] = step[v]
    BY <1>1, <1>3, <1>5 DEF Gated, StartsOnce
  <2>2. InGate(Home)' = InGate(Home) /\ InDelay(Home)' = InDelay(Home)
    BY <1>2, <2>1 DEF InGate, InDelay, Active
  <2>3. StartsOnce' /\ Balanced' /\ Apart'
    BY <1>1, <1>2, <2>1, <2>2 DEF Gated, StartsOnce, Balanced, Apart
  <2>4. SeedFirst'
    BY <1>1, <1>3, <2>1 DEF Gated, SeedFirst, UrlsOf
  <2>5. ASSUME NEW v \in URLs, HostOf[v] = Home PROVE Holds(v)'
    BY <1>2, <2>1, <2>5 DEF Gated, OneObject, Holds, Stored
  <2>6. OneObject'
    BY <1>2, <2>5 DEF Gated, OneObject
  <2> QED BY <2>3, <2>4, <2>6 DEF Gated
<1> QED BY <1>2, <1>4, <1>5

\* Where a thread stands, and what every step of it leaves alone.
LEMMA AtGates ==
  ASSUME IInv, Gated, NEW u \in URLs, Thread(u)
  PROVE  /\ UNCHANGED <<queue, seen>> /\ gate[u] \in Gates
         /\ step[u] \in {"look", "make", "wait", "delay", "fetch"}
         /\ step' \in [URLs -> {"idle", "look", "make", "wait", "delay", "fetch", "ok",
                                "err"}]
         /\ step'[u] # "idle" /\ u \in seen
         /\ \A v \in URLs \ {u} : step'[v] = step[v] /\ gate'[v] = gate[v]
         /\ SeedFirst' /\ StartsOnce'
         /\ HostOf[u] = Home => u = Seed \/ \A g \in Gates : Stored(g)
<1>1. /\ TypeOK /\ UNCHANGED main
      /\ \E s \in {"make", "look", "wait", "delay", "fetch", "ok", "err"} :
           Goto(u, s)
      /\ step[u] \in {"look", "make", "wait", "delay", "fetch"}
      /\ gate' = gate \/ gate' = [gate EXCEPT ![u] = "lock"]
  BY DEF IInv, Thread, Look, Make, Acquire, Delay, Fetch
<1>2. /\ UNCHANGED <<queue, seen>> /\ gate[u] \in Gates
      /\ step' \in [URLs -> {"idle", "look", "make", "wait", "delay", "fetch", "ok",
                             "err"}]
      /\ step'[u] # "idle" /\ u \in seen
      /\ \A v \in URLs \ {u} : step'[v] = step[v] /\ gate'[v] = gate[v]
  BY <1>1 DEF TypeOK, Goto, main, Gated, StartsOnce
<1>3. step[Seed] \in {"ok", "err"} \/ u = Seed
  BY <1>1 DEF Gated, SeedFirst
<1>4. SeedFirst'
  <2>1. Seed \in URLs /\ UNCHANGED queue
    BY <1>2, Constants
  <2>2. CASE u = Seed
    <3>1. step[Seed] \notin {"ok", "err"}
      BY <1>1, <2>2
    <3> QED BY <1>2, <2>1, <2>2, <3>1 DEF Gated, SeedFirst, UrlsOf
  <2>3. CASE u # Seed
    BY <1>2, <1>3, <2>1, <2>3 DEF SeedFirst
  <2> QED BY <2>2, <2>3
<1>5. StartsOnce'
  BY <1>2 DEF Gated, StartsOnce
<1>6. HostOf[u] = Home => u = Seed \/ \A g \in Gates : Stored(g)
  <2>1. HostOf[Seed] = Home /\ Seed \in URLs
    BY Constants DEF Home
  <2>2. step[Seed] \in {"ok", "err"} => Stored("lock") /\ Stored("sem")
    BY <2>1 DEF Gated, OneObject, Holds
  <2> QED BY <1>3, <2>2 DEF Gates
<1> QED BY <1>1, <1>2, <1>4, <1>5, <1>6

\* Steps that pass no gate: they keep the balance.
LEMMA SameBalance ==
  ASSUME IInv, Gated, NEW u \in URLs, Thread(u), UNCHANGED <<gate, permits>>,
         step'[u] \in {"look", "make", "wait"}, step[u] \in {"look", "make", "wait"}
  PROVE  Balanced'
<1>1. InGate(Home)' = InGate(Home) /\ InDelay(Home)' = InDelay(Home)
  BY AtGates DEF InGate, InDelay, Active
<1> QED BY <1>1 DEF Gated, Balanced

\* Looking the host up.
LEMMA LookGated ==
  ASSUME IInv, Gated, NEW u \in URLs, Look(u)
  PROVE  Gated'
<1>0. Thread(u)
  BY DEF Thread
<1> DEFINE G == gate[u]
           h == HostOf[u]
<1>1. /\ G \in Gates /\ h \in Host /\ step[u] = "look" /\ Home \in Host
      /\ UNCHANGED <<gate, table, permits>>
      /\ NoUrl # Seed /\ TypeOK
  BY Constants DEF IInv, TypeOK, Look, Home
<1>2. PICK o \in URLs \cup {NoUrl} : o = table[G][h]
  BY <1>1 DEF TypeOK
<1>3. \/ o # NoUrl /\ mine' = [mine EXCEPT ![G][u] = o] /\ step'[u] = "wait"
      \/ o = NoUrl /\ mine' = mine /\ step'[u] = "make"
  BY <1>1, <1>2 DEF Look, Goto, TypeOK
<1>4. /\ \A v \in URLs \ {u}, g \in Gates : mine'[g][v] = mine[g][v]
      /\ \A g \in Gates \ {G} : mine'[g][u] = mine[g][u]
      /\ o # NoUrl => mine'[G][u] = o
      /\ o = NoUrl => mine'[G][u] = mine[G][u]
  <2>1. mine \in [Gates -> [URLs -> URLs \cup {NoUrl}]] /\ G \in Gates
    BY <1>1 DEF TypeOK
  <2> HIDE DEF G
  <2>2. \A x \in Gates, y \in URLs :
          [mine EXCEPT ![G][u] = o][x][y] = IF x = G /\ y = u THEN o ELSE mine[x][y]
    BY <2>1, OneCell
  <2> QED BY <1>3, <2>1, <2>2
<1> HIDE DEF G, h
<1>5. Balanced'
  BY <1>0, <1>1, <1>3, SameBalance
<1>6. Apart'
  <2>1. h # Home => o # Seed
    BY <1>1, <1>2 DEF Gated, Apart
  <2>2. \A g \in Gates : HostOf[u] # Home => mine'[g][u] # Seed
    BY <1>1, <1>4, <2>1 DEF Gated, Apart, h
  <2> QED BY <1>1, <1>4, <2>2 DEF Gated, Apart
<1>7. OneObject'
  <2>1. ASSUME NEW v \in URLs \ {u}, HostOf[v] = Home PROVE Holds(v)'
    <3>1. step'[v] = step[v] /\ gate'[v] = gate[v] /\ gate[v] \in Gates
      BY <1>0, <1>1, AtGates DEF TypeOK
    <3>2. Holds(v)
      BY <2>1 DEF Gated, OneObject
    <3> QED BY <1>1, <1>4, <3>1, <3>2 DEF Holds, Stored, Gates
  <2>2. ASSUME HostOf[u] = Home PROVE Holds(u)'
    <3>1. o \in {NoUrl, Seed} /\ (o = NoUrl => u = Seed) /\ (o = Seed => Stored(G))
      BY <1>0, <1>1, <1>2, <2>2, AtGates DEF Gated, OneObject, Stored, h
    <3>2. Holds(u) /\ gate'[u] = G
      BY <1>1, <2>2 DEF Gated, OneObject, G
    <3>3. G = "lock" => mine'["sem"][u] = mine["sem"][u]
      BY <1>4 DEF Gates
    <3> QED BY <1>1, <1>3, <1>4, <3>1, <3>2, <3>3 DEF Holds, Stored, G
  <2> QED BY <1>1, <2>1, <2>2 DEF Gated, OneObject
<1> QED BY <1>0, <1>5, <1>6, <1>7, AtGates DEF Gated

\* Making the host's object: of the seed's host, only the seed's thread.
LEMMA MakeGated ==
  ASSUME IInv, Gated, NEW u \in URLs, Make(u)
  PROVE  Gated'
<1>0. Thread(u)
  BY DEF Thread
<1>g. PICK G \in Gates : G = gate[u]
  BY <1>0, AtGates
<1> DEFINE h == HostOf[u]
<1>1. /\ G \in Gates /\ h \in Host /\ step[u] = "make" /\ Home \in Host
      /\ UNCHANGED <<gate, permits>> /\ TypeOK
      /\ step'[u] = "wait"
      /\ table' = [table EXCEPT ![G][h] = u] /\ mine' = [mine EXCEPT ![G][u] = u]
  BY <1>g, Constants DEF IInv, TypeOK, Make, Home, Goto
<1>2. /\ \A x \in Gates, y \in Host :
           table'[x][y] = IF x = G /\ y = h THEN u ELSE table[x][y]
      /\ \A x \in Gates, y \in URLs :
           mine'[x][y] = IF x = G /\ y = u THEN u ELSE mine[x][y]
  <2>1. /\ mine \in [Gates -> [URLs -> URLs \cup {NoUrl}]] /\ G \in Gates
        /\ table \in [Gates -> [Host -> URLs \cup {NoUrl}]]
    BY <1>1 DEF TypeOK
  <2> HIDE DEF h
  <2> QED BY <1>1, <2>1, OneCell
<1>3. h = Home => u = Seed
  BY <1>1 DEF Gated, OneObject, Holds
<1>4. h # Home => u # Seed
  BY DEF Home
<1> HIDE DEF h
<1>5. Balanced'
  BY <1>0, <1>1, SameBalance
<1>6. Apart'
  BY <1>1, <1>2, <1>4 DEF Gated, Apart, h
<1>7. \A g \in Gates : Stored(g) => Stored(g)'
  BY <1>1, <1>2, <1>3 DEF Stored
<1>8. OneObject'
  <2>1. ASSUME NEW v \in URLs \ {u}, HostOf[v] = Home PROVE Holds(v)'
    <3>1. step'[v] = step[v] /\ gate'[v] = gate[v] /\ gate[v] \in Gates
      BY <1>0, <1>1, AtGates DEF TypeOK
    <3>2. Holds(v) /\ \A g \in Gates : mine'[g][v] = mine[g][v]
      BY <1>2, <2>1 DEF Gated, OneObject
    <3> QED BY <1>7, <3>1, <3>2 DEF Holds, Gates
  <2>2. ASSUME HostOf[u] = Home PROVE Holds(u)'
    <3>1. u = Seed /\ mine'[G][u] = Seed /\ Stored(G)'
      BY <1>1, <1>2, <1>3, <2>2 DEF h, Stored
    <3>2. Holds(u) /\ gate'[u] = G /\ gate[u] = G
      BY <1>1, <1>g, <2>2 DEF Gated, OneObject
    <3>3. G = "lock" => mine'["sem"][u] = mine["sem"][u]
      BY <1>2 DEF Gates
    <3> QED BY <1>1, <1>7, <3>1, <3>2, <3>3 DEF Holds, Gates
  <2>3. \A g \in Gates : table'[g][Home] \in {NoUrl, Seed}
    BY <1>1, <1>2, <1>3 DEF Gated, OneObject
  <2> QED BY <2>1, <2>2, <2>3 DEF OneObject
<1> QED BY <1>0, <1>5, <1>6, <1>8, AtGates DEF Gated

\* Steps after which u still holds what it needs, and the host's objects are
\* the same.
LEMMA SameObjects ==
  ASSUME IInv, Gated, NEW u \in URLs, Thread(u), UNCHANGED <<table, mine>>,
         HostOf[u] = Home => Holds(u)'
  PROVE  OneObject' /\ Apart'
<1>1. ASSUME NEW v \in URLs \ {u}, HostOf[v] = Home PROVE Holds(v)'
  <2>1. step'[v] = step[v] /\ gate'[v] = gate[v] /\ Holds(v)
    BY <1>1, AtGates DEF Gated, OneObject
  <2> QED BY <2>1 DEF Holds, Stored
<1> QED BY <1>1 DEF Gated, OneObject, Apart

\* The object that u has at the gate g is left with n permits.
LeavesWith(u, g, n) == permits' = [permits EXCEPT ![g][mine[g][u]] = n]

\* One permit of a gate g is taken or given back by a thread: of the seed's
\* object if and only if it is of the seed's host.
LEMMA OnePermit ==
  ASSUME IInv, Gated, NEW u \in URLs, NEW g \in Gates, NEW n, LeavesWith(u, g, n),
         HostOf[u] = Home => mine[g][u] = Seed
  PROVE  \A x \in Gates :
           permits'[x][Seed] = IF x = g /\ HostOf[u] = Home THEN n ELSE permits[x][Seed]
<1>1. PICK o : o = mine[g][u]
  OBVIOUS
<1>2. permits \in [Gates -> [URLs -> Nat]] /\ Seed \in URLs
  BY Constants DEF IInv, TypeOK
<1>3. permits' = [permits EXCEPT ![g][o] = n]
  BY <1>1 DEF LeavesWith
<1>4. \A x \in Gates, y \in URLs :
        permits'[x][y] = IF x = g /\ y = o THEN n ELSE permits[x][y]
  BY <1>2, <1>3, OneCell
<1>5. o = Seed <=> HostOf[u] = Home
  BY <1>1 DEF Gated, Apart
<1> QED BY <1>2, <1>4, <1>5

\* The threads past a gate are as many as before, or one more or less.
LEMMA OneMore ==
  ASSUME IInv, NEW S, NEW T, S \in SUBSET URLs, T \in SUBSET URLs, NEW u \in URLs
  PROVE  /\ Cardinality(S) \in Nat /\ Cardinality(T) \in Nat
         /\ T = S \cup {u} /\ u \notin S => Cardinality(T) = Cardinality(S) + 1
         /\ T = S \ {u} /\ u \in S => Cardinality(T) = Cardinality(S) - 1
BY UrlSets

\* The threads of a host that are past a gate are URLs.
LEMMA GateSets ==
  /\ InGate(Home) \in SUBSET URLs /\ InDelay(Home) \in SUBSET URLs
  /\ InGate(Home)' \in SUBSET URLs /\ InDelay(Home)' \in SUBSET URLs
BY DEF InGate, InDelay, Active

\* Passing the semaphore, then the lock.
LEMMA AcquireGated ==
  ASSUME IInv, Gated, NEW u \in URLs, Acquire(u)
  PROVE  Gated'
<1>0. Thread(u)
  BY DEF Thread
<1>g. PICK G \in Gates : G = gate[u]
  BY <1>0, AtGates
<1>t. /\ permits \in [Gates -> [URLs -> Nat]] /\ gate \in [URLs -> Gates]
      /\ Seed \in URLs /\ HostCap \in Nat
  BY Constants, Numbers DEF IInv, TypeOK
<1>1. /\ step[u] = "wait" /\ UNCHANGED <<table, mine>>
      /\ permits' = [permits EXCEPT ![G][mine[G][u]] = permits[G][mine[G][u]] - 1]
      /\ G = "sem" => gate'[u] = "lock" /\ step'[u] = "look"
      /\ G = "lock" => gate'[u] = "lock" /\ step'[u] = "delay"
  BY <1>0, <1>g, <1>t, AtGates DEF Acquire, Goto, IInv, TypeOK
<1>2. HostOf[u] = Home => Holds(u) /\ mine[G][u] = Seed /\ Stored(G)
  BY <1>1, <1>g DEF Gated, OneObject, Holds
<1>3. OneObject' /\ Apart'
  <2>1. HostOf[u] = Home => Holds(u)'
    BY <1>1, <1>2, <1>g DEF Holds, Stored, Gates
  <2> QED BY <1>0, <1>1, <2>1, SameObjects
<1>4. PICK n : n = permits[G][mine[G][u]] - 1
  OBVIOUS
<1>5. \A x \in Gates :
        permits'[x][Seed] = IF x = G /\ HostOf[u] = Home THEN n ELSE permits[x][Seed]
  <2>1. LeavesWith(u, G, n)
    BY <1>1, <1>4 DEF LeavesWith
  <2>2. HostOf[u] = Home => mine[G][u] = Seed
    BY <1>2
  <2> QED BY <2>1, <2>2, OnePermit
<1>6. /\ permits["sem"][Seed] \in Nat /\ permits["lock"][Seed] \in Nat
      /\ "sem" \in Gates /\ "lock" \in Gates
  BY <1>t DEF Gates
<1>7. Balanced'
  <2>1. CASE HostOf[u] # Home
    <3>1. InGate(Home)' = InGate(Home) /\ InDelay(Home)' = InDelay(Home)
      BY <1>0, <2>1, AtGates DEF InGate, InDelay, Active
    <3> QED BY <1>5, <1>6, <2>1, <3>1 DEF Gated, Balanced
  <2>2. CASE HostOf[u] = Home /\ G = "sem"
    <3>1. /\ InGate(Home)' = InGate(Home) \cup {u} /\ u \notin InGate(Home)
          /\ InDelay(Home)' = InDelay(Home)
      BY <1>0, <1>1, <1>g, <2>2, AtGates DEF InGate, InDelay, Active
    <3>2. Cardinality(InGate(Home)') = Cardinality(InGate(Home)) + 1
          /\ Cardinality(InGate(Home)) \in Nat
      BY <3>1, GateSets, OneMore
    <3>3. permits'["sem"][Seed] = permits["sem"][Seed] - 1
          /\ permits'["lock"][Seed] = permits["lock"][Seed]
      BY <1>2, <1>4, <1>5, <1>6, <2>2
    <3> QED BY <1>t, <1>6, <3>1, <3>2, <3>3 DEF Gated, Balanced
  <2>3. CASE HostOf[u] = Home /\ G = "lock"
    <3>1. /\ InDelay(Home)' = InDelay(Home) \cup {u} /\ u \notin InDelay(Home)
          /\ InGate(Home)' = InGate(Home)
      BY <1>0, <1>1, <1>g, <2>3, AtGates DEF InGate, InDelay, Active
    <3>2. Cardinality(InDelay(Home)') = Cardinality(InDelay(Home)) + 1
          /\ Cardinality(InDelay(Home)) \in Nat
      BY <3>1, GateSets, OneMore
    <3>3. permits'["lock"][Seed] = permits["lock"][Seed] - 1
          /\ permits'["sem"][Seed] = permits["sem"][Seed]
      BY <1>2, <1>4, <1>5, <1>6, <2>3
    <3> QED BY <1>t, <1>6, <3>1, <3>2, <3>3 DEF Gated, Balanced
  <2> QED BY <2>1, <2>2, <2>3 DEF Gates
<1> QED BY <1>0, <1>3, <1>7, AtGates DEF Gated

\* Giving the lock back, then the semaphore.
LEMMA ReleaseGated ==
  ASSUME IInv, Gated, NEW u \in URLs, Delay(u) \/ Fetch(u)
  PROVE  Gated'
<1>0. Thread(u)
  BY DEF Thread
<1>g. PICK g \in Gates : \/ g = "lock" /\ Delay(u)
                         \/ g = "sem" /\ Fetch(u)
  BY DEF Gates
<1>t. /\ permits \in [Gates -> [URLs -> Nat]] /\ gate \in [URLs -> Gates]
      /\ Seed \in URLs /\ HostCap \in Nat
  BY Constants, Numbers DEF IInv, TypeOK
<1>1. /\ step[u] = IF g = "lock" THEN "delay" ELSE "fetch"
      /\ UNCHANGED <<gate, table, mine>>
      /\ permits' = [permits EXCEPT ![g][mine[g][u]] = permits[g][mine[g][u]] + 1]
      /\ g = "lock" => step'[u] = "fetch"
      /\ g = "sem" => step'[u] \in {"ok", "err"}
  BY <1>0, <1>g, AtGates DEF Delay, Fetch, Release, Goto, IInv, TypeOK
<1>2. HostOf[u] = Home => /\ Holds(u) /\ gate[u] = "lock"
                          /\ \A x \in Gates : mine[x][u] = Seed /\ Stored(x)
  BY <1>1 DEF Gated, OneObject, Holds, Gates
<1>3. OneObject' /\ Apart'
  <2>1. HostOf[u] = Home => Holds(u)'
    BY <1>1, <1>2, <1>g DEF Holds, Stored, Gates
  <2> QED BY <1>0, <1>1, <2>1, SameObjects
<1>4. PICK n : n = permits[g][mine[g][u]] + 1
  OBVIOUS
<1>5. \A x \in Gates :
        permits'[x][Seed] = IF x = g /\ HostOf[u] = Home THEN n ELSE permits[x][Seed]
  <2>1. LeavesWith(u, g, n)
    BY <1>1, <1>4 DEF LeavesWith
  <2>2. HostOf[u] = Home => mine[g][u] = Seed
    BY <1>2
  <2> QED BY <2>1, <2>2, OnePermit
<1>6. /\ permits["sem"][Seed] \in Nat /\ permits["lock"][Seed] \in Nat
      /\ "sem" \in Gates /\ "lock" \in Gates
  BY <1>t DEF Gates
<1>7. Balanced'
  <2>1. CASE HostOf[u] # Home
    <3>1. InGate(Home)' = InGate(Home) /\ InDelay(Home)' = InDelay(Home)
      BY <1>0, <2>1, AtGates DEF InGate, InDelay, Active
    <3> QED BY <1>5, <1>6, <2>1, <3>1 DEF Gated, Balanced
  <2>2. CASE HostOf[u] = Home /\ g = "lock"
    <3>1. /\ InDelay(Home)' = InDelay(Home) \ {u} /\ u \in InDelay(Home)
          /\ InGate(Home)' = InGate(Home)
      BY <1>0, <1>1, <2>2, AtGates DEF InGate, InDelay, Active
    <3>2. Cardinality(InDelay(Home)') = Cardinality(InDelay(Home)) - 1
          /\ Cardinality(InDelay(Home)) \in Nat
      BY <3>1, GateSets, OneMore
    <3>3. permits'["lock"][Seed] = permits["lock"][Seed] + 1
          /\ permits'["sem"][Seed] = permits["sem"][Seed]
      BY <1>2, <1>4, <1>5, <1>6, <2>2
    <3> QED BY <1>t, <1>6, <3>1, <3>2, <3>3 DEF Gated, Balanced
  <2>3. CASE HostOf[u] = Home /\ g = "sem"
    <3>1. /\ InGate(Home)' = InGate(Home) \ {u} /\ u \in InGate(Home)
          /\ InDelay(Home)' = InDelay(Home)
      BY <1>0, <1>1, <1>2, <2>3, AtGates DEF InGate, InDelay, Active
    <3>2. Cardinality(InGate(Home)') = Cardinality(InGate(Home)) - 1
          /\ Cardinality(InGate(Home)) \in Nat
      BY <3>1, GateSets, OneMore
    <3>3. permits'["sem"][Seed] = permits["sem"][Seed] + 1
          /\ permits'["lock"][Seed] = permits["lock"][Seed]
      BY <1>2, <1>4, <1>5, <1>6, <2>3
    <3> QED BY <1>t, <1>6, <3>1, <3>2, <3>3 DEF Gated, Balanced
  <2> QED BY <2>1, <2>2, <2>3 DEF Gates
<1> QED BY <1>0, <1>3, <1>7, AtGates DEF Gated

\* Gated holds at first.
LEMMA GatedInit == Init => Gated
<1> SUFFICES ASSUME Init PROVE Gated
  OBVIOUS
<1>1. Seed \in URLs /\ Home \in Host /\ NoUrl # Seed /\ HostCap \in Nat
  BY Constants, Numbers DEF Home
<1>2. UrlsOf(queue) \subseteq {Seed}
  BY DEF Init, UrlsOf
<1>3. InGate(Home) = {} /\ InDelay(Home) = {} /\ Cardinality({}) = 0
  BY FS_EmptySet DEF Init, InGate, InDelay, Active
<1>4. Balanced
  BY <1>1, <1>3 DEF Init, Balanced, Gates, Permits
<1> QED BY <1>1, <1>2, <1>4 DEF Init, Gated, SeedFirst, StartsOnce, OneObject, Holds,
           Apart, Gates

\* No step breaks it.
LEMMA GatedStep ==
  ASSUME IInv, Gated, [Next]_vars
  PROVE  Gated'
<1>1. CASE Wait \/ Leave \/ Shutdown \/ UNCHANGED vars
  <2>1. UNCHANGED <<seen, queue, pool>>
    BY <1>1 DEF Wait, Leave, Shutdown, vars, main
  <2> QED BY <2>1, GeneratorGated DEF UrlsOf
<1>2. ASSUME NEW u \in URLs, CollectNothing(u) PROVE Gated'
  <2>1. UNCHANGED <<seen, queue, pool>>
    BY <1>2 DEF CollectNothing
  <2> QED BY <2>1, GeneratorGated DEF UrlsOf
<1> QED BY <1>1, <1>2, PopGated, PageGated, LookGated, MakeGated, AcquireGated,
           ReleaseGated DEF Next, Main, Thread

----------------------------------------------------------------------------
\* The invariant holds at first.
LEMMA InvInit == Init => IInv
<1> SUFFICES ASSUME Init PROVE IInv
  OBVIOUS
<1> DEFINE e == [url |-> Seed, depth |-> 0]
<1>1. e \in Entry /\ e.url = Seed /\ Seed \in URLs
  BY Constants, Numbers DEF Entry
<1> HIDE DEF e
<1>2. queue = <<e>> /\ queue \in Seq(Entry) /\ UrlsOf(queue) = {Seed}
  <2>1. queue = <<e>>
    BY DEF Init, e
  <2> QED BY <1>1, <2>1 DEF UrlsOf
<1>3. TypeOK
  BY <1>1, <1>2, Numbers DEF Init, TypeOK, Gates
<1>4. Got = {} /\ count = 0 /\ PagesDistinct /\ Active = {}
  BY DEF Init, Got, count, PagesDistinct, Active
<1>5. WithinBudget
  BY <1>4, Numbers, FS_EmptySet DEF WithinBudget, Init
<1> QED BY <1>2, <1>3, <1>4, <1>5 DEF Init, IInv, SeenIsKept, QueuedIsKept,
           ActiveIsInFlight, EndedIsEmpty

\* IInv is inductive.
THEOREM Inductive == Spec => []IInv
<1>1. IInv /\ UNCHANGED vars => IInv'
  BY DEF vars, main, pool, IInv, TypeOK, WithinBudget, SeenIsKept, QueuedIsKept,
     ActiveIsInFlight, EndedIsEmpty, PagesDistinct, Active, Got, count
<1>2. IInv /\ [Next]_vars => IInv'
  BY <1>1, PopStep, PageStep, NothingStep, LeaveStep, QuietStep, ThreadStep
     DEF Next, Main
<1> QED BY <1>2, InvInit, PTL DEF Spec

\* Every variable has its type in every reachable state.
THEOREM TypeCorrect == Spec => []TypeOK
<1>1. IInv => TypeOK
  BY DEF IInv
<1> QED BY <1>1, Inductive, PTL

\* However many threads fetch and fail, the crawl submits exactly what its limit
\* still allows, so no page is fetched in vain (scraping_engine.py:432, 461).
THEOREM BudgetAlwaysExact == Spec => []BudgetExact
<1>1. IInv => BudgetExact
  BY DEF IInv, BudgetExact, WithinBudget, ActiveIsInFlight, EndedIsEmpty
<1> QED BY <1>1, Inductive, PTL

\* A crawl that ends below its limit has yielded or reported every URL it queued.
THEOREM NothingIsLost == Spec => []NothingLost
<1>1. UrlsOf(<<>>) = {}
  BY DEF UrlsOf
<1>2. IInv => NothingLost
  BY <1>1 DEF IInv, NothingLost, SeenIsKept, QueuedIsKept, EndedIsEmpty
<1> QED BY <1>2, Inductive, PTL

\* No page is yielded twice.
THEOREM PagesAreDistinct == Spec => []PagesDistinct
<1>1. IInv => PagesDistinct
  BY DEF IInv
<1> QED BY <1>1, Inductive, PTL

\* The threads past the semaphore of the seed's host never exceed its cap, and
\* one at a time is in its delay, whatever else the defaultdicts lose.
THEOREM SeedHostAlwaysBounded == Spec => []SeedHostBounded
<1>1. IInv /\ Gated => SeedHostBounded
  <2> SUFFICES ASSUME IInv, Gated PROVE SeedHostBounded
    OBVIOUS
  <2>1. /\ Cardinality(InGate(Home)) \in Nat /\ Cardinality(InDelay(Home)) \in Nat
        /\ permits["sem"][Seed] \in Nat /\ permits["lock"][Seed] \in Nat
        /\ HostCap \in Nat
    BY GateSets, UrlSets, Constants, Numbers DEF IInv, TypeOK, Gates
  <2> QED BY <2>1 DEF Gated, Balanced, SeedHostBounded, HostBounded, Home
<1>2. IInv /\ Gated /\ [Next]_vars => Gated'
  BY GatedStep
<1> QED BY <1>1, <1>2, Inductive, GatedInit, PTL DEF Spec

----------------------------------------------------------------------------
(* Where the pages are: each within reach, and those close to the seed at   *)
(* their least depth.                                                       *)

EntriesOf(s) == {s[i] : i \in DOMAIN s}
EntryOf(u, d) == [url |-> u, depth |-> d]

\* The URLs that wait, are under way or are yielded, with their depths.
Placed ==
  EntriesOf(queue) \cup EntriesOf(pages) \cup {EntryOf(u, depth[u]) : u \in inFlight}

\* Links lead to it; the seed and what it links to have the depths they ought to
\* have.
WellPlaced(e) ==
  /\ Paths(e.url, e.depth) # {}
  /\ e.url = Seed => e.depth = 0
  /\ e.url \in site[Seed] \cap InScope => e.depth <= 1

\* What is or was on the frontier is queued, the seed to begin with.
Known == Seed \in queued /\ seen \cup UrlsOf(queue) \subseteq queued

\* Before the seed is yielded nothing else is found.
SeedAlone == Seed \notin Got => inFlight \cup UrlsOf(queue) \subseteq {Seed}

\* The links of a page that is not too deep are queued, unless the crawl was
\* abandoned or its limit is reached.
LinksQueued ==
  phase \notin {"closing", "closed"} /\ count < Limit =>
    \A e \in EntriesOf(pages) :
      e.depth < MaxDepth => site[e.url] \cap InScope \subseteq queued

AllPlaced == \A e \in Placed : WellPlaced(e)

Mapped == AllPlaced /\ Known /\ SeedAlone /\ LinksQueued

\* One more link from the end of a path.
LEMMA PathGrows ==
  ASSUME NEW u \in URLs, NEW n \in Nat, Paths(u, n) # {},
         NEW v \in URLs, v \in site[u] \cap InScope
  PROVE  Paths(v, n + 1) # {}
<1>1. PICK p \in [0..n -> URLs] :
        p[0] = Seed /\ p[n] = u /\ \A i \in 1..n : p[i] \in site[p[i - 1]] \cap InScope
  BY DEF Paths
<1> DEFINE q == [i \in 0..(n + 1) |-> IF i = n + 1 THEN v ELSE p[i]]
<1>2. q \in [0..(n + 1) -> URLs]
  OBVIOUS
<1>3. q[0] = Seed /\ q[n + 1] = v
  BY <1>1
<1>4. ASSUME NEW i \in 1..(n + 1) PROVE q[i] \in site[q[i - 1]] \cap InScope
  <2>1. CASE i = n + 1
    <3>1. q[i] = v /\ q[i - 1] = p[n]
      BY <2>1
    <3> QED BY <1>1, <3>1
  <2>2. CASE i \in 1..n
    <3>1. q[i] = p[i] /\ q[i - 1] = p[i - 1]
      BY <2>2
    <3> QED BY <1>1, <2>2, <3>1
  <2> QED BY <2>1, <2>2
<1> QED BY <1>2, <1>3, <1>4 DEF Paths

\* The entries of a list that loses its head ...
LEMMA EntriesOfTail ==
  ASSUME NEW s \in Seq(Entry), s # <<>>
  PROVE  EntriesOf(Tail(s)) \cup {Head(s)} \subseteq EntriesOf(s)
<1>1. /\ Head(s) = s[1] /\ Len(s) \in Nat \ {0} /\ Len(Tail(s)) = Len(s) - 1
      /\ \A i \in 1..(Len(s) - 1) : Tail(s)[i] = s[i + 1]
      /\ DOMAIN s = 1..Len(s) /\ DOMAIN Tail(s) = 1..(Len(s) - 1)
  BY EmptySeq, HeadTailProperties
<1>2. ASSUME NEW i \in 1..(Len(s) - 1) PROVE Tail(s)[i] \in EntriesOf(s)
  <2>1. i + 1 \in DOMAIN s /\ Tail(s)[i] = s[i + 1]
    BY <1>1
  <2> QED BY <2>1 DEF EntriesOf
<1>3. 1 \in DOMAIN s
  BY <1>1
<1> QED BY <1>1, <1>2, <1>3 DEF EntriesOf

\* ... that are put together ...
LEMMA EntriesOfConcat ==
  ASSUME NEW s \in Seq(Entry), NEW t \in Seq(Entry)
  PROVE  EntriesOf(s \o t) \subseteq EntriesOf(s) \cup EntriesOf(t)
<1>1. /\ DOMAIN (s \o t) = 1..(Len(s) + Len(t))
      /\ \A i \in 1 .. Len(s) + Len(t) :
           (s \o t)[i] = IF i <= Len(s) THEN s[i] ELSE t[i - Len(s)]
      /\ Len(s) \in Nat /\ Len(t) \in Nat
      /\ DOMAIN s = 1..Len(s) /\ DOMAIN t = 1..Len(t)
  BY ConcatProperties
<1>2. ASSUME NEW i \in 1..(Len(s) + Len(t))
      PROVE  (s \o t)[i] \in EntriesOf(s) \cup EntriesOf(t)
  <2>1. CASE i <= Len(s)
    BY <1>1, <2>1 DEF EntriesOf
  <2>2. CASE i > Len(s)
    <3>1. i - Len(s) \in DOMAIN t /\ (s \o t)[i] = t[i - Len(s)]
      BY <1>1, <2>2
    <3> QED BY <3>1 DEF EntriesOf
  <2> QED BY <1>1, <2>1, <2>2
<1> QED BY <1>1, <1>2 DEF EntriesOf

\* ... and that grow by one.
LEMMA EntriesOfAppend ==
  ASSUME NEW s \in Seq(Entry), NEW e \in Entry
  PROVE  EntriesOf(Append(s, e)) = EntriesOf(s) \cup {e}
<1>1. /\ Len(s) \in Nat /\ DOMAIN s = 1..Len(s)
      /\ DOMAIN Append(s, e) = 1..(Len(s) + 1)
      /\ \A i \in 1..Len(s) : Append(s, e)[i] = s[i]
      /\ Append(s, e)[Len(s) + 1] = e
  BY AppendProperties
<1> QED BY <1>1 DEF EntriesOf

\* What does not change of the places.
LEMMA PlacesStay ==
  ASSUME site' = site, AllPlaced, Placed' \subseteq Placed
  PROVE  AllPlaced'
BY DEF AllPlaced, WellPlaced, Paths

\* Taking the head of the frontier.
LEMMA PopMapped ==
  ASSUME IInv, Mapped, Pop
  PROVE  Mapped'
<1>1. PICK u, d : u = Head(queue).url /\ d = Head(queue).depth
  OBVIOUS
<1>2. /\ queue \in Seq(Entry) /\ queue # <<>> /\ queue' = Tail(queue)
      /\ Head(queue) \in Entry /\ u \in URLs /\ d \in 0..MaxDepth
      /\ Head(queue) = EntryOf(u, d)
  BY <1>1, UrlsOfTail DEF IInv, TypeOK, Pop, Room, Entry, EntryOf
<1>3. /\ seen' = seen \cup {u}
      /\ UNCHANGED <<site, phase, queued, pages>>
      /\ \/ UNCHANGED <<inFlight, depth>>
         \/ /\ u \notin seen /\ inFlight' = inFlight \cup {u}
            /\ depth' = [depth EXCEPT ![u] = d]
  BY <1>1 DEF Pop, Submit
<1>4. /\ EntriesOf(queue') \cup {EntryOf(u, d)} \subseteq EntriesOf(queue)
      /\ UrlsOf(queue') \cup {u} \subseteq UrlsOf(queue)
  BY <1>1, <1>2, EntriesOfTail, TailIsWithin
<1>5. Placed' \subseteq Placed
  <2>1. ASSUME NEW v \in inFlight'
        PROVE  EntryOf(v, depth'[v]) \in Placed
    <3>1. depth \in [URLs -> 0..MaxDepth] /\ inFlight \subseteq URLs /\ inFlight \subseteq seen
      BY DEF IInv, TypeOK, SeenIsKept
    <3>2. CASE v \in inFlight
      <4>1. depth'[v] = depth[v]
        BY <1>2, <1>3, <3>1, <3>2
      <4> QED BY <3>2, <4>1 DEF Placed
    <3>3. CASE v \notin inFlight
      <4>1. v = u /\ depth'[v] = d
        BY <1>2, <1>3, <2>1, <3>1, <3>3
      <4> QED BY <1>4, <4>1 DEF Placed
    <3> QED BY <3>2, <3>3
  <2> QED BY <1>3, <1>4, <2>1 DEF Placed
<1>6. AllPlaced'
  BY <1>3, <1>5, PlacesStay DEF Mapped
<1>7. Known' /\ SeedAlone' /\ LinksQueued'
  BY <1>3, <1>4 DEF Mapped, Known, SeedAlone, LinksQueued, Got, count, UrlsOf
<1> QED BY <1>6, <1>7 DEF Mapped

\* Steps that place nothing: threads, waiting, failures, leaving.
LEMMA QuietMapped ==
  ASSUME IInv, Mapped, UNCHANGED <<site, queue, seen, queued, depth, pages>>,
         inFlight' \subseteq inFlight,
         phase' \notin {"closing", "closed"} => phase \notin {"closing", "closed"}
  PROVE  Mapped'
<1>1. AllPlaced'
  <2>1. Placed' \subseteq Placed
    BY DEF Placed
  <2> QED BY <2>1, PlacesStay DEF Mapped
<1>2. Known' /\ SeedAlone' /\ LinksQueued'
  BY DEF Mapped, Known, SeedAlone, LinksQueued, Got, count, UrlsOf
<1> QED BY <1>1, <1>2 DEF Mapped

\* Yielding a page that the consumer abandons.
LEMMA AbandonMapped ==
  ASSUME IInv, Mapped, NEW u \in URLs, Abandon(u)
  PROVE  Mapped'
<1>1. /\ u \in batch /\ phase' = "closing" /\ inFlight' = inFlight \ {u}
      /\ pages' = Append(pages, EntryOf(u, depth[u]))
      /\ UNCHANGED <<site, queue, seen, queued, depth>>
  BY DEF Abandon, Collected, EntryOf
<1>2. /\ pages \in Seq(Entry) /\ EntryOf(u, depth[u]) \in Entry /\ u \in inFlight
  BY <1>1, BatchFacts DEF IInv, TypeOK, Entry, EntryOf
<1>3. EntriesOf(pages') = EntriesOf(pages) \cup {EntryOf(u, depth[u])}
  BY <1>1, <1>2, EntriesOfAppend
<1>4. AllPlaced'
  <2>1. Placed' \subseteq Placed
    BY <1>1, <1>2, <1>3 DEF Placed
  <2> QED BY <1>1, <2>1, PlacesStay DEF Mapped
<1>5. Got' = Got \cup {u}
  BY <1>1, <1>2, BatchFacts, OneMorePage DEF IInv, TypeOK, EntryOf
<1>6. Known' /\ SeedAlone' /\ LinksQueued'
  BY <1>1, <1>5 DEF Mapped, Known, SeedAlone, LinksQueued, UrlsOf
<1> QED BY <1>4, <1>6 DEF Mapped

\* Yielding a page and queueing its links.
LEMMA PageMapped ==
  ASSUME IInv, Mapped, NEW u \in URLs, CollectPage(u)
  PROVE  Mapped'
<1> DEFINE D == depth[u]
           F == Fresh(u)
<1>1. /\ u \in batch /\ phase = "loop" /\ phase' = phase /\ inFlight' = inFlight \ {u}
      /\ pages' = Append(pages, EntryOf(u, D)) /\ count < Limit
      /\ queued' = queued \cup F
      /\ UNCHANGED <<site, seen, depth>>
  BY DEF CollectPage, Collected, EntryOf
<1>2. /\ pages \in Seq(Entry) /\ EntryOf(u, D) \in Entry /\ u \in inFlight
      /\ D \in 0..MaxDepth /\ MaxDepth \in Nat /\ queue \in Seq(Entry)
  BY <1>1, BatchFacts, Numbers DEF IInv, TypeOK, Entry, EntryOf
<1>3. EntriesOf(pages') = EntriesOf(pages) \cup {EntryOf(u, D)}
  BY <1>1, <1>2, EntriesOfAppend
<1>4. /\ Got' = Got \cup {u} /\ count' = count + 1 /\ count \in Nat /\ Limit \in Nat
  BY <1>1, <1>2, BatchFacts, OneMorePage DEF IInv, TypeOK, EntryOf
<1>5. EntryOf(u, D) \in Placed /\ WellPlaced(EntryOf(u, D))
  BY <1>2 DEF Placed, Mapped, AllPlaced
<1>6. /\ F \in SUBSET URLs /\ F \subseteq site[u] \cap InScope /\ F \cap queued = {}
      /\ F # {} => D < MaxDepth
  BY Constants DEF Fresh, Followed
<1>7. /\ EntriesOf(queue') \subseteq EntriesOf(queue) \cup {EntryOf(v, D + 1) : v \in F}
      /\ UrlsOf(queue') \subseteq UrlsOf(queue) \cup F
  <2>1. PICK s \in SetToSeqs(F) : queue' = queue \o Entries(s, D + 1)
    BY DEF CollectPage
  <2>2. D + 1 \in Nat /\ (F # {} => D + 1 <= MaxDepth)
    BY <1>2, <1>6
  <2>3. Entries(s, D + 1) \in Seq(Entry)
    BY <1>6, <2>1, <2>2, UrlsOfEntries
  <2>4. EntriesOf(Entries(s, D + 1)) \subseteq {EntryOf(v, D + 1) : v \in F}
    <3>1. \A i \in DOMAIN s : s[i] \in F
      BY <1>6, Listed
    <3> QED BY <3>1 DEF EntriesOf, Entries, EntryOf
  <2>5. EntriesOf(queue') \subseteq EntriesOf(queue) \cup {EntryOf(v, D + 1) : v \in F}
    BY <1>2, <2>1, <2>3, <2>4, EntriesOfConcat
  <2>6. UrlsOf(queue') \subseteq UrlsOf(queue) \cup F
    BY <2>5 DEF UrlsOf, EntriesOf, EntryOf
  <2> QED BY <2>5, <2>6
<1> HIDE DEF D, F
<1>8. ASSUME NEW v \in F PROVE WellPlaced(EntryOf(v, D + 1))
  <2>1. /\ v \in URLs /\ v \in site[u] \cap InScope /\ v \notin queued /\ D < MaxDepth
        /\ Paths(u, D) # {} /\ (u = Seed => D = 0)
    BY <1>5, <1>6 DEF WellPlaced, EntryOf
  <2>2. Paths(v, D + 1) # {}
    BY <1>2, <2>1, PathGrows
  <2>3. v # Seed
    BY <2>1 DEF Mapped, Known
  <2>4. ASSUME v \in site[Seed] \cap InScope PROVE D + 1 <= 1
    <3>1. CASE u = Seed
      BY <2>1, <3>1
    <3>2. CASE u # Seed
      <4>1. Seed \in Got
        BY <1>2, <3>2 DEF Mapped, SeedAlone
      <4>2. PICK i \in DOMAIN pages : pages[i].url = Seed
        BY <4>1 DEF Got
      <4>3. pages[i] \in EntriesOf(pages) /\ pages[i] \in Placed
        BY DEF Placed, EntriesOf
      <4>4. pages[i].depth = 0
        BY <4>2, <4>3 DEF Mapped, AllPlaced, WellPlaced
      <4>5. site[Seed] \cap InScope \subseteq queued
        BY <1>1, <1>2, <2>1, <4>2, <4>3, <4>4 DEF Mapped, LinksQueued
      <4> QED BY <2>1, <2>4, <4>5
    <3> QED BY <3>1, <3>2
  <2> QED BY <2>2, <2>3, <2>4 DEF WellPlaced, EntryOf
<1>9. AllPlaced'
  <2>1. Placed' \subseteq Placed \cup {EntryOf(v, D + 1) : v \in F}
    BY <1>1, <1>2, <1>3, <1>5, <1>7 DEF Placed
  <2>2. \A e \in Placed' : WellPlaced(e)
    BY <1>8, <2>1 DEF Mapped, AllPlaced
  <2>3. \A e : WellPlaced(e)' <=> WellPlaced(e)
    BY <1>1 DEF WellPlaced, Paths
  <2> QED BY <2>2, <2>3 DEF AllPlaced
<1>10. Known'
  BY <1>1, <1>7 DEF Mapped, Known
<1>11. SeedAlone'
  BY <1>1, <1>2, <1>4, <1>7 DEF Mapped, SeedAlone
<1>12. LinksQueued'
  <2> SUFFICES ASSUME count' < Limit, NEW e \in EntriesOf(pages'), e.depth < MaxDepth
               PROVE  site[e.url] \cap InScope \subseteq queued'
    BY <1>1 DEF LinksQueued
  <2>1. CASE e \in EntriesOf(pages)
    BY <1>1, <2>1 DEF Mapped, LinksQueued
  <2>2. CASE e = EntryOf(u, D)
    <3>1. e.url = u /\ e.depth = D
      BY <2>2 DEF EntryOf
    <3>2. Followed(u)
      BY <1>4, <3>1 DEF Followed, D
    <3>3. site[u] \cap InScope \subseteq seen \cup queued \cup F
      BY <3>2 DEF F, Fresh
    <3> QED BY <1>1, <3>1, <3>3 DEF Mapped, Known
  <2> QED BY <1>3, <2>1, <2>2
<1> QED BY <1>9, <1>10, <1>11, <1>12 DEF Mapped

\* It holds at first ...
LEMMA MappedInit == Init => Mapped
<1> SUFFICES ASSUME Init PROVE Mapped
  OBVIOUS
<1>1. /\ queue = <<EntryOf(Seed, 0)>> /\ pages = <<>> /\ inFlight = {} /\ seen = {}
      /\ queued = {Seed} /\ Seed \in URLs
  BY Constants DEF Init, EntryOf
<1>2. /\ EntriesOf(queue) = {EntryOf(Seed, 0)} /\ UrlsOf(queue) = {Seed}
      /\ EntriesOf(pages) = {}
  BY <1>1 DEF EntriesOf, UrlsOf, EntryOf
<1>3. Placed = {EntryOf(Seed, 0)}
  BY <1>1, <1>2 DEF Placed
<1>4. Paths(Seed, 0) # {}
  <2>1. [i \in 0..0 |-> Seed] \in Paths(Seed, 0)
    BY <1>1 DEF Paths
  <2> QED BY <2>1
<1>5. AllPlaced
  BY <1>3, <1>4 DEF AllPlaced, WellPlaced, EntryOf
<1>6. Known /\ SeedAlone /\ LinksQueued
  BY <1>1, <1>2 DEF Known, SeedAlone, LinksQueued
<1> QED BY <1>5, <1>6 DEF Mapped

\* ... and every step keeps it.
LEMMA MappedStep ==
  ASSUME IInv, Mapped, [Next]_vars
  PROVE  Mapped'
<1>1. CASE Wait \/ Leave \/ Shutdown \/ UNCHANGED vars
  <2>1. /\ UNCHANGED <<site, queue, seen, queued, depth, pages, inFlight>>
        /\ phase' \notin {"closing", "closed"} => phase \notin {"closing", "closed"}
    BY <1>1 DEF Wait, Leave, Shutdown, vars, main
  <2> QED BY <2>1, QuietMapped
<1>2. ASSUME NEW u \in URLs, CollectNothing(u) PROVE Mapped'
  <2>1. /\ UNCHANGED <<site, phase, queue, seen, queued, depth, pages>>
        /\ inFlight' \subseteq inFlight
    BY <1>2 DEF CollectNothing, Collected
  <2> QED BY <2>1, QuietMapped
<1>3. ASSUME NEW u \in URLs, Thread(u) PROVE Mapped'
  <2>1. UNCHANGED main
    BY <1>3, ThreadFacts DEF IInv
  <2> QED BY <2>1, QuietMapped DEF main
<1> QED BY <1>1, <1>2, <1>3, PopMapped, PageMapped, AbandonMapped DEF Next, Main

\* In every reachable state every URL stands where links lead to.
THEOREM AlwaysMapped == Spec => [](IInv /\ Mapped)
<1>1. IInv /\ Mapped /\ [Next]_vars => Mapped'
  BY MappedStep
<1> QED BY <1>1, Inductive, MappedInit, PTL DEF Spec

\* The depth of a page, as its results row has it, is the number of links of a
\* path to it and within the crawl's depth, in whatever order the fetches end.
THEOREM DepthIsAlwaysAPath == Spec => []DepthIsAPath
<1>1. IInv /\ Mapped => DepthIsAPath
  <2> SUFFICES ASSUME IInv, Mapped, NEW i \in DOMAIN pages
               PROVE  pages[i].depth <= MaxDepth /\ Paths(pages[i].url, pages[i].depth) # {}
    BY DEF DepthIsAPath
  <2>1. pages[i] \in Entry /\ MaxDepth \in Nat
    BY Numbers DEF IInv, TypeOK
  <2>2. pages[i] \in Placed
    BY DEF Placed, EntriesOf
  <2> QED BY <2>1, <2>2 DEF Mapped, AllPlaced, WellPlaced, Entry
<1> QED BY <1>1, AlwaysMapped, PTL

\* A crawl of depth 2 at most that ends by itself, below its limit and without
\* errors, has yielded every page within its depth, in whatever order the
\* fetches end: what the seed links to is never found on a longer path first.
THEOREM ShallowAlwaysCovered == Spec => []CoversShallow
<1>1. IInv /\ Mapped => CoversShallow
  <2> SUFFICES ASSUME IInv, Mapped, MaxDepth <= 2, phase = "done", count < Limit,
                      errors = {}, NEW x \in Within(MaxDepth)
               PROVE  x \in Got
    BY DEF CoversShallow, CoversDepth
  <2>1. queued \subseteq Got
    <3>1. UrlsOf(<<>>) = {}
      BY DEF UrlsOf
    <3> QED BY <3>1 DEF IInv, SeenIsKept, QueuedIsKept, EndedIsEmpty
  <2>2. PICK k \in 0..MaxDepth : Paths(x, k) # {}
    BY DEF Within
  <2>3. PICK p \in [0..k -> URLs] :
          p[0] = Seed /\ p[k] = x /\ \A i \in 1..k : p[i] \in site[p[i - 1]] \cap InScope
    BY <2>2 DEF Paths
  <2>4. Seed \in Got /\ MaxDepth \in Nat
    BY <2>1, Numbers DEF Mapped, Known
  <2>5. ASSUME NEW v \in Got
        PROVE  \E e \in EntriesOf(pages) : e.url = v /\ WellPlaced(e) /\ e.depth \in Nat
    <3>1. PICK i \in DOMAIN pages : pages[i].url = v
      BY DEF Got
    <3>2. pages[i] \in Entry
      BY DEF IInv, TypeOK
    <3> QED BY <3>1, <3>2, Numbers DEF EntriesOf, Placed, Mapped, AllPlaced, Entry
  <2>6. ASSUME 0 < MaxDepth PROVE site[Seed] \cap InScope \subseteq Got
    BY <2>1, <2>4, <2>5, <2>6 DEF Mapped, LinksQueued, WellPlaced
  <2>7. ASSUME 1 < MaxDepth, NEW v \in site[Seed] \cap InScope
        PROVE  site[v] \cap InScope \subseteq Got
    BY <2>1, <2>4, <2>5, <2>6, <2>7 DEF Mapped, LinksQueued, WellPlaced
  <2>8. k \in 0..2
    BY <2>4
  <2>9. CASE k = 0
    BY <2>3, <2>4, <2>9
  <2>10. CASE k = 1
    <3>1. x \in site[Seed] \cap InScope /\ 0 < MaxDepth
      BY <2>3, <2>4, <2>10
    <3> QED BY <2>6, <3>1
  <2>11. CASE k = 2
    <3>1. p[1] \in site[p[0]] \cap InScope /\ p[2] \in site[p[1]] \cap InScope
      BY <2>3, <2>11
    <3>2. 1 < MaxDepth
      BY <2>4, <2>11
    <3> QED BY <2>3, <2>7, <2>11, <3>1, <3>2
  <2> QED BY <2>8, <2>9, <2>10, <2>11
<1> QED BY <1>1, AlwaysMapped, PTL

----------------------------------------------------------------------------
(* That a crawl ends: nobody waits for what does not come, and every step uses *)
(* up one of a number of steps that the URLs of the site bound.                *)

\* A thread that has passed the gate g, and not yet given its permit back.
Past(u, g) == IF g = "sem" THEN u \in Active /\ gate[u] = "lock" ELSE step[u] = "delay"

\* Those that took it from the object that o made.
Holders(g, o) == {u \in URLs : Past(u, g) /\ mine[g][u] = o}

\* Each object has given out what its holders have, also where two threads of a host
\* made one each: no permit is lost and none is made up.
EachBalanced ==
  \A g \in Gates, o \in URLs : permits[g][o] + Cardinality(Holders(g, o)) = Permits(g)

\* Whoever waits at a gate or has passed one knows the object it is for.
KnowsObject(u) ==
  /\ step[u] = "wait" => mine[gate[u]][u] \in URLs
  /\ \A g \in Gates : Past(u, g) => mine[g][u] \in URLs
  /\ step[u] \in {"delay", "fetch"} => gate[u] = "lock"

\* A future in flight has a thread that works or has finished, and what wait() returned
\* is finished.
FuturesCome ==
  /\ \A u \in inFlight : step[u] # "idle"
  /\ \A u \in batch : step[u] \in {"ok", "err"}

Supplied == EachBalanced /\ (\A u \in URLs : KnowsObject(u)) /\ FuturesCome

\* What a thread, and the generator, wait for has come.
ThreadCanGo(u) ==
  \/ step[u] \in {"look", "make", "delay", "fetch"}
  \/ step[u] = "wait" /\ permits[gate[u]][mine[gate[u]][u]] > 0

MainCanGo ==
  \/ /\ phase = "loop"
     /\ \/ \E u \in batch : step[u] \in {"ok", "err"}
        \/ batch = {} /\ (Room \/ count >= Limit \/ inFlight = {})
        \/ batch = {} /\ \E u \in inFlight : step[u] \in {"ok", "err"}
  \/ phase \in {"ending", "closing"} /\ Active = {}

\* Until the crawl is over somebody can go on ...
NeverStuck ==
  phase \notin {"done", "closed"} => MainCanGo \/ \E u \in URLs : ThreadCanGo(u)

\* The steps left to the thread of u.
ThreadLeft(u) ==
  CASE step[u] = "idle" -> 9
    [] step[u] = "look" -> IF gate[u] = "sem" THEN 8 ELSE 5
    [] step[u] = "make" -> IF gate[u] = "sem" THEN 7 ELSE 4
    [] step[u] = "wait" -> IF gate[u] = "sem" THEN 6 ELSE 3
    [] step[u] = "delay" -> 2
    [] step[u] = "fetch" -> 1
    [] step[u] \in {"ok", "err"} -> 0

PhaseLeft == CASE phase = "loop" -> 2 [] phase \in {"ending", "closing"} -> 1 [] OTHER -> 0

\* The steps left to the generator: a URL on the frontier, or not yet queued, costs it
\* four at most, one that is in flight three, one in the batch two.
MainLeft ==
  4 * (Len(queue) + Cardinality(URLs) - Cardinality(queued))
    + 3 * Cardinality(inFlight) - Cardinality(batch) + PhaseLeft

LeftsBounded ==
  /\ MainLeft \in 0 .. 4 * Cardinality(URLs) + 2
  /\ \A u \in URLs : ThreadLeft(u) \in 0..9

\* ... and each step leaves less to do, to the generator or to one thread, and no more
\* to any other.
CrawlDwindles ==
  \/ MainLeft' < MainLeft /\ \A u \in URLs : ThreadLeft(u)' <= ThreadLeft(u)
  \/ /\ MainLeft' = MainLeft
     /\ \E u \in URLs : /\ ThreadLeft(u)' < ThreadLeft(u)
                        /\ \A v \in URLs \ {u} : ThreadLeft(v)' = ThreadLeft(v)

\* The steps that leave the pool alone take nothing from its threads.
LEMMA PoolUnmoved ==
  ASSUME EachBalanced, \A u \in URLs : KnowsObject(u), UNCHANGED pool
  PROVE  EachBalanced' /\ \A u \in URLs : KnowsObject(u)'
<1>1. UNCHANGED <<step, gate, mine, permits>>
  BY DEF pool
<1>2. \A u \in URLs, g \in Gates : Past(u, g)' = Past(u, g)
  BY <1>1 DEF Past, Active
<1>3. \A g \in Gates, o \in URLs : Holders(g, o)' = Holders(g, o)
  BY <1>1, <1>2 DEF Holders
<1> QED BY <1>1, <1>2, <1>3 DEF EachBalanced, KnowsObject

\* A thread is started, before its first gate.
LEMMA PopSupplied ==
  ASSUME IInv, Gated, Supplied, Pop
  PROVE  Supplied'
<1> DEFINE u == Head(queue).url
           d == Head(queue).depth
<1>1. /\ u \in URLs /\ batch = {} /\ batch' = {} /\ UNCHANGED <<gate, mine, permits>>
      /\ \/ UNCHANGED <<step, inFlight>>
         \/ u \notin seen /\ Submit(u, d)
  BY UrlsOfTail DEF IInv, TypeOK, Pop, Room, Entry
<1> HIDE DEF u, d
<1>2. CASE UNCHANGED <<step, inFlight>>
  <2>1. \A v \in URLs, g \in Gates : Past(v, g)' = Past(v, g)
    BY <1>1, <1>2 DEF Past, Active
  <2>2. \A g \in Gates, o \in URLs : Holders(g, o)' = Holders(g, o)
    BY <1>1, <2>1 DEF Holders
  <2> QED BY <1>1, <1>2, <2>1, <2>2 DEF Supplied, EachBalanced, KnowsObject, FuturesCome
<1>3. CASE u \notin seen /\ Submit(u, d)
  <2>1. /\ step[u] = "idle" /\ gate[u] = "sem" /\ step'[u] = "look"
        /\ \A v \in URLs \ {u} : step'[v] = step[v]
        /\ inFlight' = inFlight \cup {u}
    BY <1>1, <1>3 DEF Gated, StartsOnce, Submit, IInv, TypeOK
  <2>2. \A v \in URLs, g \in Gates : Past(v, g)' = Past(v, g)
    BY <1>1, <2>1 DEF Past, Active
  <2>3. \A g \in Gates, o \in URLs : Holders(g, o)' = Holders(g, o)
    BY <1>1, <2>2 DEF Holders
  <2>4. EachBalanced'
    BY <1>1, <2>3 DEF Supplied, EachBalanced
  <2>5. \A v \in URLs : KnowsObject(v)'
    BY <1>1, <2>1, <2>2 DEF Supplied, KnowsObject
  <2>6. FuturesCome'
    BY <1>1, <2>1 DEF Supplied, FuturesCome, IInv, TypeOK
  <2> QED BY <2>4, <2>5, <2>6 DEF Supplied
<1> QED BY <1>1, <1>2, <1>3

\* The generator waits, collects, or ends.
LEMMA GeneratorSupplied ==
  ASSUME IInv, Supplied,
         Wait \/ (\E u \in URLs : CollectPage(u) \/ CollectNothing(u) \/ Abandon(u))
         \/ Leave \/ Shutdown \/ UNCHANGED vars
  PROVE  Supplied'
<1>1. UNCHANGED pool /\ inFlight' \subseteq inFlight
      /\ \/ batch' \subseteq batch
         \/ \A u \in batch' : step[u] \in {"ok", "err"}
  BY DEF Wait, CollectPage, CollectNothing, Abandon, Collected, Leave, Shutdown, vars, main
<1>2. FuturesCome'
  BY <1>1 DEF Supplied, FuturesCome, pool
<1> QED BY <1>1, <1>2, PoolUnmoved DEF Supplied

\* A thread's step leaves the futures and the other threads alone.
LEMMA ThreadKeeps ==
  ASSUME IInv, Gated, Supplied, NEW u \in URLs, Thread(u),
         \A v \in URLs \ {u}, g \in Gates : mine'[g][v] = mine[g][v]
  PROVE  /\ FuturesCome'
         /\ \A v \in URLs \ {u}, g \in Gates : Past(v, g)' = Past(v, g)
         /\ \A v \in URLs \ {u} : KnowsObject(v)'
<1>1. /\ UNCHANGED <<inFlight, batch>> /\ step'[u] # "idle"
      /\ step[u] \in {"look", "make", "wait", "delay", "fetch"}
      /\ \A v \in URLs \ {u} : step'[v] = step[v] /\ gate'[v] = gate[v]
  BY AtGates, ThreadFacts DEF IInv, main
<1>2. FuturesCome'
  BY <1>1 DEF Supplied, FuturesCome, IInv, TypeOK
<1>3. \A v \in URLs \ {u}, g \in Gates : Past(v, g)' = Past(v, g)
  BY <1>1 DEF Past, Active
<1>4. ASSUME NEW v \in URLs \ {u} PROVE KnowsObject(v)'
  <2>1. gate[v] \in Gates /\ KnowsObject(v)
    BY DEF IInv, TypeOK, Supplied
  <2> QED BY <1>1, <1>3, <2>1 DEF KnowsObject
<1> QED BY <1>2, <1>3, <1>4

\* A step that passes no gate and drops no object that is held.
LEMMA NoGatePassed ==
  ASSUME IInv, Gated, Supplied, NEW u \in URLs, Thread(u), UNCHANGED permits,
         \A v \in URLs \ {u}, g \in Gates : mine'[g][v] = mine[g][v],
         \A g \in Gates : Past(u, g)' = Past(u, g) /\ (Past(u, g) => mine'[g][u] = mine[g][u]),
         KnowsObject(u)'
  PROVE  Supplied'
<1>1. \A g \in Gates, o \in URLs : Holders(g, o)' = Holders(g, o)
  BY ThreadKeeps DEF Holders
<1>2. EachBalanced'
  BY <1>1 DEF Supplied, EachBalanced
<1> QED BY <1>2, ThreadKeeps DEF Supplied

\* A permit of one object goes to a thread, or comes back from it.
LEMMA GatePassed ==
  ASSUME IInv, Gated, Supplied, NEW u \in URLs, Thread(u), UNCHANGED mine,
         NEW G \in Gates, NEW o \in URLs, NEW n \in Int, o = mine[G][u],
         permits' = [permits EXCEPT ![G][o] = n],
         \/ Past(u, G)' /\ ~Past(u, G) /\ n = permits[G][o] - 1
         \/ ~Past(u, G)' /\ Past(u, G) /\ n = permits[G][o] + 1,
         \A g \in Gates \ {G} : Past(u, g)' = Past(u, g),
         KnowsObject(u)'
  PROVE  Supplied'
<1>1. permits \in [Gates -> [URLs -> Nat]] /\ \A g \in Gates : Permits(g) \in Nat
  BY Numbers DEF IInv, TypeOK
<1>2. \A x \in Gates, y \in URLs :
        permits'[x][y] = IF x = G /\ y = o THEN n ELSE permits[x][y]
  BY <1>1, OneCell
<1>3. ASSUME NEW g \in Gates, NEW p \in URLs, ~(g = G /\ p = o)
      PROVE  Holders(g, p)' = Holders(g, p)
  BY <1>3, ThreadKeeps DEF Holders
<1>4. /\ Holders(G, o) \in SUBSET URLs /\ Holders(G, o)' \in SUBSET URLs
      /\ Past(u, G)' /\ ~Past(u, G) => Holders(G, o)' = Holders(G, o) \cup {u} /\ u \notin Holders(G, o)
      /\ ~Past(u, G)' /\ Past(u, G) => Holders(G, o)' = Holders(G, o) \ {u} /\ u \in Holders(G, o)
  BY ThreadKeeps DEF Holders
<1>5. permits'[G][o] + Cardinality(Holders(G, o)') = permits[G][o] + Cardinality(Holders(G, o))
  <2>1. permits[G][o] \in Int /\ permits'[G][o] = n
    BY <1>1, <1>2
  <2>2. /\ Cardinality(Holders(G, o)) \in Nat /\ Cardinality(Holders(G, o)') \in Nat
        /\ n = permits[G][o] - 1 /\ Past(u, G)' /\ ~Past(u, G)
             => Cardinality(Holders(G, o)') = Cardinality(Holders(G, o)) + 1
        /\ n = permits[G][o] + 1 /\ ~Past(u, G)' /\ Past(u, G)
             => Cardinality(Holders(G, o)') = Cardinality(Holders(G, o)) - 1
    BY <1>4, OneMore
  <2> QED BY <2>1, <2>2
<1>6. EachBalanced'
  <2>1. ASSUME NEW g \in Gates, NEW p \in URLs
        PROVE  permits'[g][p] + Cardinality(Holders(g, p)') = Permits(g)
    <3>1. permits[g][p] + Cardinality(Holders(g, p)) = Permits(g)
      BY DEF Supplied, EachBalanced
    <3>2. CASE g = G /\ p = o
      BY <1>5, <3>1, <3>2
    <3>3. CASE ~(g = G /\ p = o)
      BY <1>2, <1>3, <3>1, <3>3
    <3> QED BY <3>2, <3>3
  <2> QED BY <2>1 DEF EachBalanced
<1> QED BY <1>6, ThreadKeeps DEF Supplied

\* Looking an object up, or making one.
LEMMA FindsObject ==
  ASSUME IInv, Gated, Supplied, NEW u \in URLs, Look(u) \/ Make(u)
  PROVE  Supplied'
<1>0. Thread(u)
  BY DEF Thread
<1>1. /\ gate[u] \in Gates /\ HostOf[u] \in Host /\ TypeOK
      /\ step[u] \in {"look", "make"} /\ UNCHANGED <<gate, permits>>
      /\ KnowsObject(u)
  BY <1>0, AtGates, Constants DEF IInv, Look, Make, Supplied
<1>2. PICK G \in Gates, o \in URLs \cup {NoUrl} :
        /\ G = gate[u]
        /\ \/ o # NoUrl /\ mine' = [mine EXCEPT ![G][u] = o] /\ step'[u] = "wait"
           \/ mine' = mine /\ step'[u] = "make"
  <2>1. CASE Look(u)
    <3>1. PICK G \in Gates, o \in URLs \cup {NoUrl} :
            G = gate[u] /\ o = table[gate[u]][HostOf[u]]
      BY <1>1 DEF TypeOK
    <3>2. \/ o # NoUrl /\ mine' = [mine EXCEPT ![G][u] = o] /\ step'[u] = "wait"
          \/ mine' = mine /\ step'[u] = "make"
      BY <1>1, <2>1, <3>1 DEF Look, Goto, TypeOK
    <3> QED BY <3>1, <3>2
  <2>2. CASE Make(u)
    <3>1. u # NoUrl /\ mine' = [mine EXCEPT ![gate[u]][u] = u] /\ step'[u] = "wait"
      BY <1>1, <2>2, Constants DEF Make, Goto, TypeOK
    <3>2. PICK G \in Gates : G = gate[u]
      BY <1>1
    <3>3. mine' = [mine EXCEPT ![G][u] = u]
      BY <3>1, <3>2
    <3> QED BY <3>1, <3>2, <3>3
  <2> QED BY <2>1, <2>2
<1>3. /\ \A v \in URLs, g \in Gates : v # u \/ g # G => mine'[g][v] = mine[g][v]
      /\ step'[u] = "wait" => mine'[G][u] \in URLs
  <2>1. mine \in [Gates -> [URLs -> URLs \cup {NoUrl}]]
    BY <1>1 DEF TypeOK
  <2>2. CASE o # NoUrl /\ mine' = [mine EXCEPT ![G][u] = o]
    <3>1. \A x \in Gates, y \in URLs :
            mine'[x][y] = IF x = G /\ y = u THEN o ELSE mine[x][y]
      BY <2>1, <2>2, OneCell
    <3> QED BY <2>2, <3>1
  <2>3. CASE mine' = mine /\ step'[u] = "make"
    BY <2>3
  <2> QED BY <1>2, <2>2, <2>3
<1>4. /\ \A g \in Gates : Past(u, g)' = Past(u, g)
      /\ ~Past(u, G)
  BY <1>1, <1>2 DEF Past, Active, Gates
<1>5. KnowsObject(u)'
  BY <1>1, <1>2, <1>3, <1>4 DEF KnowsObject
<1> QED BY <1>0, <1>1, <1>3, <1>4, <1>5, NoGatePassed

\* Taking a permit, or giving it back.
LEMMA TakesOrGives ==
  ASSUME IInv, Gated, Supplied, NEW u \in URLs, Acquire(u) \/ Delay(u) \/ Fetch(u)
  PROVE  Supplied'
<1>0. Thread(u)
  BY DEF Thread
<1>1. /\ gate[u] \in Gates /\ KnowsObject(u) /\ UNCHANGED mine /\ TypeOK
      /\ step \in [URLs -> {"idle", "look", "make", "wait", "delay", "fetch", "ok", "err"}]
      /\ gate \in [URLs -> Gates]
  BY <1>0, AtGates DEF Supplied, Acquire, Delay, Fetch, IInv, TypeOK
<1>2. ASSUME NEW G \in Gates, mine[G][u] \in URLs
      PROVE  permits[G][mine[G][u]] \in Int
  BY <1>1, <1>2 DEF TypeOK
<1>3. CASE Acquire(u)
  <2>1. PICK G \in Gates, o \in URLs : G = gate[u] /\ o = mine[G][u]
    BY <1>1, <1>3 DEF Acquire, KnowsObject
  <2>2. PICK n \in Int : n = permits[G][o] - 1
    BY <1>2, <2>1
  <2>3. permits' = [permits EXCEPT ![G][o] = n]
    BY <1>3, <2>1, <2>2 DEF Acquire
  <2>4. /\ step[u] = "wait" /\ gate'[u] = "lock"
        /\ step'[u] = IF G = "sem" THEN "look" ELSE "delay"
    BY <1>1, <1>3, <2>1 DEF Acquire, Goto, Gates
  <2>5. /\ Past(u, G)' /\ ~Past(u, G)
        /\ \A g \in Gates \ {G} : Past(u, g)' = Past(u, g)
    BY <1>1, <2>1, <2>4 DEF Past, Active, Gates
  <2>6. KnowsObject(u)'
    BY <1>1, <2>1, <2>4, <2>5 DEF KnowsObject
  <2> QED BY <1>0, <1>1, <2>1, <2>2, <2>3, <2>5, <2>6, GatePassed
<1>4. CASE Delay(u) \/ Fetch(u)
  <2>1. PICK G \in Gates : \/ G = "lock" /\ Delay(u)
                           \/ G = "sem" /\ Fetch(u)
    BY <1>4 DEF Gates
  <2>2. /\ gate[u] = "lock" /\ gate'[u] = "lock" /\ Release(u, G)
        /\ step[u] = IF G = "lock" THEN "delay" ELSE "fetch"
        /\ G = "lock" => step'[u] = "fetch"
        /\ G = "sem" => step'[u] \in {"ok", "err"}
    BY <1>1, <2>1 DEF Delay, Fetch, Goto, KnowsObject
  <2>3. /\ ~Past(u, G)' /\ Past(u, G)
        /\ \A g \in Gates \ {G} : Past(u, g)' = Past(u, g)
    BY <1>1, <2>2 DEF Past, Active, Gates
  <2>4. PICK o \in URLs : o = mine[G][u]
    BY <1>1, <2>3 DEF KnowsObject
  <2>5. PICK n \in Int : n = permits[G][o] + 1
    BY <1>2, <2>4
  <2>6. permits' = [permits EXCEPT ![G][o] = n]
    BY <2>2, <2>4, <2>5 DEF Release
  <2>7. KnowsObject(u)'
    BY <1>1, <2>2, <2>3 DEF KnowsObject, Gates
  <2> QED BY <1>0, <1>1, <2>3, <2>4, <2>5, <2>6, <2>7, GatePassed
<1> QED BY <1>3, <1>4

\* Supplied holds at first ...
LEMMA SuppliedInit == Init => Supplied
<1> SUFFICES ASSUME Init PROVE Supplied
  OBVIOUS
<1>1. \A u \in URLs, g \in Gates : ~Past(u, g)
  BY DEF Init, Past, Active
<1>2. \A g \in Gates, o \in URLs : Cardinality(Holders(g, o)) = 0
  BY <1>1, FS_EmptySet DEF Holders
<1>3. EachBalanced
  BY <1>2, Numbers DEF Init, EachBalanced
<1> QED BY <1>1, <1>3 DEF Init, Supplied, KnowsObject, FuturesCome

\* ... and every step keeps it.
LEMMA SuppliedStep == IInv /\ Gated /\ Supplied /\ [Next]_vars => Supplied'
BY PopSupplied, GeneratorSupplied, FindsObject, TakesOrGives DEF Next, Main, Thread

\* Every object is balanced and every future comes, for all hosts.
THEOREM AlwaysSupplied == Spec => [](IInv /\ Gated /\ Supplied)
<1>1. Init => IInv /\ Gated /\ Supplied
  BY InvInit, GatedInit, SuppliedInit
<1>2. IInv /\ Gated /\ Supplied /\ [Next]_vars => Gated' /\ Supplied'
  BY GatedStep, SuppliedStep
<1> QED BY <1>1, <1>2, Inductive, PTL DEF Spec

\* Whoever waits at a gate waits for a thread that can go on: at a lock for one that is
\* in its delay, at a semaphore for one that is past it.
LEMMA PoolGoesOn ==
  ASSUME IInv, Supplied, \A u \in URLs : ~ThreadCanGo(u)
  PROVE  Active = {}
<1>1. ASSUME NEW u \in Active
      PROVE  /\ step[u] = "wait"
             /\ \E v \in URLs : Past(v, gate[u])
  <2>1. u \in URLs /\ step[u] = "wait" /\ gate[u] \in Gates /\ KnowsObject(u)
    BY <1>1 DEF Active, ThreadCanGo, IInv, TypeOK, Supplied
  <2>2. PICK G \in Gates, o \in URLs : G = gate[u] /\ o = mine[G][u]
    BY <2>1 DEF KnowsObject
  <2>3. permits[G][o] \in Nat /\ ~(permits[G][o] > 0)
    BY <2>1, <2>2 DEF ThreadCanGo, IInv, TypeOK
  <2>4. permits[G][o] + Cardinality(Holders(G, o)) = Permits(G) /\ Permits(G) \in Nat \ {0}
    BY Numbers DEF Supplied, EachBalanced
  <2>5. Holders(G, o) \in SUBSET URLs
    BY DEF Holders
  <2>6. Cardinality(Holders(G, o)) \in Nat /\ Cardinality(Holders(G, o)) # 0
    BY <2>3, <2>4, <2>5, UrlSets
  <2>7. Holders(G, o) # {}
    BY <2>5, <2>6, UrlSets
  <2> QED BY <2>1, <2>2, <2>7 DEF Holders
<1>2. ASSUME NEW u \in Active PROVE gate[u] = "sem"
  <2>1. ASSUME gate[u] = "lock" PROVE FALSE
    <3>1. PICK v \in URLs : step[v] = "delay"
      BY <1>1, <2>1 DEF Past
    <3> QED BY <3>1 DEF ThreadCanGo
  <2> QED BY <2>1 DEF IInv, TypeOK, Gates, Active
<1>3. ASSUME NEW u \in Active PROVE FALSE
  <2>1. PICK v \in Active : gate[v] = "lock"
    BY <1>1, <1>2 DEF Past
  <2> QED BY <1>2, <2>1
<1> QED BY <1>3

\* While a crawl is not over, its generator can go on or one of its threads can, however
\* many objects the threads of a host have made (wait() and the gates of _fetch_one).
THEOREM NeverIsStuck == Spec => []NeverStuck
<1>1. IInv /\ Supplied => NeverStuck
  <2> SUFFICES ASSUME IInv, Supplied, phase \notin {"done", "closed"},
                      \A u \in URLs : ~ThreadCanGo(u)
               PROVE  MainCanGo
    BY DEF NeverStuck
  <2>1. Active = {}
    BY PoolGoesOn
  <2>2. phase \in {"loop", "ending", "closing"}
    BY DEF IInv, TypeOK
  <2>3. CASE phase = "loop" /\ batch = {} /\ inFlight # {}
    <3>1. PICK u \in inFlight : u \in URLs /\ step[u] # "idle"
      BY <2>3 DEF Supplied, FuturesCome, IInv, TypeOK
    <3>2. step[u] \in {"ok", "err"}
      BY <2>1, <3>1 DEF Active, IInv, TypeOK
    <3> QED BY <2>3, <3>1, <3>2 DEF MainCanGo
  <2> QED BY <2>1, <2>2, <2>3 DEF MainCanGo, Supplied, FuturesCome
<1> QED BY <1>1, AlwaysSupplied, PTL

\* What is left of a crawl is a number, bounded by the URLs for each thread.
LEMMA LeftCounts ==
  ASSUME IInv
  PROVE  /\ Len(queue) \in Nat
         /\ Cardinality(URLs) \in Nat /\ Cardinality(queued) \in 0..Cardinality(URLs)
         /\ Cardinality(inFlight) \in Nat /\ Cardinality(batch) \in 0..Cardinality(inFlight)
         /\ PhaseLeft \in 0..2
         /\ \A u \in URLs : ThreadLeft(u) \in 0..9
<1>1. Len(queue) \in Nat
  BY DEF IInv, TypeOK
<1>2. /\ Cardinality(URLs) \in Nat /\ Cardinality(queued) \in 0..Cardinality(URLs)
      /\ Cardinality(inFlight) \in Nat /\ Cardinality(batch) \in 0..Cardinality(inFlight)
  <2>1. /\ IsFiniteSet(URLs) /\ queued \in SUBSET URLs /\ inFlight \in SUBSET URLs
        /\ batch \in SUBSET inFlight /\ IsFiniteSet(inFlight)
    BY Constants, FS_Subset DEF IInv, TypeOK
  <2>2. PICK Q \in SUBSET URLs, B \in SUBSET inFlight : Q = queued /\ B = batch
    BY <2>1
  <2>3. /\ Cardinality(URLs) \in Nat /\ Cardinality(inFlight) \in Nat
        /\ Cardinality(Q) \in Nat /\ Cardinality(B) \in Nat
    BY <2>1, FS_Subset, FS_CardinalityType
  <2>4. Cardinality(Q) <= Cardinality(URLs) /\ Cardinality(B) <= Cardinality(inFlight)
    BY <2>1, FS_Subset
  <2> QED BY <2>2, <2>3, <2>4
<1>3. PhaseLeft \in 0..2
  BY DEF PhaseLeft, IInv, TypeOK
<1>4. ASSUME NEW u \in URLs PROVE ThreadLeft(u) \in 0..9
  <2>1. step[u] \in {"idle", "look", "make", "wait", "delay", "fetch", "ok", "err"}
    BY DEF IInv, TypeOK
  <2> QED BY <2>1 DEF ThreadLeft
<1> QED BY <1>1, <1>2, <1>3, <1>4

\* What is left is never less than nothing.
LeftsTyped == MainLeft \in Nat /\ \A u \in URLs : ThreadLeft(u) \in 0..9

\* The numbers that what is left to the generator is made of.
LEMMA LeftIs ==
  ASSUME IInv
  PROVE  \E q, c, n, i, b \in Nat, p \in 0..2 :
           /\ q = Len(queue) /\ c = Cardinality(URLs) /\ n = Cardinality(queued)
           /\ i = Cardinality(inFlight) /\ b = Cardinality(batch) /\ p = PhaseLeft
           /\ n <= c /\ b <= i
           /\ MainLeft = 4 * (q + c - n) + 3 * i - b + p
<1>1. /\ Len(queue) \in Nat
      /\ Cardinality(URLs) \in Nat /\ Cardinality(queued) \in Nat
      /\ Cardinality(inFlight) \in Nat /\ Cardinality(batch) \in Nat
      /\ PhaseLeft \in 0..2
      /\ Cardinality(queued) <= Cardinality(URLs)
      /\ Cardinality(batch) <= Cardinality(inFlight)
  BY LeftCounts
<1>2. MainLeft = 4 * (Len(queue) + Cardinality(URLs) - Cardinality(queued))
                   + 3 * Cardinality(inFlight) - Cardinality(batch) + PhaseLeft
  BY DEF MainLeft
<1> USE <1>1, <1>2
<1> WITNESS Len(queue) \in Nat, Cardinality(URLs) \in Nat, Cardinality(queued) \in Nat,
            Cardinality(inFlight) \in Nat, Cardinality(batch) \in Nat,
            PhaseLeft \in 0..2
<1> QED OBVIOUS

\* A thread of which nothing changed has as much left.
LEMMA SameLeft ==
  ASSUME IInv, NEW u \in URLs, step'[u] = step[u], gate'[u] = gate[u]
  PROVE  ThreadLeft(u)' = ThreadLeft(u) /\ ThreadLeft(u)' <= ThreadLeft(u)
<1>1. PICK k \in 0..9 : k = ThreadLeft(u)
  BY LeftCounts
<1>2. ThreadLeft(u)' = ThreadLeft(u)
  BY DEF ThreadLeft
<1> QED BY <1>1, <1>2

\* A thread's step counts.
LEMMA ThreadCounts ==
  ASSUME IInv, Gated, NEW u \in URLs, Thread(u)
  PROVE  CrawlDwindles
<1>1. /\ gate[u] \in Gates /\ gate \in [URLs -> Gates]
      /\ step \in [URLs -> {"idle", "look", "make", "wait", "delay", "fetch", "ok", "err"}]
      /\ \A v \in URLs \ {u} : step'[v] = step[v] /\ gate'[v] = gate[v]
      /\ UNCHANGED main
  BY AtGates, ThreadFacts DEF IInv, TypeOK
<1>2. \A v \in URLs \ {u} : ThreadLeft(v)' = ThreadLeft(v)
  BY <1>1 DEF ThreadLeft
<1>3. ThreadLeft(u)' < ThreadLeft(u)
  <2>1. CASE Look(u) \/ Make(u)
    <3>1. /\ gate'[u] = gate[u]
          /\ \/ step[u] = "look" /\ step'[u] \in {"make", "wait"}
             \/ step[u] = "make" /\ step'[u] = "wait"
      BY <1>1, <2>1 DEF Look, Make, Goto
    <3> QED BY <3>1 DEF ThreadLeft
  <2>2. CASE Acquire(u)
    <3>1. /\ step[u] = "wait"
          /\ \/ gate[u] = "sem" /\ gate'[u] = "lock" /\ step'[u] = "look"
             \/ gate[u] = "lock" /\ step'[u] = "delay"
      BY <1>1, <2>2 DEF Acquire, Goto, Gates
    <3> QED BY <3>1 DEF ThreadLeft
  <2>3. CASE Delay(u) \/ Fetch(u)
    <3>1. \/ step[u] = "delay" /\ step'[u] = "fetch"
          \/ step[u] = "fetch" /\ step'[u] \in {"ok", "err"}
      BY <1>1, <2>3 DEF Delay, Fetch, Goto
    <3> QED BY <3>1 DEF ThreadLeft
  <2> QED BY <2>1, <2>2, <2>3 DEF Thread
<1>4. MainLeft' = MainLeft
  BY <1>1 DEF main, MainLeft, PhaseLeft
<1> QED BY <1>2, <1>3, <1>4 DEF CrawlDwindles

\* Taking the head of the frontier counts, and starts a thread that was idle.
LEMMA PopCounts ==
  ASSUME IInv, Gated, Pop
  PROVE  CrawlDwindles
<1>1. PICK u \in URLs, d \in 0..MaxDepth : u = Head(queue).url /\ d = Head(queue).depth
  <2>1. queue \in Seq(Entry) /\ queue # <<>>
    BY DEF IInv, TypeOK, Pop, Room
  <2>2. Head(queue) \in Entry
    BY <2>1, EmptySeq, HeadTailProperties
  <2> QED BY <2>2 DEF Entry
<1>2. /\ u \in URLs /\ batch = {} /\ Len(queue') = Len(queue) - 1
      /\ UNCHANGED <<phase, queued, batch, gate>>
      /\ \/ UNCHANGED <<step, inFlight>>
         \/ u \notin seen /\ Submit(u, d)
  BY <1>1, UrlsOfTail, EmptySeq, HeadTailProperties DEF IInv, TypeOK, Pop, Room, Entry
<1>3. PhaseLeft' = PhaseLeft
  BY <1>2 DEF PhaseLeft
<1>4. PICK q, c, n, i, b \in Nat, p \in 0..2 :
        /\ q = Len(queue) /\ c = Cardinality(URLs) /\ n = Cardinality(queued)
        /\ i = Cardinality(inFlight) /\ b = Cardinality(batch) /\ p = PhaseLeft
        /\ MainLeft = 4 * (q + c - n) + 3 * i - b + p
  BY LeftIs
<1>5. MainLeft = 4 * (q + c - n) + 3 * i - b + p
  BY <1>4
<1>6. CASE UNCHANGED <<step, inFlight>>
  <2>1. MainLeft' = 4 * ((q - 1) + c - n) + 3 * i - b + p
    BY <1>2, <1>3, <1>6, <1>4 DEF MainLeft
  <2>2. \A v \in URLs : ThreadLeft(v)' <= ThreadLeft(v)
    BY <1>2, <1>6, SameLeft
  <2>3. MainLeft' < MainLeft
    BY <1>5, <2>1
  <2> QED BY <2>2, <2>3 DEF CrawlDwindles
<1>7. CASE u \notin seen /\ Submit(u, d)
  <2>1. /\ step[u] = "idle" /\ step'[u] = "look"
        /\ \A v \in URLs \ {u} : step'[v] = step[v]
        /\ inFlight' = inFlight \cup {u} /\ u \notin inFlight
    BY <1>2, <1>7 DEF Gated, StartsOnce, Submit, IInv, TypeOK, SeenIsKept
  <2>2. Cardinality(inFlight') = Cardinality(inFlight) + 1
    BY <1>2, <2>1, UrlSets DEF IInv, TypeOK
  <2>3. MainLeft' < MainLeft
    <3>1. MainLeft' = 4 * ((q - 1) + c - n) + 3 * (i + 1) - b + p
      BY <1>2, <1>3, <1>4, <2>2 DEF MainLeft
    <3> QED BY <1>5, <3>1
  <2>4. ThreadLeft(u)' <= ThreadLeft(u)
    <3>1. ThreadLeft(u) = 9
      BY <2>1 DEF ThreadLeft
    <3>2. ThreadLeft(u)' = 8 \/ ThreadLeft(u)' = 5
      BY <2>1 DEF ThreadLeft
    <3> QED BY <3>1, <3>2
  <2>5. \A v \in URLs \ {u} : ThreadLeft(v)' <= ThreadLeft(v)
    BY <1>2, <2>1, SameLeft
  <2>6. \A v \in URLs : ThreadLeft(v)' <= ThreadLeft(v)
    BY <2>4, <2>5, Zenon
  <2> QED BY <2>3, <2>6 DEF CrawlDwindles
<1> QED BY <1>2, <1>6, <1>7

\* The links that join the frontier are as many as are queued for the first time.
LEMMA LinksCount ==
  ASSUME IInv, NEW u \in batch, CollectPage(u)
  PROVE  Len(queue') - Cardinality(queued') = Len(queue) - Cardinality(queued)
<1>1. PICK s \in SetToSeqs(Fresh(u)) : queue' = queue \o Entries(s, depth[u] + 1)
  BY DEF CollectPage
<1>2. /\ Fresh(u) \in SUBSET URLs /\ Fresh(u) \cap queued = {} /\ queued \in SUBSET URLs
      /\ queued' = queued \cup Fresh(u)
      /\ Fresh(u) # {} => depth[u] + 1 <= MaxDepth
      /\ depth[u] + 1 \in Nat
  <2>1. depth[u] \in 0..MaxDepth /\ MaxDepth \in Nat
    BY BatchFacts, Numbers
  <2>2. Fresh(u) # {} => depth[u] < MaxDepth
    BY DEF Fresh, Followed
  <2>3. Fresh(u) \in SUBSET URLs /\ Fresh(u) \cap queued = {}
    BY Constants DEF Fresh
  <2> QED BY <2>1, <2>2, <2>3 DEF CollectPage, IInv, TypeOK
<1>3. PICK F \in SUBSET URLs, Q \in SUBSET URLs : F = Fresh(u) /\ Q = queued
  BY <1>2
<1>4. Len(s) = Cardinality(F) /\ Cardinality(F) \in Nat /\ DOMAIN s = 1..Len(s)
  <2>1. Cardinality(F) \in Nat
    BY UrlSets
  <2>2. s \in [1..Cardinality(F) -> F]
    BY <1>1, <1>3 DEF SetToSeqs
  <2>3. s \in Seq(F)
    BY <2>1, <2>2
  <2> QED BY <2>1, <2>2, <2>3, LenProperties
<1>5. /\ Entries(s, depth[u] + 1) \in Seq(Entry)
      /\ Len(Entries(s, depth[u] + 1)) = Cardinality(F)
  <2>1. Entries(s, depth[u] + 1) \in Seq(Entry)
    BY <1>1, <1>2, UrlsOfEntries
  <2>2. DOMAIN Entries(s, depth[u] + 1) = 1..Cardinality(F)
    BY <1>4 DEF Entries
  <2> QED BY <1>4, <2>1, <2>2, LenProperties
<1>6. Len(queue') = Len(queue) + Cardinality(F) /\ Len(queue) \in Nat
  <2>1. queue \in Seq(Entry)
    BY DEF IInv, TypeOK
  <2>2. Len(queue') = Len(queue) + Len(Entries(s, depth[u] + 1))
    BY <1>1, <1>5, <2>1, ConcatProperties
  <2>3. Len(queue) \in Nat
    BY <2>1, LenProperties
  <2> QED BY <1>5, <2>2, <2>3
<1>7. Cardinality(Q \cup F) = Cardinality(Q) + Cardinality(F)
  <2>1. IsFiniteSet(Q) /\ IsFiniteSet(F) /\ Q \cap F = {}
    BY <1>2, <1>3, UrlSets
  <2>2. Cardinality(Q \cup F) = Cardinality(Q) + Cardinality(F) - Cardinality(Q \cap F)
    BY <2>1, FS_Union
  <2>3. PICK j, k \in Nat : j = Cardinality(Q) /\ k = Cardinality(F)
    BY UrlSets
  <2>4. Cardinality(Q \cap F) = 0
    BY <2>1, FS_EmptySet
  <2>5. j + k - 0 = j + k
    OBVIOUS
  <2> QED BY <2>2, <2>3, <2>4, <2>5
<1>8. Cardinality(Q) \in Nat
  BY UrlSets
<1>9. PICK k \in Nat : k = Len(queue)
  BY <1>6
<1>10. /\ Len(queue') = k + Cardinality(F)
       /\ Cardinality(queued') = Cardinality(Q) + Cardinality(F)
       /\ Cardinality(queued) = Cardinality(Q)
  BY <1>2, <1>3, <1>6, <1>7, <1>9
<1> QED BY <1>4, <1>8, <1>9, <1>10

\* Collecting a future counts.
LEMMA CollectCounts ==
  ASSUME IInv, NEW u \in URLs, CollectPage(u) \/ CollectNothing(u) \/ Abandon(u)
  PROVE  CrawlDwindles
<1>1. /\ u \in batch /\ batch' = batch \ {u} /\ inFlight' = inFlight \ {u}
      /\ UNCHANGED <<step, gate>> /\ phase = "loop" /\ phase' \in {"loop", "closing"}
      /\ CollectPage(u) \/ UNCHANGED <<queue, queued>>
  BY DEF CollectPage, CollectNothing, Abandon, Collected, pool
<1>2. /\ Cardinality(inFlight') = Cardinality(inFlight) - 1
      /\ Cardinality(batch') = Cardinality(batch) - 1
  <2>1. batch \in SUBSET URLs /\ inFlight \in SUBSET URLs /\ u \in inFlight
    BY <1>1 DEF IInv, TypeOK
  <2> QED BY <1>1, <2>1, UrlSets
<1>3. PICK q, c, n, i, b \in Nat, p \in 0..2 :
        /\ q = Len(queue) /\ c = Cardinality(URLs) /\ n = Cardinality(queued)
        /\ i = Cardinality(inFlight) /\ b = Cardinality(batch) /\ p = PhaseLeft
        /\ MainLeft = 4 * (q + c - n) + 3 * i - b + p
  BY LeftIs
<1>4. \E r, m \in Nat : r = Len(queue') /\ m = Cardinality(queued') /\ r - m = q - n
  <2>1. CASE UNCHANGED <<queue, queued>>
    BY <1>3, <2>1
  <2>2. CASE CollectPage(u)
    <3>1. TypeOK'
      BY <2>2, PageStep DEF IInv
    <3>2. PICK Q \in SUBSET URLs : Q = queued'
      BY <3>1 DEF TypeOK
    <3>3. PICK r \in Nat : r = Len(queue')
      BY <3>1 DEF TypeOK
    <3>4. PICK m \in Nat : m = Cardinality(queued')
      BY <3>2, UrlSets
    <3>5. r - m = q - n
      BY <1>1, <1>3, <2>2, <3>3, <3>4, LinksCount
    <3> QED BY <3>3, <3>4, <3>5
  <2> QED BY <1>1, <2>1, <2>2
<1>5. p = 2 /\ \E t \in 1..2 : t = PhaseLeft'
  BY <1>1, <1>3 DEF PhaseLeft
<1>6. MainLeft' < MainLeft
  <2>1. PICK r, m \in Nat : r = Len(queue') /\ m = Cardinality(queued') /\ r - m = q - n
    BY <1>4
  <2>2. PICK t \in 1..2 : t = PhaseLeft'
    BY <1>5
  <2>3. MainLeft' = 4 * (r + c - m) + 3 * (i - 1) - (b - 1) + t
    BY <1>2, <1>3, <2>1, <2>2 DEF MainLeft
  <2>4. MainLeft = 4 * (q + c - n) + 3 * i - b + 2
    BY <1>3, <1>5
  <2>5. r - m = q - n
    BY <2>1
  <2> QED BY <2>3, <2>4, <2>5
<1>7. \A v \in URLs : ThreadLeft(v)' <= ThreadLeft(v)
  BY <1>1, SameLeft
<1> QED BY <1>6, <1>7 DEF CrawlDwindles

\* What wait() returns, and the end, count.
LEMMA QuietCounts ==
  ASSUME IInv, Wait \/ Leave \/ Shutdown
  PROVE  CrawlDwindles
<1>1. UNCHANGED <<queue, queued, inFlight, step, gate>>
  BY DEF Wait, Leave, Shutdown, pool
<1>2. PICK q, c, n, i, b \in Nat, p \in 0..2 :
        /\ q = Len(queue) /\ c = Cardinality(URLs) /\ n = Cardinality(queued)
        /\ i = Cardinality(inFlight) /\ b = Cardinality(batch) /\ p = PhaseLeft
        /\ MainLeft = 4 * (q + c - n) + 3 * i - b + p
  BY LeftIs
<1>3. MainLeft = 4 * (q + c - n) + 3 * i - b + p
  BY <1>2
<1>4. MainLeft' < MainLeft
  <2>1. CASE Wait
    <3>1. batch = {} /\ batch' # {} /\ batch' \in SUBSET URLs /\ phase' = phase
      BY <2>1 DEF Wait, IInv, TypeOK
    <3>2. PICK B \in SUBSET URLs : B = batch'
      BY <3>1
    <3>3. PICK k \in Nat \ {0} : k = Cardinality(batch')
      BY <3>1, <3>2, UrlSets, FS_EmptySet
    <3>4. b = 0
      BY <1>2, <3>1, FS_EmptySet
    <3>5. PhaseLeft' = PhaseLeft
      BY <3>1 DEF PhaseLeft
    <3>6. MainLeft' = 4 * (q + c - n) + 3 * i - k + p
      BY <1>1, <1>2, <3>3, <3>5 DEF MainLeft
    <3> QED BY <1>3, <3>4, <3>6
  <2>2. CASE Leave \/ Shutdown
    <3>1. batch' = batch /\ \E t \in 0..2 : t = PhaseLeft' /\ t < p
      BY <1>2, <2>2 DEF Leave, Shutdown, PhaseLeft
    <3>2. PICK t \in 0..2 : t = PhaseLeft' /\ t < p
      BY <3>1
    <3>3. MainLeft' = 4 * (q + c - n) + 3 * i - b + t
      BY <1>1, <1>2, <3>1, <3>2 DEF MainLeft
    <3>4. t < p
      BY <3>2
    <3> QED BY <1>3, <3>3, <3>4
  <2> QED BY <2>1, <2>2
<1>5. \A v \in URLs : ThreadLeft(v)' <= ThreadLeft(v)
  BY <1>1, SameLeft
<1> QED BY <1>4, <1>5 DEF CrawlDwindles

\* Every crawl comes to its end within a number of steps that its URLs bound: whatever
\* the site, the order of the answers and the consumer (crawl_bfs_iter's loop).
THEOREM CrawlIsBounded == Spec => []LeftsBounded /\ [][CrawlDwindles]_vars
<1>1. IInv /\ Gated /\ [Next]_vars => [CrawlDwindles]_vars
  BY PopCounts, CollectCounts, QuietCounts, ThreadCounts DEF Next, Main
<1>2. Init => LeftsBounded
  <2> SUFFICES ASSUME Init PROVE LeftsBounded
    OBVIOUS
  <2>1. IInv
    BY InvInit
  <2>2. /\ Len(queue) = 1 /\ Cardinality(queued) = 1 /\ Cardinality(inFlight) = 0
        /\ Cardinality(batch) = 0 /\ PhaseLeft = 2
    BY FS_Singleton, FS_EmptySet DEF Init, PhaseLeft
  <2>3. MainLeft \in 0 .. 4 * Cardinality(URLs) + 2
    BY <2>1, <2>2, LeftIs
  <2> QED BY <2>1, <2>3, LeftCounts DEF LeftsBounded
<1>3. IInv /\ LeftsBounded /\ [CrawlDwindles]_vars /\ LeftsTyped' => LeftsBounded'
  <2> SUFFICES ASSUME IInv, LeftsBounded, [CrawlDwindles]_vars, LeftsTyped'
               PROVE  LeftsBounded'
    OBVIOUS
  <2>1. PICK c, k \in Nat :
          /\ c = Cardinality(URLs) /\ k = MainLeft /\ k \in 0 .. 4 * c + 2
    <3>1. Cardinality(URLs) \in Nat
      BY LeftCounts
    <3> QED BY <3>1 DEF LeftsBounded
  <2>2. PICK l \in Nat : l = MainLeft'
    BY DEF LeftsTyped
  <2>3. l <= k
    <3>1. CASE CrawlDwindles
      BY <2>1, <2>2, <3>1 DEF CrawlDwindles
    <3>2. CASE UNCHANGED vars
      BY <2>1, <2>2, <3>2 DEF vars, main, MainLeft, PhaseLeft
    <3> QED BY <3>1, <3>2
  <2>4. l \in 0 .. 4 * c + 2
    <3>1. k \in 0 .. 4 * c + 2
      BY <2>1
    <3> QED BY <2>3, <3>1
  <2> QED BY <2>1, <2>2, <2>4 DEF LeftsBounded, LeftsTyped
<1>4. IInv => LeftsTyped
  <2> SUFFICES ASSUME IInv PROVE LeftsTyped
    OBVIOUS
  <2>1. MainLeft \in Nat
    BY LeftIs
  <2> QED BY <2>1, LeftCounts DEF LeftsTyped
<1> QED BY <1>1, <1>2, <1>3, <1>4, AlwaysSupplied, PTL DEF Spec
=============================================================================
