------------------------- MODULE ConsolePages_proofs -------------------------
(***************************************************************************)
(* ConsolePages for any number of flows under way and any number of keys,  *)
(* credentials and fetch events.                                           *)
(***************************************************************************)
EXTENDS ConsolePages, FiniteSetTheorems, TLAPS

TableTyped ==
  /\ table \in [Tables -> RowSet] /\ made \in 0..MaxMade
  /\ \A t \in Tables : DOMAIN table[t] \subseteq 1..made

ViewTyped ==
  /\ page \in Pages /\ rows \in RowSet /\ DOMAIN rows \subseteq 1..made
  /\ loading \in BOOLEAN /\ error \in BOOLEAN /\ open \in BOOLEAN
  /\ busy \in BOOLEAN /\ byokOn \in BOOLEAN /\ secret \in 0..made
  /\ open => page \in Editable

HistTyped ==
  /\ overlapped \in BOOLEAN /\ hidden \subseteq 1..made
  /\ known \subseteq 1..made /\ covered \subseteq 1..made

\* Nobody has to be told of the key x any more, or it is on screen.
Told(x) == x \in known \cup covered \cup {secret, NoKey}

\* What a flow knows of the server was there; a creation that was answered and
\* is still listed has shown its key, one that was lost will not.
FlowOK(f) ==
  /\ f.x \in 0..made /\ DOMAIN f.prev \subseteq 1..made /\ DOMAIN f.got \subseteq 1..made
  /\ f.parts # {} => f.kind = "load"
  /\ f.kind = "create" =>
       /\ f.step = "act" /\ f.stage = "sent" => f.x = NoKey
       /\ f.step = "act" /\ f.stage = "failed" => f.x \in known \cup {NoKey}
       /\ f.step = "list" /\ f.on = "api-keys" => Told(f.x)
       /\ ~f.left => f.on = page

FlowsFit == flow \in [Slots -> Flow] /\ \A s \in Slots : FlowOK(flow[s])

Creates(f) == f.kind = "create" /\ f.x = NoKey
Budget == made + Cardinality(Creating) <= MaxMade

Lists(f) == f.kind # "idle" /\ ~f.left /\ f.step = "list"
Saves(f) == f.kind = "create" /\ ~f.left

\* SpinnerIsAWait, flow by flow.
Spins ==
  /\ loading => \E s \in Slots : Lists(flow[s])
  /\ page = "providers" =>
       /\ busy <=> \E s \in Slots : Saves(flow[s])
       /\ \A s, t \in Slots : Saves(flow[s]) /\ Saves(flow[t]) => s = t

\* The creation f of the key k is to be answered, or its answer handled.
Brings(f, k) == f.kind = "create" /\ f.on = "api-keys" /\ f.x = k

SecretKept ==
  \A k \in DOMAIN table["api-keys"] : Told(k) \/ \E s \in Slots : Brings(flow[s], k)

IInv == TableTyped /\ ViewTyped /\ HistTyped /\ FlowsFit /\ Budget /\ Spins /\ SecretKept

-----------------------------------------------------------------------------
\* Rows.

\* A table maps some ids to statuses.
LEMMA RowSetIs == \A t : t \in RowSet <=> \E S \in SUBSET Ids : t \in [S -> Statuses]
BY DEF RowSet

\* The empty table.
LEMMA EmptyRows == Empty \in RowSet /\ DOMAIN Empty = {}
<1>1. Empty \in [{} -> Statuses] /\ DOMAIN Empty = {}
  BY DEF Empty, Statuses
<1> QED BY <1>1, RowSetIs

\* Writing a row adds its id, and no other.
LEMMA WithRows ==
  ASSUME NEW t \in RowSet, NEW x \in Ids, NEW st \in Statuses
  PROVE  With(t, x, st) \in RowSet /\ DOMAIN With(t, x, st) = DOMAIN t \cup {x}
<1>1. PICK S \in SUBSET Ids : t \in [S -> Statuses]
  BY RowSetIs
<1>2. With(t, x, st) \in [S \cup {x} -> Statuses]
  BY <1>1 DEF With
<1> QED BY <1>1, <1>2, RowSetIs

\* Deleting a row takes its id away, and no other.
LEMMA WithoutRows ==
  ASSUME NEW t \in RowSet, NEW x
  PROVE  Without(t, x) \in RowSet /\ DOMAIN Without(t, x) = DOMAIN t \ {x}
<1>1. PICK S \in SUBSET Ids : t \in [S -> Statuses]
  BY RowSetIs
<1>2. Without(t, x) \in [S \ {x} -> Statuses]
  BY <1>1 DEF Without
<1> QED BY <1>1, <1>2, RowSetIs

\* The names of the pages and of their tables.
LEMMA Names ==
  /\ {"api-keys", "providers", "savings", "capabilities"} = Tables
  /\ Editable = {"api-keys", "providers"} /\ Editable \subseteq Pages
  /\ \A p \in Pages : Of(p) \in Tables
  /\ \A p \in {"api-keys", "providers", "savings"} : Of(p) = p /\ p \in Pages
BY DEF Tables, Editable, Pages, Of

-----------------------------------------------------------------------------
\* Flows.

OnlyMoved(s) == \A t \in Slots \ {s} : flow'[t] = flow[t]

\* A free slot is a flow that waits for nothing.
LEMMA IdleIsFlow ==
  /\ Idle \in Flow /\ Idle.kind = "idle" /\ Idle.x = NoKey /\ Idle.prev = Empty
  /\ Idle.got = Empty /\ Idle.parts = {} /\ ~Idle.left /\ Idle.on \in Tables
  /\ Idle.step = "list" /\ Idle.stage = "sent"
BY EmptyRows, Names DEF Idle, Flow

\* The flow a page is mounted with.
LEMMA LoadIsFlow ==
  ASSUME NEW p \in Pages
  PROVE  /\ Load(p) \in Flow /\ Load(p).kind = "load" /\ Load(p).x = NoKey
         /\ Load(p).prev = Empty /\ Load(p).got = Empty /\ ~Load(p).left
         /\ Load(p).step = "list" /\ Load(p).stage = "sent" /\ Load(p).on = Of(p)
BY EmptyRows, Names DEF Load, Idle, Flow, Parts

\* A change that was answered goes on to fetch the list.
LEMMA ThenListIsFlow ==
  ASSUME NEW s \in Slots, NEW f \in Flow, ThenList(s, f)
  PROVE  \E g \in Flow :
           /\ Starts(s, g) /\ g.kind = f.kind /\ g.on = f.on /\ g.x = f.x
           /\ g.prev = f.prev /\ g.got = f.got /\ g.left = f.left
           /\ g.step = "list" /\ g.stage = "sent" /\ g.parts = f.parts
<1> DEFINE g == [f EXCEPT !.step = "list", !.stage = "sent"]
<1>1. /\ g \in Flow /\ g.kind = f.kind /\ g.on = f.on /\ g.x = f.x
      /\ g.prev = f.prev /\ g.got = f.got /\ g.left = f.left
      /\ g.step = "list" /\ g.stage = "sent" /\ g.parts = f.parts
  BY DEF Flow
<1>2. Starts(s, g)
  BY DEF ThenList
<1> HIDE DEF g
<1> QED BY <1>1, <1>2

\* A flow that begins remembers nothing that was not made.
LEMMA NewFlow ==
  ASSUME made' \in Nat, NEW f, f.x \in 0..made', f.prev = Empty, f.got = Empty,
         f.parts = {} \/ f.kind = "load",
         f.kind = "create" => f.step = "act" /\ f.x = NoKey /\ f.on = page'
  PROVE  FlowOK(f)'
BY EmptyRows DEF FlowOK

\* A free slot remembers nothing.
LEMMA IdleFits ==
  ASSUME made' \in Nat
  PROVE  FlowOK(Idle)'
BY IdleIsFlow, NewFlow DEF NoKey

\* Keys are added to the histories, and what was on screen is not forgotten.
Remembers ==
  /\ known \subseteq known' /\ covered \subseteq covered'
  /\ secret \in known' \cup covered' \cup {secret', NoKey}

\* What the server once said of a row stays said.
LEMMA ToldStays ==
  ASSUME Remembers, NEW x, Told(x)
  PROVE  Told(x)'
BY DEF Remembers, Told

\* What a flow remembers stays true while rows are made.
LEMMA FlowStays ==
  ASSUME TableTyped, Remembers, made' \in Nat, made <= made', page' = page,
         NEW f, FlowOK(f)
  PROVE  FlowOK(f)'
<1>1. made \in Nat
  BY DEF TableTyped
<1>2. 1..made \subseteq 1..made' /\ 0..made \subseteq 0..made'
  BY <1>1
<1>3. Told(f.x) => Told(f.x)'
  BY DEF Told, Remembers
<1>4. known \cup {NoKey} \subseteq known' \cup {NoKey}
  BY DEF Remembers
<1>5. /\ f.parts # {} => f.kind = "load"
      /\ f.x \in 0..made' /\ DOMAIN f.prev \subseteq 1..made'
      /\ DOMAIN f.got \subseteq 1..made'
  BY <1>2 DEF FlowOK
<1> QED BY <1>3, <1>4, <1>5 DEF FlowOK

\* Adding an element to a finite set adds one at most.
LEMMA AddOne ==
  ASSUME NEW S, IsFiniteSet(S), NEW x
  PROVE  IsFiniteSet(S \cup {x}) /\ Cardinality(S \cup {x}) <= Cardinality(S) + 1
<1>1. Cardinality(S) \in Nat
  BY FS_CardinalityType
<1>2. CASE x \in S
  BY <1>1, <1>2, FS_AddElement
<1>3. CASE x \notin S
  BY <1>1, <1>3, FS_AddElement
<1> QED BY <1>2, <1>3

\* A flow s becomes f: it starts no creation the server has no room for, and
\* gives up no key that nobody was told of.
LEMMA FlowMoves ==
  ASSUME IInv, NEW s \in Slots, NEW f \in Flow, Starts(s, f), FlowOK(f)',
         made' = made, page' = page, Remembers,
         Creates(f) => Creates(flow[s]) \/ made + Cardinality(Creating) < MaxMade,
         DOMAIN table'["api-keys"] \subseteq DOMAIN table["api-keys"],
         \A k : Brings(flow[s], k) => Brings(f, k) \/ Told(k)'
  PROVE  /\ OnlyMoved(s) /\ flow'[s] = f
         /\ FlowsFit' /\ Budget' /\ SecretKept'
<1>p. TableTyped /\ FlowsFit /\ Budget /\ SecretKept
  BY DEF IInv
<1>1. flow' \in [Slots -> Flow] /\ OnlyMoved(s) /\ flow'[s] = f
  BY <1>p DEF Starts, OnlyMoved, FlowsFit
<1>2. FlowsFit'
  <2> SUFFICES ASSUME NEW t \in Slots PROVE FlowOK(flow[t])'
    BY <1>1 DEF FlowsFit
  <2>1. PICK g \in Flow : g = flow'[t]
    BY <1>1
  <2>2. FlowOK(g)'
    <3>1. CASE t = s
      BY <1>1, <2>1, <3>1
    <3>2. CASE t # s
      <4>1. g = flow[t]
        BY <1>1, <2>1, <3>2 DEF OnlyMoved
      <4>2. FlowOK(g)
        BY <1>p, <4>1 DEF FlowsFit
      <4>3. made \in Nat /\ made' = made
        BY <1>p DEF TableTyped
      <4> QED BY <1>p, <4>2, <4>3, FlowStays
    <3> QED BY <3>1, <3>2
  <2> QED BY <2>1, <2>2
<1>3. Budget'
  <2>1. IsFiniteSet(Creating) /\ Cardinality(Creating) \in Nat
    BY ConsoleAssumption, FS_Subset, FS_CardinalityType DEF Creating
  <2>2. CASE Creates(f) => Creates(flow[s])
    <3>1. Creating' \subseteq Creating
      BY <1>1, <2>2 DEF Creating, Creates, OnlyMoved
    <3>2. Cardinality(Creating') <= Cardinality(Creating) /\ Cardinality(Creating') \in Nat
      BY <2>1, <3>1, FS_Subset, FS_CardinalityType
    <3> QED BY <1>p, <2>1, <3>2, ConsoleAssumption DEF Budget, TableTyped
  <2>3. CASE made + Cardinality(Creating) < MaxMade
    <3>1. Creating' \subseteq Creating \cup {s}
      BY <1>1 DEF Creating, OnlyMoved
    <3>2. /\ IsFiniteSet(Creating \cup {s})
          /\ Cardinality(Creating \cup {s}) <= Cardinality(Creating) + 1
      BY <2>1, AddOne
    <3>3. /\ Cardinality(Creating') <= Cardinality(Creating \cup {s})
          /\ Cardinality(Creating') \in Nat /\ Cardinality(Creating \cup {s}) \in Nat
      BY <3>1, <3>2, FS_Subset, FS_CardinalityType
    <3> QED BY <1>p, <2>1, <2>3, <3>2, <3>3, ConsoleAssumption DEF Budget, TableTyped
  <2> QED BY <2>2, <2>3
<1>4. SecretKept'
  <2> SUFFICES ASSUME NEW k \in DOMAIN table["api-keys"]
               PROVE  Told(k)' \/ \E t \in Slots : Brings(flow'[t], k)
    BY DEF SecretKept, Brings
  <2>1. CASE Told(k)
    BY <2>1, ToldStays
  <2>2. CASE \E t \in Slots : Brings(flow[t], k)
    <3>1. PICK t \in Slots : Brings(flow[t], k)
      BY <2>2
    <3>2. CASE t = s
      BY <1>1, <3>1, <3>2
    <3>3. CASE t # s
      BY <1>1, <3>1, <3>3 DEF OnlyMoved
    <3> QED BY <3>2, <3>3
  <2> QED BY <1>p, <2>1, <2>2 DEF SecretKept
<1> QED BY <1>1, <1>2, <1>3, <1>4

\* The spinners keep their answers when one flow moves as they do.
LEMMA SpinsOn ==
  ASSUME IInv, NEW s \in Slots, OnlyMoved(s),
         Lists(flow[s]) => Lists(flow'[s]), Saves(flow[s]) <=> Saves(flow'[s]),
         loading' => loading \/ Lists(flow'[s]), busy' = busy, page' = page
  PROVE  Spins'
<1>1. Spins
  BY DEF IInv
<1>2. \A t \in Slots : /\ Lists(flow[t]) => Lists(flow'[t])
                       /\ Saves(flow[t]) <=> Saves(flow'[t])
  BY DEF OnlyMoved
<1>3. /\ loading' => \E t \in Slots : Lists(flow'[t])
      /\ page' = "providers" =>
           /\ busy' <=> \E t \in Slots : Saves(flow'[t])
           /\ \A t, u \in Slots : Saves(flow'[t]) /\ Saves(flow'[u]) => t = u
  BY <1>1, <1>2 DEF Spins
<1> QED BY <1>3 DEF Spins, Lists, Saves

\* A step that moves no flow.
LEMMA FlowsStay ==
  ASSUME IInv, flow' = flow, made' \in Nat, made <= made', page' = page, Remembers,
         made' + Cardinality(Creating) <= MaxMade,
         table'["api-keys"] = table["api-keys"], loading' = loading, busy' = busy
  PROVE  FlowsFit' /\ Budget' /\ SecretKept' /\ Spins'
<1>p. TableTyped /\ FlowsFit /\ Spins /\ SecretKept
  BY DEF IInv
<1>1. FlowsFit'
  <2> SUFFICES ASSUME NEW t \in Slots PROVE FlowOK(flow[t])'
    BY <1>p DEF FlowsFit
  <2>1. PICK g \in Flow : g = flow[t]
    BY <1>p DEF FlowsFit
  <2>2. FlowOK(g)
    BY <1>p, <2>1 DEF FlowsFit
  <2>3. FlowOK(g)'
    BY <1>p, <2>2, FlowStays
  <2> QED BY <2>1, <2>3
<1>2. Budget'
  BY DEF Budget, Creating
<1>3. SecretKept'
  BY <1>p, ToldStays DEF SecretKept, Brings
<1>4. Spins'
  BY <1>p DEF Spins, Lists, Saves
<1> QED BY <1>1, <1>2, <1>3, <1>4

\* The bounds, as numbers.
LEMMA MadeIsNat ==
  ASSUME IInv
  PROVE  made \in Nat /\ secret \in 0..made /\ MaxMade \in Nat
         /\ Cardinality(Creating) \in Nat /\ made + Cardinality(Creating) <= MaxMade
<1>1. Cardinality(Creating) \in Nat
  BY ConsoleAssumption, FS_Subset, FS_CardinalityType DEF Creating
<1> QED BY <1>1, ConsoleAssumption DEF IInv, TableTyped, ViewTyped, Budget

-----------------------------------------------------------------------------
\* The visitor.

\* Opening and closing the dialog.
LEMMA DialogSteps ==
  ASSUME IInv, OpenDialog \/ CloseDialog \/ UNCHANGED vars
  PROVE  IInv'
<1>1. /\ UNCHANGED <<table, made, page, rows, loading, error, busy, byokOn, secret,
                     flow, overlapped, hidden, known, covered>>
      /\ open' \in BOOLEAN /\ (open' => page \in Editable)
  <2>1. CASE OpenDialog
    BY <2>1 DEF OpenDialog
  <2>2. CASE CloseDialog
    BY <2>2 DEF CloseDialog
  <2>3. CASE UNCHANGED vars
    BY <2>3 DEF vars, view, IInv, ViewTyped
  <2> QED BY <2>1, <2>2, <2>3
<1>2. Remembers
  BY <1>1 DEF Remembers
<1>3. FlowsFit' /\ Budget' /\ SecretKept' /\ Spins'
  BY <1>1, <1>2, MadeIsNat, FlowsStay
<1>4. TableTyped' /\ ViewTyped' /\ HistTyped'
  BY <1>1 DEF IInv, TableTyped, ViewTyped, HistTyped
<1> QED BY <1>3, <1>4 DEF IInv

\* The visitor dismisses the new secret.
LEMMA DismissStep ==
  ASSUME IInv, Dismiss
  PROVE  IInv'
<1>1. /\ UNCHANGED <<table, made, page, rows, loading, error, open, busy, byokOn,
                     flow, overlapped, hidden, covered>>
      /\ secret # NoKey /\ secret' = NoKey /\ known' = known \cup {secret}
  BY DEF Dismiss
<1>2. Remembers
  BY <1>1 DEF Remembers
<1>3. FlowsFit' /\ Budget' /\ SecretKept' /\ Spins'
  BY <1>1, <1>2, MadeIsNat, FlowsStay
<1>4. secret \in 1..made /\ NoKey \in 0..made
  BY <1>1, MadeIsNat DEF NoKey
<1>5. TableTyped' /\ ViewTyped' /\ HistTyped'
  BY <1>1, <1>4 DEF IInv, TableTyped, ViewTyped, HistTyped
<1> QED BY <1>3, <1>5 DEF IInv

\* A fetch is recorded among the savings.
LEMMA FetchStep ==
  ASSUME IInv, FetchRecorded
  PROVE  IInv'
<1>p. TableTyped /\ ViewTyped /\ HistTyped
  BY DEF IInv
<1>1. /\ made + Cardinality(Creating) < MaxMade /\ made' = made + 1
      /\ overlapped' = (overlapped \/ page = "savings")
      /\ UNCHANGED <<page, rows, loading, error, open, busy, byokOn, secret,
                     flow, hidden, known, covered>>
  BY DEF FetchRecorded, view
<1>2. PICK u \in RowSet : u = table["savings"] /\ DOMAIN u \subseteq 1..made
  BY <1>p, Names DEF TableTyped
<1>3. PICK w \in RowSet : w = With(u, made + 1, "active") /\ DOMAIN w = DOMAIN u \cup {made + 1}
  <2>1. made + 1 \in Ids /\ "active" \in Statuses
    BY <1>1, MadeIsNat DEF Ids, Statuses
  <2> QED BY <2>1, WithRows
<1>4. table' = [table EXCEPT !["savings"] = w]
  BY <1>2, <1>3 DEF FetchRecorded
<1>5. 1..made \subseteq 1..made' /\ made' \in 0..MaxMade /\ 0..made \subseteq 0..made'
      /\ DOMAIN w \subseteq 1..made'
  BY <1>1, <1>2, <1>3, MadeIsNat
<1>6. TableTyped'
  BY <1>p, <1>4, <1>5, Names DEF TableTyped
<1>7. ViewTyped' /\ HistTyped'
  BY <1>p, <1>1, <1>5 DEF ViewTyped, HistTyped
<1>8. Remembers
  BY <1>1 DEF Remembers
<1>9. table'["api-keys"] = table["api-keys"]
  BY <1>p, <1>4, Names DEF TableTyped
<1>10. made' \in Nat /\ made <= made' /\ made' + Cardinality(Creating) <= MaxMade
  BY <1>1, MadeIsNat
<1>11. FlowsFit' /\ Budget' /\ SecretKept' /\ Spins'
  BY <1>1, <1>8, <1>9, <1>10, FlowsStay
<1> QED BY <1>6, <1>7, <1>11 DEF IInv

\* The visitor goes to a page.
LEMMA MountStep ==
  ASSUME IInv, NEW s \in Slots, NEW p \in Pages, Mount(s, p)
  PROVE  IInv'
<1>p. TableTyped /\ ViewTyped /\ HistTyped /\ FlowsFit /\ Budget /\ SecretKept
  BY DEF IInv
<1>0. /\ Free(s) /\ page' = p /\ rows' = Empty /\ loading' = TRUE /\ error' = FALSE
      /\ open' = FALSE /\ busy' = FALSE /\ byokOn' = FALSE /\ secret' = NoKey
      /\ known' = known \cup ({secret} \ {NoKey})
           \cup {flow[t].x : t \in {u \in Slots : flow[u].kind = "create" /\ flow[u].x # NoKey}}
      /\ hidden' = {} /\ overlapped' \in BOOLEAN
      /\ UNCHANGED <<table, made, covered>>
  BY DEF Mount
<1>q. PICK q : q = Load(p)
  OBVIOUS
<1>1. /\ q \in Flow /\ q.kind = "load" /\ q.x = NoKey /\ q.prev = Empty
      /\ q.got = Empty /\ ~q.left /\ q.step = "list"
  BY <1>q, LoadIsFlow
<1>2. /\ flow' = [t \in Slots |-> flow'[t]] /\ flow'[s] = q
      /\ \A t \in Slots \ {s} :
           flow'[t] = IF flow[t].step = "act" /\ flow[t].stage = "sent"
                        THEN [flow[t] EXCEPT !.left = TRUE] ELSE Idle
  BY <1>q DEF Mount
<1>3. ASSUME NEW t \in Slots \ {s}
      PROVE  /\ flow'[t] \in Flow
             /\ \/ flow'[t] = Idle
                \/ /\ flow'[t].left /\ flow'[t].step = "act" /\ flow'[t].stage = "sent"
                   /\ flow'[t].kind = flow[t].kind /\ flow'[t].x = flow[t].x
                   /\ flow'[t].prev = flow[t].prev /\ flow'[t].got = flow[t].got
                   /\ flow'[t].on = flow[t].on /\ flow'[t].parts = flow[t].parts
                   /\ flow[t].step = "act" /\ flow[t].stage = "sent"
  <2> DEFINE g == [flow[t] EXCEPT !.left = TRUE]
  <2>1. flow[t] \in Flow
    BY <1>p DEF FlowsFit
  <2>2. /\ g \in Flow /\ g.left /\ g.kind = flow[t].kind /\ g.x = flow[t].x
        /\ g.prev = flow[t].prev /\ g.got = flow[t].got /\ g.on = flow[t].on
        /\ g.step = flow[t].step /\ g.stage = flow[t].stage /\ g.parts = flow[t].parts
    BY <2>1 DEF Flow
  <2>3. flow'[t] = IF flow[t].step = "act" /\ flow[t].stage = "sent" THEN g ELSE Idle
    BY <1>2
  <2> HIDE DEF g
  <2> QED BY <2>2, <2>3, IdleIsFlow
<1>4. flow' \in [Slots -> Flow]
  BY <1>1, <1>2, <1>3
<1>5. made' \in Nat /\ made' = made
  BY <1>0, MadeIsNat
<1>6. FlowsFit'
  <2> SUFFICES ASSUME NEW t \in Slots PROVE FlowOK(flow[t])'
    BY <1>4 DEF FlowsFit
  <2>1. CASE t = s
    <3>1. FlowOK(q)'
      BY <1>1, <1>5, NewFlow DEF NoKey
    <3> QED BY <1>2, <2>1, <3>1
  <2>2. CASE t # s /\ flow'[t] = Idle
    BY <1>5, <2>2, IdleFits
  <2>3. CASE t # s /\ flow'[t] # Idle
    <3>1. FlowOK(flow[t])
      BY <1>p DEF FlowsFit
    <3> QED BY <1>0, <1>3, <2>3, <3>1 DEF FlowOK
  <2> QED BY <2>1, <2>2, <2>3
<1>7. Budget'
  <2>1. Creating' \subseteq Creating
    BY <1>1, <1>2, <1>3, IdleIsFlow DEF Creating
  <2>2. IsFiniteSet(Creating)
    BY ConsoleAssumption, FS_Subset DEF Creating
  <2>3. Cardinality(Creating') <= Cardinality(Creating) /\ Cardinality(Creating') \in Nat
    BY <2>1, <2>2, FS_Subset, FS_CardinalityType
  <2> QED BY <1>5, <2>3, MadeIsNat DEF Budget
<1>8. HistTyped'
  <2>1. known' \subseteq 1..made
    <3>1. \A t \in Slots : flow[t].x \in 0..made
      BY <1>p DEF FlowsFit, FlowOK
    <3>2. \A t \in Slots : flow[t].x # NoKey => flow[t].x \in 1..made
      BY <3>1, MadeIsNat DEF NoKey
    <3>3. {secret} \ {NoKey} \subseteq 1..made
      BY MadeIsNat DEF NoKey
    <3>4. known \subseteq 1..made
      BY <1>p DEF HistTyped
    <3> SUFFICES ASSUME NEW k \in known' PROVE k \in 1..made
      OBVIOUS
    <3>5. \/ k \in known \/ k \in {secret} \ {NoKey}
          \/ \E t \in Slots : flow[t].x # NoKey /\ k = flow[t].x
      BY <1>0
    <3> QED BY <3>2, <3>3, <3>4, <3>5
  <2> QED BY <1>p, <1>0, <2>1 DEF HistTyped
<1>9. TableTyped' /\ ViewTyped'
  <2>1. TableTyped'
    BY <1>p, <1>0, <1>5 DEF TableTyped
  <2>2. rows' \in RowSet /\ DOMAIN rows' \subseteq 1..made' /\ secret' \in 0..made'
    BY <1>0, <1>5, EmptyRows DEF NoKey
  <2> QED BY <1>0, <2>1, <2>2 DEF ViewTyped
<1>10. Spins'
  <2>1. Lists(flow'[s])
    BY <1>1, <1>2 DEF Lists
  <2>2. \A t \in Slots : ~Saves(flow'[t])
    BY <1>1, <1>2, <1>3, IdleIsFlow DEF Saves
  <2> QED BY <1>0, <2>1, <2>2 DEF Spins, Lists, Saves
<1>11. SecretKept'
  <2> SUFFICES ASSUME NEW k \in DOMAIN table["api-keys"] PROVE Told(k)'
    BY <1>0 DEF SecretKept
  <2>1. k \in 1..made
    BY <1>p, Names DEF TableTyped
  <2>2. CASE Told(k)
    BY <1>0, <2>1, <2>2, MadeIsNat DEF Told, NoKey
  <2>3. CASE \E t \in Slots : Brings(flow[t], k)
    BY <1>0, <2>1, <2>3, MadeIsNat DEF Told, Brings, NoKey
  <2> QED BY <1>p, <2>2, <2>3 DEF SecretKept
<1> QED BY <1>6, <1>7, <1>8, <1>9, <1>10, <1>11 DEF IInv

\* The visitor creates a row.
LEMMA CreateStep ==
  ASSUME IInv, NEW s \in Slots, Create(s)
  PROVE  IInv'
<1>p. TableTyped /\ ViewTyped /\ HistTyped /\ FlowsFit /\ Spins
  BY DEF IInv
<1>0. /\ open /\ Free(s) /\ ~busy /\ made + Cardinality(Creating) < MaxMade
      /\ busy' = (page = "providers") /\ overlapped' = (overlapped \/ On(page) # {})
      /\ UNCHANGED <<table, made, page, rows, loading, error, open, byokOn, secret,
                     hidden, known, covered>>
  BY DEF Create
<1>n. page \in Editable /\ page \in Tables
  BY <1>p, <1>0, Names DEF ViewTyped
<1>1. PICK q : q = [Idle EXCEPT !.kind = "create", !.step = "act", !.on = page]
  OBVIOUS
<1>2. /\ q \in Flow /\ q.kind = "create" /\ q.step = "act" /\ q.on = page /\ q.x = NoKey
      /\ q.prev = Empty /\ q.got = Empty /\ ~q.left /\ q.stage = "sent" /\ q.parts = {}
  BY <1>1, <1>n, IdleIsFlow DEF Flow
<1>3. Starts(s, q) /\ flow[s].kind = "idle"
  BY <1>1 DEF Create, Free
<1>4. Remembers
  BY <1>0 DEF Remembers
<1>5. FlowOK(q)'
  BY <1>0, <1>2, MadeIsNat, NewFlow DEF NoKey
<1>6. OnlyMoved(s) /\ flow'[s] = q /\ FlowsFit' /\ Budget' /\ SecretKept'
  BY <1>0, <1>2, <1>3, <1>4, <1>5, FlowMoves DEF Brings
<1>7. Spins'
  <2>1. \A t \in Slots \ {s} : flow'[t] = flow[t]
    BY <1>6 DEF OnlyMoved
  <2>2. loading => \E t \in Slots : Lists(flow'[t])
    BY <1>p, <1>3, <2>1 DEF Spins, Lists
  <2>3. Saves(flow'[s])
    BY <1>2, <1>6 DEF Saves
  <2>4. page = "providers" => \A t \in Slots \ {s} : ~Saves(flow'[t])
    BY <1>p, <1>0, <2>1 DEF Spins
  <2> QED BY <1>0, <2>2, <2>3, <2>4 DEF Spins, Lists, Saves
<1>8. TableTyped' /\ ViewTyped' /\ HistTyped'
  BY <1>p, <1>0 DEF TableTyped, ViewTyped, HistTyped
<1> QED BY <1>6, <1>7, <1>8 DEF IInv

\* A deletion, a verification or a load is started: the flow f waits in s.
LEMMA StartStep ==
  ASSUME IInv, NEW s \in Slots, flow[s].kind = "idle",
         NEW f \in Flow, Starts(s, f), f.kind \in {"delete", "verify", "load"},
         FlowOK(f)', loading' => loading \/ Lists(f),
         ViewTyped', HistTyped',
         UNCHANGED <<table, made, page, busy, secret, known, covered>>
  PROVE  IInv'
<1>1. Remembers
  BY DEF Remembers
<1>2. OnlyMoved(s) /\ flow'[s] = f /\ FlowsFit' /\ Budget' /\ SecretKept'
  BY <1>1, FlowMoves DEF Brings, Creates
<1>3. Spins'
  BY <1>2, SpinsOn DEF Lists, Saves
<1>4. TableTyped'
  BY DEF IInv, TableTyped
<1> QED BY <1>2, <1>3, <1>4 DEF IInv

\* The visitor deletes a row.
LEMMA DeleteStep ==
  ASSUME IInv, NEW s \in Slots, NEW x \in Ids, Delete(s, x)
  PROVE  IInv'
<1>p. ViewTyped /\ HistTyped
  BY DEF IInv
<1>0. /\ page \in Editable /\ x \in DOMAIN rows /\ flow[s].kind = "idle"
      /\ rows' = (IF page = "api-keys" THEN Without(rows, x) ELSE rows)
      /\ hidden' = (IF page = "api-keys" THEN hidden \cup {x} ELSE hidden)
      /\ overlapped' = (overlapped \/ On(page) # {})
      /\ UNCHANGED <<table, made, page, loading, error, open, busy, byokOn, secret,
                     known, covered>>
  BY DEF Delete, Offers, AtOnce, Free
<1>1. PICK v \in RowSet : /\ v = IF page = "api-keys" THEN rows ELSE Empty
                          /\ DOMAIN v \subseteq 1..made
  BY <1>p, EmptyRows DEF ViewTyped
<1>2. PICK q : q = [Idle EXCEPT !.kind = "delete", !.step = "act", !.on = page,
                                !.x = x, !.prev = v]
  OBVIOUS
<1>3. page \in Tables /\ x \in 1..made
  BY <1>p, <1>0, Names DEF ViewTyped
<1>4. /\ q \in Flow /\ q.kind = "delete" /\ q.step = "act" /\ q.x = x
      /\ q.prev = v /\ q.got = Empty /\ ~q.left /\ q.parts = {}
  BY <1>2, <1>3, IdleIsFlow DEF Flow
<1>5. Starts(s, q)
  BY <1>1, <1>2 DEF Delete
<1>6. FlowOK(q)'
  BY <1>0, <1>1, <1>3, <1>4, MadeIsNat, EmptyRows DEF FlowOK
<1>7. rows' \in RowSet /\ DOMAIN rows' \subseteq 1..made
  BY <1>p, <1>0, WithoutRows DEF ViewTyped
<1>8. ViewTyped'
  BY <1>p, <1>0, <1>7 DEF ViewTyped
<1>9. HistTyped'
  BY <1>p, <1>0, <1>3 DEF HistTyped
<1> QED BY <1>0, <1>4, <1>5, <1>6, <1>8, <1>9, StartStep

\* The visitor has a provider's credential verified.
LEMMA VerifyStep ==
  ASSUME IInv, NEW s \in Slots, NEW x \in Ids, Verify(s, x)
  PROVE  IInv'
<1>p. ViewTyped /\ HistTyped
  BY DEF IInv
<1>0. /\ page \in Editable /\ x \in DOMAIN rows /\ flow[s].kind = "idle"
      /\ overlapped' = (overlapped \/ On(page) # {})
      /\ UNCHANGED <<table, made, page, rows, loading, error, open, busy, byokOn,
                     secret, hidden, known, covered>>
  BY DEF Verify, Offers, Free, view
<1>2. PICK q : q = [Idle EXCEPT !.kind = "verify", !.step = "act", !.on = page, !.x = x]
  OBVIOUS
<1>3. page \in Tables /\ x \in 1..made
  BY <1>p, <1>0, Names DEF ViewTyped
<1>4. /\ q \in Flow /\ q.kind = "verify" /\ q.step = "act" /\ q.x = x
      /\ q.prev = Empty /\ q.got = Empty /\ ~q.left /\ q.parts = {}
  BY <1>2, <1>3, IdleIsFlow DEF Flow
<1>5. Starts(s, q)
  BY <1>2 DEF Verify
<1>6. FlowOK(q)'
  BY <1>0, <1>3, <1>4, MadeIsNat, EmptyRows DEF FlowOK
<1>7. ViewTyped' /\ HistTyped'
  BY <1>p, <1>0 DEF ViewTyped, HistTyped
<1> QED BY <1>0, <1>4, <1>5, <1>6, <1>7, StartStep

\* The visitor refreshes the page.
LEMMA RefreshStep ==
  ASSUME IInv, NEW s \in Slots, Refresh(s)
  PROVE  IInv'
<1>p. ViewTyped /\ HistTyped
  BY DEF IInv
<1>0. /\ flow[s].kind = "idle" /\ loading' = TRUE
      /\ overlapped' = (On(page) # {})
      /\ UNCHANGED <<table, made, page, rows, error, open, busy, byokOn, secret,
                     hidden, known, covered>>
  BY DEF Refresh, Free, ThenList
<1>1. PICK p \in Pages : p = page
  BY <1>p DEF ViewTyped
<1>2. PICK b \in Flow : /\ b = Load(p) /\ b.kind = "load" /\ b.x = NoKey
                        /\ b.prev = Empty /\ b.got = Empty /\ ~b.left
  BY LoadIsFlow
<1>3. ThenList(s, b)
  BY <1>1, <1>2 DEF Refresh
<1>4. PICK q \in Flow : /\ Starts(s, q) /\ q.kind = "load" /\ q.x = NoKey
                        /\ q.prev = Empty /\ q.got = Empty /\ ~q.left
                        /\ q.step = "list"
  BY <1>2, <1>3, ThenListIsFlow
<1>5. FlowOK(q)'
  BY <1>0, <1>4, MadeIsNat, NewFlow DEF NoKey
<1>6. ViewTyped' /\ HistTyped'
  BY <1>p, <1>0 DEF ViewTyped, HistTyped
<1>7. Lists(q)
  BY <1>4 DEF Lists
<1> QED BY <1>0, <1>4, <1>5, <1>6, <1>7, StartStep

-----------------------------------------------------------------------------
\* The server, and the network.

\* A server's answer leaves a flow at its step, unless its page was left.
LEMMA Answers ==
  ASSUME IInv, NEW s \in Slots, NEW st \in {"sent", "ok", "failed"},
         Answer(s, [flow[s] EXCEPT !.stage = st])
  PROVE  \E g \in Flow :
           /\ Starts(s, g)
           /\ \/ g = Idle /\ flow[s].left
              \/ /\ g.kind = flow[s].kind /\ g.step = flow[s].step /\ g.on = flow[s].on
                 /\ g.x = flow[s].x /\ g.prev = flow[s].prev /\ g.got = flow[s].got
                 /\ g.stage = st /\ g.parts = flow[s].parts /\ ~g.left /\ ~flow[s].left
<1>1. flow[s] \in Flow
  BY DEF IInv, FlowsFit
<1> DEFINE g == [flow[s] EXCEPT !.stage = st]
<1>2. /\ g \in Flow /\ g.kind = flow[s].kind /\ g.step = flow[s].step
      /\ g.on = flow[s].on /\ g.x = flow[s].x /\ g.prev = flow[s].prev
      /\ g.got = flow[s].got /\ g.stage = st /\ g.left = flow[s].left
      /\ g.parts = flow[s].parts
  BY <1>1 DEF Flow
<1>3. flow[s].left \in BOOLEAN
  BY <1>1 DEF Flow
<1>4. Starts(s, IF flow[s].left THEN Idle ELSE g)
  BY DEF Answer
<1> HIDE DEF g
<1>5. CASE flow[s].left
  BY <1>4, <1>5, IdleIsFlow
<1>6. CASE ~flow[s].left
  BY <1>2, <1>4, <1>6
<1> QED BY <1>5, <1>6

\* A request is answered; the server has made nothing.
LEMMA AnswerStep ==
  ASSUME IInv, NEW s \in Slots, NEW st \in {"sent", "ok", "failed"},
         Answer(s, [flow[s] EXCEPT !.stage = st]),
         flow[s].kind = "create" => st = "failed",
         known' = known \/ known' = known \cup ({flow[s].x} \ {NoKey}),
         flow[s].kind = "create" /\ flow[s].step = "act" =>
           known' = known \cup ({flow[s].x} \ {NoKey}),
         table' \in [Tables -> RowSet],
         \A t \in Tables : DOMAIN table'[t] \subseteq DOMAIN table[t],
         UNCHANGED <<made, page, view, overlapped, hidden, covered>>
  PROVE  IInv'
<1>p. TableTyped /\ ViewTyped /\ HistTyped /\ FlowsFit
  BY DEF IInv
<1>0. UNCHANGED <<rows, loading, error, open, busy, byokOn, secret>>
  BY DEF view
<1>1. PICK g \in Flow :
        /\ Starts(s, g)
        /\ \/ g = Idle /\ flow[s].left
           \/ /\ g.kind = flow[s].kind /\ g.step = flow[s].step /\ g.on = flow[s].on
              /\ g.x = flow[s].x /\ g.prev = flow[s].prev /\ g.got = flow[s].got
              /\ g.stage = st /\ g.parts = flow[s].parts /\ ~g.left /\ ~flow[s].left
  BY Answers
<1>2. Remembers
  BY <1>0 DEF Remembers
<1>3. FlowOK(flow[s]) /\ flow[s].x \in 0..made /\ flow[s] \in Flow
  BY <1>p DEF FlowsFit, FlowOK
<1>4. FlowOK(g)'
  <2>1. CASE g = Idle
    BY <2>1, MadeIsNat, IdleFits
  <2>2. CASE g # Idle
    <3>1. Told(g.x) => Told(g.x)'
      BY <1>2, ToldStays
    <3> QED BY <1>1, <1>3, <2>2, <3>1 DEF FlowOK
  <2> QED BY <2>1, <2>2
<1>5. \A k : Brings(flow[s], k) => Brings(g, k) \/ Told(k)'
  <2> SUFFICES ASSUME NEW k, Brings(flow[s], k), g = Idle, flow[s].left PROVE Told(k)'
    BY <1>1 DEF Brings
  <2>1. CASE flow[s].step = "act"
    BY <2>1, <1>0 DEF Brings, Told
  <2>2. CASE flow[s].step = "list"
    <3>1. Told(k)
      BY <1>3, <2>2 DEF FlowOK, Brings
    <3> QED BY <1>2, <3>1, ToldStays
  <2> QED BY <1>3, <2>1, <2>2 DEF Flow
<1>6. Creates(g) => Creates(flow[s])
  BY <1>1, IdleIsFlow DEF Creates
<1>7. DOMAIN table'["api-keys"] \subseteq DOMAIN table["api-keys"]
  BY Names
<1>8. OnlyMoved(s) /\ flow'[s] = g /\ FlowsFit' /\ Budget' /\ SecretKept'
  BY <1>1, <1>2, <1>4, <1>5, <1>6, <1>7, FlowMoves
<1>9. Spins'
  <2>1. Lists(flow[s]) => Lists(g)
    BY <1>1 DEF Lists
  <2>2. Saves(flow[s]) <=> Saves(g)
    BY <1>1, IdleIsFlow DEF Saves
  <2> QED BY <1>0, <1>8, <2>1, <2>2, SpinsOn
<1>10. TableTyped' /\ ViewTyped'
  BY <1>p, <1>0 DEF TableTyped, ViewTyped
<1>11. HistTyped'
  <2>1. {flow[s].x} \ {NoKey} \subseteq 1..made
    BY <1>3, MadeIsNat DEF NoKey
  <2> QED BY <1>p, <2>1 DEF HistTyped
<1> QED BY <1>8, <1>9, <1>10, <1>11 DEF IInv

\* A request or its answer is lost.
LEMMA LoseStep ==
  ASSUME IInv, NEW s \in Slots, Lose(s)
  PROVE  IInv'
<1>1. table' = table /\ TableTyped
  BY DEF Lose, IInv
<1>2. /\ table' \in [Tables -> RowSet]
      /\ \A t \in Tables : DOMAIN table'[t] \subseteq DOMAIN table[t]
  BY <1>1 DEF TableTyped
<1>3. /\ Answer(s, [flow[s] EXCEPT !.stage = "failed"])
      /\ UNCHANGED <<made, page, view, overlapped, hidden, covered>>
      /\ known' = IF flow[s].kind = "create" /\ flow[s].step = "act"
                    THEN known \cup ({flow[s].x} \ {NoKey}) ELSE known
  BY DEF Lose
<1> QED BY <1>2, <1>3, AnswerStep

\* The server reads a list.
LEMMA ServeListStep ==
  ASSUME IInv, NEW s \in Slots, ServeList(s)
  PROVE  IInv'
<1>p. TableTyped /\ ViewTyped /\ HistTyped /\ FlowsFit
  BY DEF IInv
<1>0. /\ flow[s].step = "list" /\ flow[s].kind # "idle"
      /\ UNCHANGED <<table, made, page, rows, loading, error, open, busy, byokOn,
                     secret, overlapped, hidden, known, covered>>
  BY DEF ServeList, Free, view
<1>1. flow[s] \in Flow /\ FlowOK(flow[s])
  BY <1>p DEF FlowsFit
<1>2. PICK w \in RowSet : w = table[flow[s].on] /\ DOMAIN w \subseteq 1..made
  BY <1>p, <1>1 DEF TableTyped, Flow
<1> DEFINE g == [flow[s] EXCEPT !.stage = "ok", !.got = w]
<1>3. /\ g \in Flow /\ g.kind = flow[s].kind /\ g.step = "list" /\ g.on = flow[s].on
      /\ g.x = flow[s].x /\ g.prev = flow[s].prev /\ g.got = w
      /\ g.left = flow[s].left /\ g.stage = "ok" /\ g.parts = flow[s].parts
  BY <1>0, <1>1 DEF Flow
<1>4. Starts(s, g)
  BY <1>2 DEF ServeList
<1> HIDE DEF g
<1>5. PICK f : f = g
  OBVIOUS
<1>6. Remembers
  BY <1>0 DEF Remembers
<1>7. FlowOK(f)'
  <2>1. Told(f.x) => Told(f.x)'
    BY <1>6, ToldStays
  <2> QED BY <1>0, <1>1, <1>2, <1>3, <1>5, <2>1 DEF FlowOK
<1>8. OnlyMoved(s) /\ flow'[s] = f /\ FlowsFit' /\ Budget' /\ SecretKept'
  BY <1>0, <1>3, <1>4, <1>5, <1>6, <1>7, FlowMoves DEF Brings, Creates
<1>9. Spins'
  BY <1>0, <1>3, <1>5, <1>8, SpinsOn DEF Lists, Saves
<1>10. TableTyped' /\ ViewTyped' /\ HistTyped'
  BY <1>p, <1>0 DEF TableTyped, ViewTyped, HistTyped
<1> QED BY <1>8, <1>9, <1>10 DEF IInv

\* The server creates a row.
LEMMA ServeCreateStep ==
  ASSUME IInv, NEW s \in Slots, ServeChange(s), flow[s].kind = "create"
  PROVE  IInv'
<1>p. TableTyped /\ ViewTyped /\ HistTyped /\ FlowsFit /\ Budget /\ SecretKept
  BY DEF IInv
<1>1. /\ flow[s] \in Flow /\ FlowOK(flow[s]) /\ flow[s].step = "act"
      /\ flow[s].stage = "sent" /\ flow[s].x = NoKey
  BY <1>p DEF ServeChange, FlowsFit, FlowOK
<1>2. PICK n \in Nat : n = made + 1
  BY MadeIsNat
<1>3. PICK o \in Tables, u \in RowSet :
        o = flow[s].on /\ u = table[o] /\ DOMAIN u \subseteq 1..made
  BY <1>p, <1>1 DEF TableTyped, Flow
<1> DEFINE g == [flow[s] EXCEPT !.stage = "ok", !.x = n]
<1>4. /\ made' = n
      /\ table' = [table EXCEPT ![o] = With(u, n, "active")]
      /\ known' = IF flow[s].left THEN known \cup {n} ELSE known
      /\ flow' = [flow EXCEPT ![s] = IF flow[s].left THEN Idle ELSE
                    [[flow[s] EXCEPT !.stage = "ok"] EXCEPT !.x = n]]
      /\ UNCHANGED <<page, rows, loading, error, open, busy, byokOn, secret,
                     overlapped, hidden, covered>>
  BY <1>2, <1>3 DEF ServeChange, view, Answer, Starts
<1>5. /\ IsFiniteSet(Creating) /\ s \in Creating
      /\ Cardinality(Creating) \in Nat /\ Cardinality(Creating \ {s}) \in Nat
      /\ Cardinality(Creating \ {s}) = Cardinality(Creating) - 1
  <2>1. IsFiniteSet(Creating) /\ s \in Creating
    BY <1>1, ConsoleAssumption, FS_Subset DEF Creating
  <2>2. PICK C : C = Creating
    OBVIOUS
  <2>3. /\ IsFiniteSet(C \ {s}) /\ Cardinality(C \ {s}) = Cardinality(C) - 1
    BY <2>1, <2>2, FS_RemoveElement
  <2> QED BY <2>1, <2>2, <2>3, FS_CardinalityType
<1>6. /\ n \in Ids /\ n \in 1..n /\ n <= MaxMade /\ n # NoKey
      /\ 1..made \subseteq 1..n /\ 0..made \subseteq 0..n
  BY <1>2, <1>5, MadeIsNat DEF Ids, NoKey
<1>7. PICK w \in RowSet : w = With(u, n, "active") /\ DOMAIN w = DOMAIN u \cup {n}
  BY <1>6, WithRows DEF Statuses
<1>8. table' = [table EXCEPT ![o] = w]
  BY <1>4, <1>7
<1>9. TableTyped'
  <2>1. DOMAIN w \subseteq 1..n
    BY <1>3, <1>6, <1>7
  <2>2. \A t \in Tables : DOMAIN table'[t] \subseteq 1..n
    BY <1>p, <1>6, <1>8, <2>1 DEF TableTyped
  <2>3. made' \in 0..MaxMade
    BY <1>4, <1>6, MadeIsNat
  <2> QED BY <1>p, <1>4, <1>8, <2>2, <2>3 DEF TableTyped
<1>10. ViewTyped'
  BY <1>p, <1>4, <1>6 DEF ViewTyped
<1>11. HistTyped'
  BY <1>p, <1>4, <1>6 DEF HistTyped
<1>12. PICK f \in Flow :
         /\ f = flow'[s]
         /\ \/ f = Idle /\ flow[s].left
            \/ /\ ~flow[s].left /\ ~f.left /\ f.kind = "create" /\ f.step = "act"
               /\ f.stage = "ok" /\ f.on = o /\ f.x = n
               /\ f.prev = flow[s].prev /\ f.got = flow[s].got /\ f.parts = flow[s].parts
  <2>1. /\ g \in Flow /\ g.left = flow[s].left /\ g.kind = "create" /\ g.step = "act"
        /\ g.stage = "ok" /\ g.on = flow[s].on /\ g.x = n
        /\ g.prev = flow[s].prev /\ g.got = flow[s].got /\ g.parts = flow[s].parts
    BY <1>1, <1>6 DEF Flow
  <2>2. g = [[flow[s] EXCEPT !.stage = "ok"] EXCEPT !.x = n]
    BY <1>1 DEF Flow
  <2>3. flow'[s] = IF flow[s].left THEN Idle ELSE g
    BY <1>p, <1>4, <2>2 DEF FlowsFit
  <2> HIDE DEF g
  <2>4. flow[s].left \in BOOLEAN
    BY <1>1 DEF Flow
  <2> QED BY <1>3, <2>1, <2>3, <2>4, IdleIsFlow
<1>13. flow' \in [Slots -> Flow] /\ OnlyMoved(s)
  <2>1. PICK h : h = (IF flow[s].left THEN Idle ELSE
                    [[flow[s] EXCEPT !.stage = "ok"] EXCEPT !.x = n])
    OBVIOUS
  <2>2. flow' = [flow EXCEPT ![s] = h]
    BY <1>4, <2>1
  <2>3. h = f
    BY <1>p, <1>12, <2>2 DEF FlowsFit
  <2> QED BY <1>p, <1>12, <2>2, <2>3 DEF FlowsFit, OnlyMoved
<1>14. Remembers
  BY <1>4 DEF Remembers
<1>15. FlowsFit'
  <2> SUFFICES ASSUME NEW t \in Slots PROVE FlowOK(flow[t])'
    BY <1>13 DEF FlowsFit
  <2>1. CASE t # s
    <3>1. PICK h \in Flow : h = flow'[t]
      BY <1>13
    <3>2. h = flow[t]
      BY <1>13, <2>1, <3>1 DEF OnlyMoved
    <3>3. FlowOK(h)
      BY <1>p, <3>2 DEF FlowsFit
    <3>4. made' \in Nat /\ made <= made' /\ page' = page
      BY <1>2, <1>4, MadeIsNat
    <3>5. FlowOK(h)'
      BY <1>p, <1>14, <3>3, <3>4, FlowStays
    <3> QED BY <3>1, <3>5
  <2>2. CASE t = s /\ f = Idle
    <3>1. FlowOK(f)'
      BY <1>2, <1>4, <2>2, IdleFits
    <3> QED BY <1>12, <2>2, <3>1
  <2>3. CASE t = s /\ f # Idle
    <3>1. FlowOK(f)'
      BY <1>1, <1>3, <1>4, <1>6, <1>12, <2>3 DEF FlowOK
    <3> QED BY <1>12, <2>3, <3>1
  <2> QED BY <2>1, <2>2, <2>3
<1>16. Budget'
  <2>1. Creating' \subseteq Creating \ {s}
    BY <1>6, <1>12, <1>13, IdleIsFlow DEF Creating, OnlyMoved
  <2>2. IsFiniteSet(Creating \ {s})
    BY <1>5, FS_Subset
  <2>3. /\ Cardinality(Creating') <= Cardinality(Creating \ {s})
        /\ Cardinality(Creating') \in Nat
    BY <2>1, <2>2, FS_Subset, FS_CardinalityType
  <2> QED BY <1>2, <1>4, <1>5, <2>3, MadeIsNat DEF Budget
<1>17. Spins'
  <2>1. Lists(flow[s]) => Lists(flow'[s])
    BY <1>1 DEF Lists
  <2>2. Saves(flow[s]) <=> Saves(flow'[s])
    BY <1>12, IdleIsFlow DEF Saves
  <2> QED BY <1>4, <1>13, <2>1, <2>2, SpinsOn
<1>18. SecretKept'
  <2> SUFFICES ASSUME NEW k \in DOMAIN table'["api-keys"]
               PROVE  Told(k)' \/ \E t \in Slots : Brings(flow'[t], k)
    BY DEF SecretKept, Brings
  <2>1. CASE k \in DOMAIN table["api-keys"]
    <3>1. CASE Told(k)
      BY <1>14, <3>1, ToldStays
    <3>2. CASE ~Told(k)
      <4>1. PICK t \in Slots : Brings(flow[t], k)
        BY <1>p, <2>1, <3>2 DEF SecretKept
      <4>2. t # s
        BY <1>1, <3>2, <4>1 DEF Brings, Told
      <4> QED BY <1>13, <4>1, <4>2 DEF OnlyMoved
    <3> QED BY <3>1, <3>2
  <2>2. CASE k \notin DOMAIN table["api-keys"]
    <3>1. o = "api-keys" /\ k = n
      BY <1>p, <1>3, <1>7, <1>8, <2>2, Names DEF TableTyped
    <3>2. CASE flow[s].left
      BY <1>4, <3>1, <3>2 DEF Told
    <3>3. CASE ~flow[s].left
      <4>1. Brings(flow'[s], k)
        BY <1>12, <3>1, <3>3 DEF Brings
      <4> QED BY <4>1
    <3> QED BY <3>2, <3>3
  <2> QED BY <2>1, <2>2
<1> QED BY <1>9, <1>10, <1>11, <1>15, <1>16, <1>17, <1>18 DEF IInv

\* The server creates, deletes or verifies a row.
LEMMA ServeChangeStep ==
  ASSUME IInv, NEW s \in Slots, ServeChange(s)
  PROVE  IInv'
<1>1. CASE flow[s].kind = "create"
  BY <1>1, ServeCreateStep
<1>2. CASE flow[s].kind # "create"
  <2>p. TableTyped /\ flow[s] \in Flow
    BY DEF IInv, FlowsFit
  <2>1. PICK o \in Tables, u \in RowSet : o = flow[s].on /\ u = table[o]
    BY <2>p DEF TableTyped, Flow
  <2>2. UNCHANGED <<made, known, page, view, overlapped, hidden, covered>>
    BY <1>2 DEF ServeChange
  <2>3. CASE flow[s].x \notin DOMAIN u
    <3>1. table' = table /\ Answer(s, [flow[s] EXCEPT !.stage = "failed"])
      BY <1>2, <2>1, <2>3 DEF ServeChange
    <3>2. /\ table' \in [Tables -> RowSet]
          /\ \A t \in Tables : DOMAIN table'[t] \subseteq DOMAIN table[t]
      BY <2>p, <3>1 DEF TableTyped
    <3> QED BY <1>2, <2>2, <3>1, <3>2, AnswerStep
  <2>4. CASE flow[s].x \in DOMAIN u
    <3>1. Answer(s, [flow[s] EXCEPT !.stage = "ok"])
      BY <1>2, <2>1, <2>4 DEF ServeChange
    <3>2. flow[s].x \in Ids
      BY <2>4, RowSetIs
    <3>3. \E w \in RowSet : table' = [table EXCEPT ![o] = w] /\ DOMAIN w \subseteq DOMAIN u
      <4>1. CASE flow[s].kind = "delete"
        <5>1. table' = [table EXCEPT ![o] = Without(u, flow[s].x)]
          BY <1>2, <2>1, <2>4, <4>1 DEF ServeChange
        <5> QED BY <5>1, WithoutRows
      <4>2. CASE flow[s].kind # "delete"
        <5>1. PICK st \in Statuses : table' = [table EXCEPT ![o] = With(u, flow[s].x, st)]
          BY <1>2, <2>1, <2>4, <4>2 DEF ServeChange
        <5>2. PICK x \in Ids : x = flow[s].x
          BY <3>2
        <5>3. With(u, x, st) \in RowSet /\ DOMAIN With(u, x, st) = DOMAIN u \cup {x}
          BY WithRows
        <5> QED BY <2>4, <5>1, <5>2, <5>3
      <4> QED BY <4>1, <4>2
    <3>4. /\ table' \in [Tables -> RowSet]
          /\ \A t \in Tables : DOMAIN table'[t] \subseteq DOMAIN table[t]
      BY <2>p, <2>1, <3>3 DEF TableTyped
    <3> QED BY <1>2, <2>2, <3>1, <3>4, AnswerStep
  <2> QED BY <2>3, <2>4
<1> QED BY <1>1, <1>2

-----------------------------------------------------------------------------
\* The page handles an answer.

\* A flow that ends frees its slot.
LEMMA EndsIsIdle ==
  ASSUME NEW s \in Slots, Ends(s)
  PROVE  Starts(s, Idle)
BY DEF Ends

\* A handler ends; the key it was to bring is told.
LEMMA FlowEnds ==
  ASSUME IInv, NEW s \in Slots, Ends(s), Remembers, page' = page, made' = made,
         table' = table, \A k : Brings(flow[s], k) => Told(k)
  PROVE  OnlyMoved(s) /\ flow'[s] = Idle /\ FlowsFit' /\ Budget' /\ SecretKept'
<1>1. PICK f \in Flow : f = Idle
  BY IdleIsFlow
<1>2. Starts(s, f) /\ FlowOK(f)'
  BY <1>1, MadeIsNat, IdleFits DEF Ends
<1>3. ~Creates(f)
  BY <1>1, IdleIsFlow DEF Creates
<1>4. \A k : Brings(flow[s], k) => Told(k)'
  BY ToldStays
<1> QED BY <1>1, <1>2, <1>3, <1>4, FlowMoves

\* The answer to a creation is handled.
LEMMA ReceiveCreateStep ==
  ASSUME IInv, NEW s \in Slots, ReceiveCreate(s)
  PROVE  IInv'
<1>p. TableTyped /\ ViewTyped /\ HistTyped /\ FlowsFit /\ Spins
  BY DEF IInv
<1>0. /\ flow[s] \in Flow /\ FlowOK(flow[s]) /\ flow[s].kind = "create"
      /\ flow[s].step = "act" /\ ~flow[s].left /\ flow[s].stage # "sent"
      /\ UNCHANGED <<table, made, page, rows, byokOn, overlapped, hidden, known>>
  BY <1>p DEF ReceiveCreate, Answered, Here, FlowsFit
<1>1. flow[s].on = page /\ flow[s].x \in 0..made
  BY <1>0 DEF FlowOK
<1>t. TableTyped'
  BY <1>p, <1>0 DEF TableTyped
<1>2. CASE flow[s].stage = "ok"
  <2>1. /\ open' = FALSE /\ ShowSecret(s) /\ ThenList(s, flow[s])
        /\ UNCHANGED <<error, busy>>
    BY <1>2 DEF ReceiveCreate
  <2>2. PICK g \in Flow :
          /\ Starts(s, g) /\ g.kind = "create" /\ g.on = page /\ g.x = flow[s].x
          /\ g.prev = flow[s].prev /\ g.got = flow[s].got /\ ~g.left
          /\ g.step = "list" /\ g.stage = "sent" /\ g.parts = flow[s].parts
    BY <1>0, <1>1, <2>1, ThenListIsFlow
  <2>3. /\ secret' = (IF page = "api-keys" THEN flow[s].x ELSE secret)
        /\ covered' = (IF page = "api-keys" THEN covered \cup ({secret} \ {NoKey})
                       ELSE covered)
    BY <2>1 DEF ShowSecret
  <2>4. Remembers
    BY <1>0, <2>3 DEF Remembers
  <2>5. FlowOK(g)'
    BY <1>0, <1>1, <2>2, <2>3 DEF FlowOK, Told
  <2>6. OnlyMoved(s) /\ flow'[s] = g /\ FlowsFit' /\ Budget' /\ SecretKept'
    BY <1>0, <1>1, <2>2, <2>4, <2>5, FlowMoves DEF Brings, Creates
  <2>7. Spins'
    <3>1. Lists(g) /\ ~Lists(flow[s]) /\ Saves(g) /\ Saves(flow[s])
      BY <1>0, <2>2 DEF Lists, Saves
    <3> QED BY <1>0, <2>1, <2>6, <3>1, SpinsOn
  <2>8. ViewTyped'
    <3>1. secret' \in 0..made
      BY <1>1, <2>3, MadeIsNat
    <3>2. loading' = TRUE
      BY <2>1 DEF ThenList
    <3> QED BY <1>p, <1>0, <2>1, <3>1, <3>2 DEF ViewTyped
  <2>9. HistTyped'
    <3>1. {secret} \ {NoKey} \subseteq 1..made
      BY MadeIsNat DEF NoKey
    <3> QED BY <1>p, <1>0, <2>3, <3>1 DEF HistTyped
  <2> QED BY <1>t, <2>6, <2>7, <2>8, <2>9 DEF IInv
<1>3. CASE flow[s].stage # "ok"
  <2>1. /\ error' = TRUE /\ busy' = FALSE /\ open' = (open /\ page = "providers")
        /\ Ends(s) /\ UNCHANGED <<secret, covered, loading>>
    BY <1>3 DEF ReceiveCreate
  <2>2. Remembers
    BY <1>0, <2>1 DEF Remembers
  <2>3. flow[s].stage = "failed"
    BY <1>0, <1>3 DEF Flow
  <2>4. \A k : Brings(flow[s], k) => Told(k)
    BY <1>0, <2>3 DEF FlowOK, Brings, Told
  <2>5. OnlyMoved(s) /\ flow'[s] = Idle /\ FlowsFit' /\ Budget' /\ SecretKept'
    BY <1>0, <2>1, <2>2, <2>4, FlowEnds
  <2>6. Spins'
    <3>1. ~Lists(flow[s]) /\ Saves(flow[s]) /\ ~Saves(Idle)
      BY <1>0, IdleIsFlow DEF Lists, Saves
    <3>2. loading' => \E t \in Slots : Lists(flow'[t])
      BY <1>p, <2>1, <2>5, <3>1 DEF Spins, OnlyMoved
    <3>3. page = "providers" => \A t \in Slots : ~Saves(flow'[t])
      BY <1>p, <2>5, <3>1 DEF Spins, OnlyMoved
    <3> QED BY <1>0, <2>1, <3>2, <3>3 DEF Spins, Lists, Saves
  <2>7. ViewTyped' /\ HistTyped'
    BY <1>p, <1>0, <2>1 DEF ViewTyped, HistTyped
  <2> QED BY <1>t, <2>5, <2>6, <2>7 DEF IInv
<1> QED BY <1>2, <1>3

\* The answer to a deletion or a verification is handled.
LEMMA ReceiveChangeStep ==
  ASSUME IInv, NEW s \in Slots, ReceiveChange(s)
  PROVE  IInv'
<1>p. TableTyped /\ ViewTyped /\ HistTyped /\ FlowsFit
  BY DEF IInv
<1>0. /\ flow[s] \in Flow /\ FlowOK(flow[s]) /\ flow[s].kind \in {"delete", "verify"}
      /\ flow[s].step = "act"
      /\ UNCHANGED <<table, made, page, open, busy, byokOn, secret, overlapped,
                     hidden, known, covered>>
  BY <1>p DEF ReceiveChange, Answered, FlowsFit
<1>1. Remembers
  BY <1>0 DEF Remembers
<1>2. \A k : ~Brings(flow[s], k)
  BY <1>0 DEF Brings
<1>3. ~Lists(flow[s]) /\ ~Saves(flow[s])
  BY <1>0 DEF Lists, Saves
<1>t. TableTyped' /\ HistTyped'
  BY <1>p, <1>0 DEF TableTyped, HistTyped
<1>4. CASE flow[s].stage = "ok" /\ page = "providers"
  <2>1. ThenList(s, flow[s]) /\ UNCHANGED <<rows, error>>
    BY <1>4 DEF ReceiveChange
  <2>2. PICK g \in Flow :
          /\ Starts(s, g) /\ g.kind = flow[s].kind /\ g.on = flow[s].on
          /\ g.x = flow[s].x /\ g.prev = flow[s].prev /\ g.got = flow[s].got
          /\ g.left = flow[s].left /\ g.step = "list" /\ g.parts = flow[s].parts
    BY <1>0, <2>1, ThenListIsFlow
  <2>3. FlowOK(g)'
    BY <1>0, <2>2 DEF FlowOK
  <2>4. OnlyMoved(s) /\ flow'[s] = g /\ FlowsFit' /\ Budget' /\ SecretKept'
    BY <1>0, <1>1, <1>2, <2>2, <2>3, FlowMoves DEF Creates
  <2>5. loading' = TRUE /\ ~flow[s].left
    BY <2>1 DEF ThenList, ReceiveChange, Answered, Here
  <2>6. Lists(g) /\ ~Saves(g)
    BY <1>0, <2>2, <2>5 DEF Lists, Saves
  <2>7. Spins'
    BY <1>0, <1>3, <2>4, <2>6, SpinsOn
  <2>8. ViewTyped'
    BY <1>p, <1>0, <2>1, <2>5 DEF ViewTyped
  <2> QED BY <1>t, <2>4, <2>7, <2>8 DEF IInv
<1>5. CASE ~(flow[s].stage = "ok" /\ page = "providers")
  <2>1. /\ Ends(s) /\ UNCHANGED loading /\ error' \in BOOLEAN
        /\ rows' \in {rows, flow[s].prev}
    BY <1>p, <1>5 DEF ReceiveChange, RolledBack, ViewTyped
  <2>2. OnlyMoved(s) /\ flow'[s] = Idle /\ FlowsFit' /\ Budget' /\ SecretKept'
    BY <1>0, <1>1, <1>2, <2>1, FlowEnds
  <2>3. Spins'
    <3>1. ~Saves(Idle)
      BY IdleIsFlow DEF Saves
    <3> QED BY <1>0, <1>3, <2>1, <2>2, <3>1, SpinsOn
  <2>4. rows' \in RowSet /\ DOMAIN rows' \subseteq 1..made
    BY <1>p, <1>0, <2>1 DEF ViewTyped, FlowOK, Flow
  <2>5. ViewTyped'
    BY <1>p, <1>0, <2>1, <2>4 DEF ViewTyped
  <2> QED BY <1>t, <2>2, <2>3, <2>5 DEF IInv
<1> QED BY <1>4, <1>5

\* A list arrives.
LEMMA ReceiveListStep ==
  ASSUME IInv, NEW s \in Slots, ReceiveList(s)
  PROVE  IInv'
<1>p. TableTyped /\ ViewTyped /\ HistTyped /\ FlowsFit /\ Spins
  BY DEF IInv
<1>0. /\ flow[s] \in Flow /\ FlowOK(flow[s]) /\ flow[s].step = "list"
      /\ ~flow[s].left /\ Ends(s) /\ loading' = FALSE
      /\ busy' = (busy /\ flow[s].kind # "create")
      /\ UNCHANGED <<table, made, page, open, secret, overlapped, hidden, known, covered>>
  BY <1>p DEF ReceiveList, Answered, Here, ListDone, FlowsFit
<1>1. /\ rows' \in {rows, flow[s].got} /\ error' \in BOOLEAN /\ byokOn' \in BOOLEAN
  BY <1>p, ConsoleAssumption DEF ReceiveList, ViewTyped
<1>2. Remembers
  BY <1>0 DEF Remembers
<1>3. \A k : Brings(flow[s], k) => Told(k)
  BY <1>0 DEF FlowOK, Brings
<1>4. OnlyMoved(s) /\ flow'[s] = Idle /\ FlowsFit' /\ Budget' /\ SecretKept'
  BY <1>0, <1>2, <1>3, FlowEnds
<1>5. Spins'
  <2>1. ~Saves(Idle) /\ (flow[s].kind = "create" <=> Saves(flow[s]))
    BY <1>0, IdleIsFlow DEF Saves
  <2>2. page = "providers" =>
          /\ busy' <=> \E t \in Slots : Saves(flow'[t])
          /\ \A t, u \in Slots : Saves(flow'[t]) /\ Saves(flow'[u]) => t = u
    BY <1>p, <1>0, <1>4, <2>1 DEF Spins, OnlyMoved
  <2> QED BY <1>0, <2>2 DEF Spins, Saves
<1>6. rows' \in RowSet /\ DOMAIN rows' \subseteq 1..made
  BY <1>p, <1>0, <1>1 DEF ViewTyped, FlowOK, Flow
<1>7. TableTyped' /\ ViewTyped' /\ HistTyped'
  BY <1>p, <1>0, <1>1, <1>6 DEF TableTyped, ViewTyped, HistTyped
<1> QED BY <1>4, <1>5, <1>7 DEF IInv

\* One of the answers of the overview arrives.
LEMMA ReceivePartStep ==
  ASSUME IInv, NEW s \in Slots, NEW part \in Parts, NEW ok \in BOOLEAN,
         ReceivePart(s, part, ok)
  PROVE  IInv'
<1>p. TableTyped /\ ViewTyped /\ HistTyped /\ FlowsFit
  BY DEF IInv
<1>0. /\ flow[s] \in Flow /\ FlowOK(flow[s]) /\ flow[s].step = "list"
      /\ ~flow[s].left /\ part \in flow[s].parts
      /\ loading' = (flow[s].parts # {part})
      /\ IF loading' THEN Starts(s, [flow[s] EXCEPT !.parts = @ \ {part}]) ELSE Ends(s)
      /\ UNCHANGED <<table, made, page, open, busy, secret, hidden, known, covered>>
  BY <1>p DEF ReceivePart, Answered, Here, FlowsFit
<1>1. /\ rows' \in {rows, flow[s].got, Empty} /\ error' \in BOOLEAN
      /\ byokOn' \in BOOLEAN /\ overlapped' \in BOOLEAN
  <2>1. rows' \in {rows, flow[s].got, Empty}
    BY DEF ReceivePart
  <2>2. byokOn' \in BOOLEAN
    BY <1>p, ConsoleAssumption DEF ReceivePart, ViewTyped
  <2>3. error' \in BOOLEAN
    BY <1>p DEF ReceivePart, ViewTyped
  <2>4. overlapped' \in BOOLEAN
    BY <1>p DEF ReceivePart, HistTyped
  <2> QED BY <2>1, <2>2, <2>3, <2>4
<1>2. Remembers
  BY <1>0 DEF Remembers
<1>3. flow[s].kind = "load"
  BY <1>0 DEF FlowOK
<1>4. rows' \in RowSet /\ DOMAIN rows' \subseteq 1..made
  BY <1>p, <1>0, <1>1, EmptyRows DEF ViewTyped, FlowOK, Flow
<1>5. TableTyped' /\ ViewTyped' /\ HistTyped'
  BY <1>p, <1>0, <1>1, <1>4 DEF TableTyped, ViewTyped, HistTyped
<1>6. CASE loading'
  <2> DEFINE g == [flow[s] EXCEPT !.parts = @ \ {part}]
  <2>1. /\ g \in Flow /\ g.kind = "load" /\ g.step = "list" /\ g.x = flow[s].x
        /\ g.prev = flow[s].prev /\ g.got = flow[s].got /\ ~g.left
    BY <1>0, <1>3 DEF Flow
  <2>2. Starts(s, g)
    BY <1>0, <1>6
  <2> HIDE DEF g
  <2>3. PICK f : f = g
    OBVIOUS
  <2>4. FlowOK(f)'
    BY <1>0, <2>1, <2>3 DEF FlowOK
  <2>5. OnlyMoved(s) /\ flow'[s] = f /\ FlowsFit' /\ Budget' /\ SecretKept'
    BY <1>0, <1>2, <1>3, <2>1, <2>2, <2>3, <2>4, FlowMoves DEF Brings, Creates
  <2>6. Lists(f) /\ ~Saves(f) /\ ~Saves(flow[s])
    BY <1>3, <2>1, <2>3 DEF Lists, Saves
  <2>7. Spins'
    BY <1>0, <2>5, <2>6, SpinsOn
  <2> QED BY <1>5, <2>5, <2>7 DEF IInv
<1>7. CASE ~loading'
  <2>1. OnlyMoved(s) /\ flow'[s] = Idle /\ FlowsFit' /\ Budget' /\ SecretKept'
    BY <1>0, <1>2, <1>3, <1>7, FlowEnds DEF Brings
  <2>2. ~Saves(Idle) /\ ~Saves(flow[s])
    BY <1>3, IdleIsFlow DEF Saves
  <2>3. \A t \in Slots : Saves(flow[t]) <=> Saves(flow'[t])
    BY <2>1, <2>2 DEF OnlyMoved
  <2>4. Spins
    BY DEF IInv
  <2>5. page = "providers" =>
          /\ busy <=> \E t \in Slots : Saves(flow'[t])
          /\ \A t, u \in Slots : Saves(flow'[t]) /\ Saves(flow'[u]) => t = u
    BY <2>3, <2>4 DEF Spins
  <2>6. Spins'
    BY <1>0, <1>7, <2>5 DEF Spins, Saves
  <2> QED BY <1>5, <2>1, <2>6 DEF IInv
<1> QED BY <1>6, <1>7

-----------------------------------------------------------------------------
\* IInv holds at first ...
LEMMA InitEstablishes == Init => IInv
<1> SUFFICES ASSUME Init PROVE IInv
  OBVIOUS
<1>0. /\ table = [t \in Tables |-> Empty] /\ made = 0
      /\ page \in Pages /\ rows = Empty
      /\ loading = TRUE /\ error = FALSE
      /\ open = FALSE /\ busy = FALSE /\ byokOn = FALSE /\ secret = NoKey
      /\ overlapped = FALSE /\ hidden = {} /\ known = {} /\ covered = {}
  BY DEF Init
<1>1. PICK s \in Slots : flow = [t \in Slots |-> IF t = s THEN Load(page) ELSE Idle]
  BY DEF Init
<1>2. PICK q \in Flow : /\ q = Load(page) /\ q.kind = "load" /\ q.x = NoKey
                        /\ q.prev = Empty /\ q.got = Empty /\ ~q.left /\ q.step = "list"
  BY <1>0, LoadIsFlow
<1>3. flow = [t \in Slots |-> IF t = s THEN q ELSE Idle]
  BY <1>1, <1>2
<1>4. TableTyped
  BY <1>0, EmptyRows, ConsoleAssumption DEF TableTyped
<1>5. ViewTyped
  <2>1. page \in Pages /\ loading \in BOOLEAN /\ error \in BOOLEAN
    BY <1>0
  <2>2. open \in BOOLEAN /\ busy \in BOOLEAN /\ byokOn \in BOOLEAN
    BY <1>0
  <2>3. rows \in RowSet /\ DOMAIN rows \subseteq 1..made /\ ~open
    BY <1>0, EmptyRows
  <2>4. secret \in 0..made
    BY <1>0 DEF NoKey
  <2> QED BY <2>1, <2>2, <2>3, <2>4 DEF ViewTyped
<1>6. HistTyped
  BY <1>0 DEF HistTyped
<1>7. FlowsFit
  <2>1. FlowOK(q) /\ FlowOK(Idle)
    BY <1>0, <1>2, IdleIsFlow, EmptyRows DEF FlowOK, NoKey
  <2> QED BY <1>2, <1>3, <2>1, IdleIsFlow DEF FlowsFit
<1>8. Budget
  <2>1. Creating = {}
    BY <1>2, <1>3, IdleIsFlow DEF Creating
  <2>2. Cardinality(Creating) = 0
    BY <2>1, FS_EmptySet
  <2> QED BY <1>0, <2>2, ConsoleAssumption DEF Budget
<1>9. Spins
  <2>1. Lists(flow[s])
    BY <1>2, <1>3 DEF Lists
  <2>2. \A t \in Slots : ~Saves(flow[t])
    BY <1>2, <1>3, IdleIsFlow DEF Saves
  <2> QED BY <1>0, <2>1, <2>2 DEF Spins
<1>10. SecretKept
  BY <1>0, Names, EmptyRows DEF SecretKept
<1> QED BY <1>4, <1>5, <1>6, <1>7, <1>8, <1>9, <1>10 DEF IInv

\* ... and every step keeps it.
LEMMA NextPreserves == IInv /\ [Next]_vars => IInv'
<1> SUFFICES ASSUME IInv, [Next]_vars PROVE IInv'
  OBVIOUS
<1>1. ASSUME NEW s \in Slots, Visit(s) PROVE IInv'
  BY <1>1, MountStep, CreateStep, RefreshStep, DeleteStep, VerifyStep DEF Visit
<1>2. ASSUME NEW s \in Slots, Receive(s) PROVE IInv'
  BY <1>2, ReceiveCreateStep, ReceiveChangeStep, ReceiveListStep, ReceivePartStep
     DEF Receive
<1> QED BY <1>1, <1>2, DialogSteps, DismissStep, FetchStep, ServeChangeStep,
           ServeListStep, LoseStep DEF Next

\* The inductive invariant holds in every reachable state.
THEOREM Invariance == Spec => []IInv
BY InitEstablishes, NextPreserves, PTL DEF Spec

\* Every variable of the pages keeps its type: nothing they show or remember
\* was not made by the server.
THEOREM TypeCorrect == Spec => []TypeOK
<1>1. IInv => TypeOK
  BY DEF IInv, TypeOK, TableTyped, ViewTyped, HistTyped, FlowsFit
<1> QED BY <1>1, Invariance, PTL

\* The spinner and the disabled "Save" have an answer to wait for, and the
\* provider dialog saves once at a time.
THEOREM SpinnerAlwaysWaits == Spec => []SpinnerIsAWait
<1>1. IInv => SpinnerIsAWait
  <2> SUFFICES ASSUME IInv PROVE SpinnerIsAWait
    OBVIOUS
  <2>0. Spins /\ busy \in BOOLEAN
    BY DEF IInv, ViewTyped
  <2> DEFINE saving == {s \in Slots : Here(s) /\ flow[s].kind = "create"}
  <2>1. \A s \in Slots : s \in saving <=> Saves(flow[s])
    BY DEF Saves, Here, Free
  <2>2. loading => \E s \in Slots : Here(s) /\ flow[s].step = "list"
    BY <2>0 DEF Spins, Lists, Here, Free
  <2>3. page = "providers" => (busy <=> saving # {})
    BY <2>0, <2>1 DEF Spins
  <2>4. page = "providers" => \A s, t \in saving : s = t
    BY <2>0, <2>1 DEF Spins
  <2>5. page = "providers" => busy = (saving # {})
    BY <2>0, <2>3
  <2> QED BY <2>2, <2>4, <2>5 DEF SpinnerIsAWait
<1> QED BY <1>1, Invariance, PTL

\* The secret of a new key is on screen until it has been read, or another
\* creation under way at the same time replaces it.
THEOREM SecretAlwaysStays == Spec => []SecretStaysToBeRead
<1>1. IInv => SecretStaysToBeRead
  <2> SUFFICES ASSUME IInv, NEW k \in DOMAIN table["api-keys"]
               PROVE  \/ k \in known \cup covered \/ secret = k
                      \/ \E s \in Slots : flow[s].kind = "create" /\ flow[s].x = k
    BY DEF SecretStaysToBeRead
  <2>1. k # NoKey
    BY MadeIsNat, Names DEF IInv, TableTyped, NoKey
  <2> QED BY <2>1 DEF IInv, SecretKept, Told, Brings
<1> QED BY <1>1, Invariance, PTL

-----------------------------------------------------------------------------
\* The flows of a page.

\* A flow whose page is still mounted is about the table of the page, and is
\* one that the page starts; the overview loads parts, and only it.
Shape(f) ==
  f.kind # "idle" /\ ~f.left =>
    /\ f.on = Of(page)
    /\ f.kind = "load" => f.step = "list"
    /\ f.kind # "load" => page \in Editable
    /\ f.kind = "verify" => page = "providers"
    /\ page = "api-keys" /\ f.kind = "delete" => f.step = "act"
    /\ f.parts # {} <=> page = "overview"
    /\ page = "overview" => f.stage # "failed"

Shapes == \A s \in Slots : Shape(flow[s])

\* One flow moves, to one that fits the page.
LEMMA ShapesMove ==
  ASSUME IInv, Shapes, NEW s \in Slots, NEW f, Starts(s, f), page' = page, Shape(f)
  PROVE  Shapes'
<1>1. flow'[s] = f /\ OnlyMoved(s)
  BY DEF Starts, OnlyMoved, IInv, FlowsFit
<1>2. \A t \in Slots : Shape(flow'[t])
  BY <1>1 DEF Shapes, OnlyMoved
<1> QED BY <1>2 DEF Shapes, Shape

\* One flow ends.
LEMMA ShapesEnd ==
  ASSUME IInv, Shapes, NEW s \in Slots, Ends(s), page' = page
  PROVE  Shapes'
<1>1. PICK f : f = Idle
  OBVIOUS
<1> QED BY <1>1, IdleIsFlow, ShapesMove DEF Ends, Shape

\* What a page starts fits it.
LEMMA NewShape ==
  ASSUME NEW f, f.on = Of(page), f.parts # {} <=> page = "overview",
         f.stage = "sent",
         \/ f.kind = "load" /\ f.step = "list"
         \/ f.kind \in {"create", "delete"} /\ f.step = "act" /\ page \in Editable
         \/ f.kind = "verify" /\ f.step = "act" /\ page = "providers"
  PROVE  Shape(f)
BY DEF Shape, Editable

\* The parts that a load waits for.
LEMMA LoadParts ==
  ASSUME NEW p \in Pages
  PROVE  /\ Load(p).parts = IF p = "overview" THEN Parts ELSE {}
         /\ Load(p).parts # {} <=> p = "overview"
BY DEF Load, Idle, Parts

\* Where a page that was left had asked for a change, the flow is left.
LEMMA MountMoves ==
  ASSUME IInv, NEW s \in Slots, NEW p \in Pages, Mount(s, p)
  PROVE  /\ flow'[s] = Load(p)
         /\ \A t \in Slots \ {s} : flow'[t].kind = "idle" \/ flow'[t].left
<1>1. ASSUME NEW t \in Slots \ {s} PROVE flow'[t].kind = "idle" \/ flow'[t].left
  <2> DEFINE g == [flow[t] EXCEPT !.left = TRUE]
  <2>1. flow[t] \in Flow
    BY DEF IInv, FlowsFit
  <2>2. g.left
    BY <2>1 DEF Flow
  <2>3. flow'[t] = g \/ flow'[t] = Idle
    BY DEF Mount
  <2> HIDE DEF g
  <2> QED BY <2>2, <2>3, IdleIsFlow
<1> QED BY <1>1 DEF Mount

\* The visitor's steps start flows that fit the page.
LEMMA VisitShapes ==
  ASSUME IInv, Shapes, NEW s \in Slots, Visit(s)
  PROVE  Shapes'
<1>p. /\ page \in Pages /\ (open => page \in Editable)
      /\ \A p \in {"api-keys", "providers", "savings"} : Of(p) = p
  BY Names DEF IInv, ViewTyped
<1>1. ASSUME NEW p \in Pages, Mount(s, p) PROVE Shapes'
  <2>0. page' = p
    BY <1>1 DEF Mount
  <2>1. PICK f : f = Load(p)
    OBVIOUS
  <2>2. /\ f.kind = "load" /\ f.step = "list" /\ f.stage = "sent" /\ f.on = Of(p)
        /\ f.parts # {} <=> p = "overview"
    BY <2>1, LoadIsFlow, LoadParts
  <2>3. Shape(f)'
    BY <2>0, <2>2 DEF Shape
  <2>4. ASSUME NEW t \in Slots PROVE Shape(flow[t])'
    <3>1. CASE t = s
      BY <1>1, <2>1, <2>3, <3>1, MountMoves
    <3>2. CASE t # s
      BY <1>1, <3>2, MountMoves DEF Shape
    <3> QED BY <3>1, <3>2
  <2> QED BY <2>4 DEF Shapes
<1>2. CASE Create(s)
  <2>1. PICK f : f = [Idle EXCEPT !.kind = "create", !.step = "act", !.on = page]
    OBVIOUS
  <2>2. f.kind = "create" /\ f.step = "act" /\ f.on = page /\ f.parts = {} /\ f.stage = "sent"
    BY <2>1 DEF Idle
  <2>3. page \in Editable /\ Starts(s, f) /\ page' = page
    BY <1>2, <1>p, <2>1 DEF Create
  <2>4. Shape(f)
    BY <1>p, <2>2, <2>3, NewShape DEF Editable
  <2> QED BY <2>3, <2>4, ShapesMove
<1>3. CASE Refresh(s)
  <2>1. PICK p \in Pages : p = page /\ Of(p) = p /\ p # "overview"
    BY <1>3, <1>p DEF Refresh
  <2>2. PICK b \in Flow : b = Load(p) /\ b.kind = "load" /\ b.on = p /\ b.parts = {}
    BY <2>1, LoadIsFlow, LoadParts
  <2>3. ThenList(s, b) /\ page' = page
    BY <1>3, <2>1, <2>2 DEF Refresh
  <2>4. PICK f \in Flow : /\ Starts(s, f) /\ f.kind = "load" /\ f.on = p
                          /\ f.step = "list" /\ f.stage = "sent" /\ f.parts = {}
    BY <2>2, <2>3, ThenListIsFlow
  <2>5. Shape(f)
    BY <2>1, <2>4, NewShape
  <2> QED BY <2>3, <2>4, <2>5, ShapesMove
<1>4. ASSUME NEW x \in Ids, Delete(s, x) PROVE Shapes'
  <2>1. PICK f : f = [Idle EXCEPT !.kind = "delete", !.step = "act", !.on = page,
                        !.x = x, !.prev = IF page = "api-keys" THEN rows ELSE Empty]
    OBVIOUS
  <2>2. f.kind = "delete" /\ f.step = "act" /\ f.on = page /\ f.parts = {} /\ f.stage = "sent"
    BY <2>1 DEF Idle
  <2>3. page \in Editable /\ Starts(s, f) /\ page' = page
    BY <1>4, <2>1 DEF Delete, Offers
  <2>4. Shape(f)
    BY <1>p, <2>2, <2>3, NewShape DEF Editable
  <2> QED BY <2>3, <2>4, ShapesMove
<1>5. ASSUME NEW x \in Ids, Verify(s, x) PROVE Shapes'
  <2>1. PICK f : f = [Idle EXCEPT !.kind = "verify", !.step = "act", !.on = page, !.x = x]
    OBVIOUS
  <2>2. f.kind = "verify" /\ f.step = "act" /\ f.on = page /\ f.parts = {} /\ f.stage = "sent"
    BY <2>1 DEF Idle
  <2>3. page = "providers" /\ Starts(s, f) /\ page' = page
    BY <1>5, <2>1 DEF Verify
  <2>4. Shape(f)
    BY <1>p, <2>2, <2>3, NewShape DEF Editable
  <2> QED BY <2>3, <2>4, ShapesMove
<1> QED BY <1>1, <1>2, <1>3, <1>4, <1>5 DEF Visit

\* What becomes of a flow when its request is answered or lost: it ends if its
\* page was left, and stays where it was otherwise.
StaysAt(f, g) ==
  \/ g = Idle /\ f.left
  \/ /\ g.kind = f.kind /\ g.step = f.step /\ g.on = f.on /\ g.prev = f.prev
     /\ g.parts = f.parts /\ ~g.left /\ ~f.left

\* The answer to a change: it fails when the row is not there any more.
LEMMA Changed ==
  ASSUME IInv, NEW s \in Slots, ServeChange(s)
  PROVE  \E g : /\ Starts(s, g) /\ StaysAt(flow[s], g)
                /\ g = Idle \/ g.stage \in {"ok", "failed"}
                /\ g # Idle /\ g.stage = "ok" /\ flow[s].kind # "create" =>
                     flow[s].x \in DOMAIN table[flow[s].on]
<1>1. flow[s] \in Flow /\ flow[s].left \in BOOLEAN
  BY DEF IInv, FlowsFit, Flow
<1>2. CASE flow[s].kind = "create"
  <2> DEFINE g == [[flow[s] EXCEPT !.stage = "ok"] EXCEPT !.x = made + 1]
  <2>1. /\ g.left = flow[s].left /\ g.kind = "create" /\ g.step = flow[s].step
        /\ g.on = flow[s].on /\ g.prev = flow[s].prev /\ g.parts = flow[s].parts
        /\ g.stage = "ok"
    BY <1>1, <1>2 DEF Flow
  <2>2. Starts(s, IF flow[s].left THEN Idle ELSE g)
    BY <1>2 DEF ServeChange, Answer
  <2> HIDE DEF g
  <2>3. CASE flow[s].left
    BY <2>2, <2>3 DEF StaysAt
  <2>4. CASE ~flow[s].left
    BY <1>2, <2>1, <2>2, <2>4 DEF StaysAt
  <2> QED BY <1>1, <2>3, <2>4
<1>3. CASE flow[s].kind # "create"
  <2>1. PICK st \in {"sent", "ok", "failed"} :
          /\ st # "sent" /\ Answer(s, [flow[s] EXCEPT !.stage = st])
          /\ st = "ok" => flow[s].x \in DOMAIN table[flow[s].on]
    BY <1>3 DEF ServeChange
  <2>2. PICK g \in Flow :
          /\ Starts(s, g)
          /\ \/ g = Idle /\ flow[s].left
             \/ /\ g.kind = flow[s].kind /\ g.step = flow[s].step /\ g.on = flow[s].on
                /\ g.x = flow[s].x /\ g.prev = flow[s].prev /\ g.got = flow[s].got
                /\ g.stage = st /\ g.parts = flow[s].parts /\ ~g.left /\ ~flow[s].left
    BY <2>1, Answers
  <2> QED BY <2>1, <2>2 DEF StaysAt
<1> QED BY <1>2, <1>3

\* A request, or its answer, is lost.
LEMMA Lost ==
  ASSUME IInv, NEW s \in Slots, Lose(s)
  PROVE  \E g : /\ Starts(s, g) /\ StaysAt(flow[s], g) /\ flow[s].parts = {}
                /\ g = Idle \/ g.stage = "failed"
<1>1. Answer(s, [flow[s] EXCEPT !.stage = "failed"]) /\ flow[s].parts = {}
  BY DEF Lose
<1>2. PICK g \in Flow :
        /\ Starts(s, g)
        /\ \/ g = Idle /\ flow[s].left
           \/ /\ g.kind = flow[s].kind /\ g.step = flow[s].step /\ g.on = flow[s].on
              /\ g.x = flow[s].x /\ g.prev = flow[s].prev /\ g.got = flow[s].got
              /\ g.stage = "failed" /\ g.parts = flow[s].parts /\ ~g.left /\ ~flow[s].left
  BY <1>1, Answers
<1> QED BY <1>1, <1>2 DEF StaysAt

\* A list is read.
LEMMA Listed ==
  ASSUME IInv, NEW s \in Slots, ServeList(s)
  PROVE  \E g : /\ Starts(s, g) /\ g.kind = flow[s].kind /\ g.step = "list"
                /\ g.on = flow[s].on /\ g.parts = flow[s].parts
                /\ g.left = flow[s].left /\ g.stage = "ok"
                /\ g.got = table[flow[s].on]
<1> DEFINE g == [flow[s] EXCEPT !.stage = "ok", !.got = table[flow[s].on]]
<1>1. /\ g.kind = flow[s].kind /\ g.step = flow[s].step
      /\ g.on = flow[s].on /\ g.parts = flow[s].parts
      /\ g.left = flow[s].left /\ g.stage = "ok" /\ g.got = table[flow[s].on]
  BY DEF IInv, FlowsFit, Flow
<1>2. Starts(s, g) /\ flow[s].step = "list"
  BY DEF ServeList
<1> HIDE DEF g
<1> QED BY <1>1, <1>2

\* One of the parts of the overview arrives.
LEMMA PartTaken ==
  ASSUME IInv, NEW s \in Slots, NEW part, NEW ok, ReceivePart(s, part, ok)
  PROVE  \/ Ends(s) /\ flow[s].parts = {part}
         \/ \E g : /\ Starts(s, g) /\ g.kind = flow[s].kind /\ g.step = flow[s].step
                   /\ g.on = flow[s].on /\ g.left = flow[s].left
                   /\ g.stage = flow[s].stage /\ g.got = flow[s].got
                   /\ g.parts = flow[s].parts \ {part} /\ g.parts # {}
<1> DEFINE g == [flow[s] EXCEPT !.parts = @ \ {part}]
<1>1. /\ g.kind = flow[s].kind /\ g.step = flow[s].step
      /\ g.on = flow[s].on /\ g.left = flow[s].left
      /\ g.stage = flow[s].stage /\ g.got = flow[s].got
      /\ g.parts = flow[s].parts \ {part}
  BY DEF IInv, FlowsFit, Flow
<1>2. /\ part \in flow[s].parts /\ loading' = (flow[s].parts # {part})
      /\ IF loading' THEN Starts(s, g) ELSE Ends(s)
  BY DEF ReceivePart
<1> HIDE DEF g
<1> QED BY <1>1, <1>2

\* The steps of the server, of the network and of the handlers keep the flows
\* those of the page.
LEMMA AnswerShapes ==
  ASSUME IInv, Shapes, NEW s \in Slots,
         ServeChange(s) \/ ServeList(s) \/ Lose(s) \/ Receive(s)
  PROVE  Shapes'
<1>p. Shape(flow[s]) /\ flow[s] \in Flow
  BY DEF Shapes, IInv, FlowsFit
<1>1. CASE ServeChange(s)
  <2>1. PICK g : Starts(s, g) /\ StaysAt(flow[s], g)
    BY <1>1, Changed
  <2>2. flow[s].step = "act" /\ flow[s].kind # "idle" /\ page' = page
    BY <1>1 DEF ServeChange, Free
  <2>3. Shape(g)
    BY <1>p, <2>1, <2>2, IdleIsFlow DEF Shape, StaysAt, Editable
  <2> QED BY <2>1, <2>2, <2>3, ShapesMove
<1>2. CASE ServeList(s)
  <2>1. PICK g : /\ Starts(s, g) /\ g.kind = flow[s].kind /\ g.step = "list"
                 /\ g.on = flow[s].on /\ g.parts = flow[s].parts
                 /\ g.left = flow[s].left /\ g.stage = "ok"
    BY <1>2, Listed
  <2>2. flow[s].step = "list" /\ page' = page
    BY <1>2 DEF ServeList
  <2>3. Shape(g)
    BY <1>p, <2>1, <2>2 DEF Shape
  <2> QED BY <2>1, <2>2, <2>3, ShapesMove
<1>3. CASE Lose(s)
  <2>1. PICK g : Starts(s, g) /\ StaysAt(flow[s], g) /\ flow[s].parts = {}
    BY <1>3, Lost
  <2>2. page' = page
    BY <1>3 DEF Lose
  <2>3. Shape(g)
    BY <1>p, <2>1, IdleIsFlow DEF Shape, StaysAt
  <2> QED BY <2>1, <2>2, <2>3, ShapesMove
<1>4. CASE ReceiveCreate(s) \/ ReceiveChange(s)
  <2>1. /\ page' = page /\ flow[s].kind # "load" /\ flow[s].kind # "idle"
        /\ ~flow[s].left
    BY <1>4 DEF ReceiveCreate, ReceiveChange, Answered, Here, Free
  <2>2. CASE Ends(s)
    BY <2>1, <2>2, ShapesEnd
  <2>3. CASE ThenList(s, flow[s])
    <3>1. flow[s].kind = "create" \/ page = "providers" \/ Ends(s)
      BY <1>4 DEF ReceiveCreate, ReceiveChange
    <3>2. PICK g \in Flow : /\ Starts(s, g) /\ g.kind = flow[s].kind /\ g.on = flow[s].on
                            /\ g.step = "list" /\ g.parts = flow[s].parts
                            /\ g.stage = "sent"
      BY <1>p, <2>3, ThenListIsFlow
    <3>3. Ends(s) \/ Shape(g)
      BY <1>p, <2>1, <3>1, <3>2 DEF Shape
    <3> QED BY <2>1, <2>2, <3>2, <3>3, ShapesMove
  <2> QED BY <1>4, <2>2, <2>3 DEF ReceiveCreate, ReceiveChange
<1>5. CASE ReceiveList(s)
  BY <1>5, ShapesEnd DEF ReceiveList, ListDone
<1>6. ASSUME NEW part \in Parts, NEW ok \in BOOLEAN, ReceivePart(s, part, ok)
      PROVE  Shapes'
  <2>1. page' = page /\ flow[s].kind # "idle" /\ ~flow[s].left /\ flow[s].parts # {}
    BY <1>6 DEF ReceivePart, Answered, Here, Free
  <2>2. CASE Ends(s)
    BY <2>1, <2>2, ShapesEnd
  <2>3. CASE ~Ends(s)
    <3>1. PICK g : /\ Starts(s, g) /\ g.kind = flow[s].kind /\ g.step = flow[s].step
                   /\ g.on = flow[s].on /\ g.left = flow[s].left
                   /\ g.stage = flow[s].stage /\ g.parts # {}
      BY <1>6, <2>3, PartTaken
    <3>2. Shape(g)
      BY <1>p, <2>1, <3>1 DEF Shape
    <3> QED BY <2>1, <3>1, <3>2, ShapesMove
  <2> QED BY <2>2, <2>3
<1> QED BY <1>1, <1>2, <1>3, <1>4, <1>5, <1>6 DEF Receive

\* The flows under way are always those of the page that is mounted.
LEMMA ShapesInduction ==
  /\ Init => Shapes
  /\ IInv /\ Shapes /\ [Next]_vars => Shapes'
<1>1. ASSUME Init PROVE Shapes
  <2>1. page \in Pages
    BY <1>1 DEF Init
  <2>2. PICK s \in Slots : flow = [t \in Slots |-> IF t = s THEN Load(page) ELSE Idle]
    BY <1>1 DEF Init
  <2>3. PICK f : f = Load(page)
    OBVIOUS
  <2>4. Shape(f)
    BY <2>1, <2>3, LoadIsFlow, LoadParts, NewShape
  <2>5. Shape(Idle)
    BY IdleIsFlow DEF Shape
  <2>6. \A t \in Slots : flow[t] = f \/ flow[t] = Idle
    BY <2>2, <2>3
  <2> QED BY <2>4, <2>5, <2>6 DEF Shapes
<1>2. ASSUME IInv, Shapes, [Next]_vars PROVE Shapes'
  <2>1. CASE OpenDialog \/ CloseDialog \/ Dismiss \/ FetchRecorded \/ UNCHANGED vars
    <3>1. flow' = flow /\ page' = page
      BY <2>1 DEF OpenDialog, CloseDialog, Dismiss, FetchRecorded, vars
    <3> QED BY <1>2, <3>1 DEF Shapes, Shape
  <2> QED BY <1>2, <2>1, VisitShapes, AnswerShapes DEF Next
<1> QED BY <1>1, <1>2

\* The flows under way are always those of the page that is mounted.
THEOREM FlowsOfThePage == Spec => []Shapes
BY Invariance, ShapesInduction, PTL DEF Spec

-----------------------------------------------------------------------------
\* What a quiet page shows is the server's.

\* Keys that a click took off the page and that are still live.
Gone == hidden \cap DOMAIN table["api-keys"]

\* What f, the only flow for the table of the page, leaves to be true: a list
\* that was read is still the server's; the overview has what has arrived; the
\* row of a revocation is out of sight until the answer, and in `previous`.
Alone(f) ==
  /\ ~f.left
  /\ f.step = "list" /\ f.stage = "ok" => f.got = table[Of(page)]
  /\ page = "overview" =>
       /\ "keys" \notin f.parts => rows = table[Of(page)]
       /\ "caps" \notin f.parts => byokOn = Byok
  /\ page = "api-keys" =>
       IF f.kind = "delete"
         THEN /\ f.stage = "sent" => /\ ~error => rows = Without(table[page], f.x)
                                     /\ Gone \subseteq DOMAIN rows \cup {f.x}
              /\ f.stage = "ok" => /\ ~error => rows = table[page]
                                   /\ Gone \subseteq DOMAIN rows
              /\ Gone \subseteq DOMAIN f.prev
         ELSE Gone \subseteq DOMAIN rows

\* What is true of a page that waits for nothing.
Shows ==
  /\ ~error => /\ rows = table[Of(page)]
               /\ page \in ShowsCapabilities => byokOn = Byok
  /\ page = "api-keys" => Gone \subseteq DOMAIN rows

\* A page whose flows did not overlap has one under way at most.
Settled ==
  ~overlapped =>
    /\ \A s, t \in On(Of(page)) : s = t
    /\ \A s \in On(Of(page)) : Alone(flow[s])
    /\ On(Of(page)) = {} => Shows

\* The page of the api keys, and the pages that are named like their table.
LEMMA TablesOfPages ==
  /\ \A p \in {"api-keys", "providers", "savings"} : Of(p) = p
  /\ Of("overview") = "api-keys"
  /\ \A p \in Pages : p # "savings" => Of(p) # "savings"
  /\ "api-keys" \in Tables /\ \A p \in Pages : Of(p) \in Tables
BY DEF Of, Pages, Editable, Tables

\* A step that touches neither the page nor its table, here and at the server.
LEMMA Aside ==
  ASSUME Settled, page' = page, overlapped' = overlapped,
         On(Of(page))' = On(Of(page)), \A t \in On(Of(page)) : flow'[t] = flow[t],
         table'[Of(page)] = table[Of(page)],
         UNCHANGED <<rows, error, byokOn, hidden>>
  PROVE  Settled'
<1> SUFFICES ASSUME ~overlapped'
             PROVE  /\ \A s, t \in On(Of(page))' : s = t
                    /\ \A s \in On(Of(page))' : Alone(flow[s])'
                    /\ On(Of(page))' = {} => Shows'
  BY DEF Settled
<1>1. /\ \A s, t \in On(Of(page)) : s = t
      /\ \A s \in On(Of(page)) : Alone(flow[s])
      /\ On(Of(page)) = {} => Shows
  BY DEF Settled
<1>2. page = "api-keys" => Gone' = Gone
  BY TablesOfPages DEF Gone
<1>3. \A s \in On(Of(page)) : Alone(flow[s])'
  BY <1>1, <1>2, TablesOfPages DEF Alone
<1>4. Shows => Shows'
  BY <1>2, TablesOfPages DEF Shows
<1> QED BY <1>1, <1>3, <1>4

\* The flow of the slot s is the only one of its page, and moves to f.
LEMMA MovesAlone ==
  ASSUME IInv, NEW s \in Slots, On(Of(page)) \subseteq {s}, page' = page,
         NEW f, Starts(s, f), f.kind # "idle", f.on = Of(page), Alone(f)'
  PROVE  Settled'
<1>1. flow'[s] = f /\ OnlyMoved(s)
  BY DEF Starts, OnlyMoved, IInv, FlowsFit
<1>2. On(Of(page))' = {s}
  BY <1>1 DEF On, Free, OnlyMoved
<1>3. Alone(flow[s])'
  BY <1>1
<1> QED BY <1>2, <1>3 DEF Settled

\* The only flow of the page ends.
LEMMA EndsAlone ==
  ASSUME IInv, NEW s \in Slots, On(Of(page)) \subseteq {s}, page' = page,
         Ends(s), Shows'
  PROVE  Settled'
<1>1. flow'[s].kind = "idle" /\ OnlyMoved(s)
  BY IdleIsFlow DEF Ends, Starts, OnlyMoved, IInv, FlowsFit
<1>2. On(Of(page))' = {}
  BY <1>1 DEF On, Free, OnlyMoved
<1> QED BY <1>2 DEF Settled

\* A flow of another table moves and stays there, or ends.
LEMMA MovesAside ==
  ASSUME IInv, Settled, NEW s \in Slots, s \notin On(Of(page)), page' = page,
         overlapped' = overlapped, NEW f, Starts(s, f),
         f.kind = "idle" \/ f.on # Of(page), table'[Of(page)] = table[Of(page)],
         UNCHANGED <<rows, error, byokOn, hidden>>
  PROVE  Settled'
<1>1. flow'[s] = f /\ OnlyMoved(s)
  BY DEF Starts, OnlyMoved, IInv, FlowsFit
<1>2. On(Of(page))' = On(Of(page))
  BY <1>1 DEF On, Free, OnlyMoved
<1>3. \A t \in On(Of(page)) : flow'[t] = flow[t]
  BY <1>1 DEF On, OnlyMoved
<1> QED BY <1>2, <1>3, Aside

\* The flow of an answer that is handled is the page's, and alone.
LEMMA HandledAlone ==
  ASSUME IInv, Shapes, Settled, ~overlapped, NEW s \in Slots, Here(s)
  PROVE  /\ Shape(flow[s]) /\ flow[s].on = Of(page) /\ flow[s].kind # "idle"
         /\ On(Of(page)) = {s} /\ Alone(flow[s])
<1>1. Shape(flow[s]) /\ flow[s].on = Of(page) /\ flow[s].kind # "idle"
  BY DEF Shapes, Shape, Here, Free
<1>2. s \in On(Of(page))
  BY <1>1 DEF On, Free
<1> QED BY <1>1, <1>2 DEF Settled

\* A new load knows nothing, and hides nothing.
LEMMA MountSettles ==
  ASSUME IInv, NEW s \in Slots, NEW p \in Pages, Mount(s, p)
  PROVE  Settled'
<1> SUFFICES ASSUME ~overlapped' PROVE Settled'
  BY DEF Settled
<1>1. /\ page' = p /\ hidden' = {}
      /\ \A t \in Slots \ {s} : ~(flow'[t].on = Of(p) /\ flow'[t].kind # "idle")
  BY DEF Mount
<1>2. PICK f : f = Load(p)
  OBVIOUS
<1>3. /\ f.kind = "load" /\ ~f.left /\ f.on = Of(p) /\ f.stage = "sent"
      /\ p = "overview" => f.parts = Parts
  BY <1>2, LoadIsFlow, LoadParts
<1>4. flow'[s] = f
  BY <1>2, MountMoves
<1>5. On(Of(page))' = {s}
  BY <1>1, <1>3, <1>4 DEF On, Free
<1>6. Alone(f)'
  BY <1>1, <1>3 DEF Alone, Gone, Parts
<1>7. Alone(flow[s])'
  BY <1>4, <1>6
<1> QED BY <1>5, <1>7 DEF Settled

\* The visitor starts a creation, a deletion, a verification or a load.
LEMMA StartSettles ==
  ASSUME IInv, Settled, NEW s \in Slots,
         Create(s) \/ Refresh(s) \/ \E x \in Ids : Delete(s, x) \/ Verify(s, x)
  PROVE  Settled'
<1> SUFFICES ASSUME ~overlapped' PROVE Settled'
  BY DEF Settled
<1>1. page' = page /\ Of(page) = page /\ On(Of(page)) = {} /\ page # "overview"
  <2>1. page' = page /\ page \in {"api-keys", "providers", "savings"}
    BY DEF Create, Refresh, Delete, Offers, Verify, IInv, ViewTyped, Editable
  <2>2. On(page) = {}
    BY DEF Create, Refresh, Delete, Verify
  <2> QED BY <2>1, <2>2, TablesOfPages
<1>2. CASE Create(s)
  <2>1. PICK f : f = [Idle EXCEPT !.kind = "create", !.step = "act", !.on = page]
    OBVIOUS
  <2>2. f.kind = "create" /\ f.step = "act" /\ f.on = page /\ ~f.left
    BY <2>1 DEF Idle
  <2>3. /\ Starts(s, f) /\ ~overlapped
        /\ UNCHANGED <<table, rows, error, byokOn, hidden>>
    BY <1>2, <2>1 DEF Create
  <2>4. Shows
    BY <1>1, <2>3 DEF Settled
  <2>5. Gone' = Gone
    BY <2>3 DEF Gone
  <2>6. Alone(f)'
    BY <1>1, <2>2, <2>3, <2>4, <2>5 DEF Alone, Shows
  <2> QED BY <1>1, <2>2, <2>3, <2>6, MovesAlone
<1>3. CASE Refresh(s)
  <2>1. PICK p \in Pages : p = page /\ Of(p) = p /\ p # "api-keys"
    BY <1>1, <1>3 DEF Refresh, IInv, ViewTyped
  <2>2. PICK b \in Flow : b = Load(p) /\ b.kind = "load" /\ b.on = p /\ ~b.left
    BY <2>1, LoadIsFlow
  <2>3. ThenList(s, b)
    BY <1>3, <2>1, <2>2 DEF Refresh
  <2>4. PICK f \in Flow : /\ Starts(s, f) /\ f.kind = "load" /\ f.on = p
                          /\ f.stage = "sent" /\ ~f.left
    BY <2>2, <2>3, ThenListIsFlow
  <2>5. Alone(f)'
    BY <1>1, <2>1, <2>4 DEF Alone
  <2> QED BY <1>1, <2>1, <2>4, <2>5, MovesAlone
<1>4. ASSUME NEW x \in Ids, Delete(s, x) PROVE Settled'
  <2>1. PICK f : f = [Idle EXCEPT !.kind = "delete", !.step = "act", !.on = page,
                        !.x = x, !.prev = IF page = "api-keys" THEN rows ELSE Empty]
    OBVIOUS
  <2>2. /\ f.kind = "delete" /\ f.step = "act" /\ f.on = page /\ ~f.left
        /\ f.stage = "sent" /\ f.x = x /\ (page = "api-keys" => f.prev = rows)
    BY <2>1 DEF Idle
  <2>3. /\ Starts(s, f) /\ ~overlapped /\ x \in DOMAIN rows
        /\ UNCHANGED <<table, error, byokOn>>
        /\ page = "api-keys" => rows' = Without(rows, x) /\ hidden' = hidden \cup {x}
    BY <1>4, <2>1 DEF Delete, Offers, AtOnce
  <2>4. Shows
    BY <1>1, <2>3 DEF Settled
  <2>5. Alone(f)'
    <3>1. CASE page # "api-keys"
      BY <1>1, <2>2, <3>1 DEF Alone
    <3>2. CASE page = "api-keys"
      <4>1. PICK v \in RowSet : v = rows
        BY DEF IInv, ViewTyped
      <4>2. DOMAIN rows' = DOMAIN rows \ {x}
        BY <2>3, <3>2, <4>1, WithoutRows
      <4>3. Gone \subseteq DOMAIN rows /\ Gone' \subseteq Gone \cup {x}
        BY <2>3, <2>4, <3>2 DEF Shows, Gone
      <4>4. /\ Gone' \subseteq DOMAIN rows' \cup {x}
            /\ Gone' \subseteq DOMAIN f.prev
        BY <2>2, <2>3, <3>2, <4>2, <4>3
      <4>5. ~error' => rows' = Without(table'[page'], x)
        BY <1>1, <2>3, <2>4, <3>2 DEF Shows
      <4> QED BY <1>1, <2>2, <3>2, <4>4, <4>5 DEF Alone
    <3> QED BY <3>1, <3>2
  <2> QED BY <1>1, <2>2, <2>3, <2>5, MovesAlone
<1>5. ASSUME NEW x \in Ids, Verify(s, x) PROVE Settled'
  <2>1. PICK f : f = [Idle EXCEPT !.kind = "verify", !.step = "act", !.on = page, !.x = x]
    OBVIOUS
  <2>2. f.kind = "verify" /\ f.step = "act" /\ f.on = page /\ ~f.left
    BY <2>1 DEF Idle
  <2>3. Starts(s, f) /\ page = "providers"
    BY <1>5, <2>1 DEF Verify
  <2>4. Alone(f)'
    BY <1>1, <2>2, <2>3 DEF Alone
  <2> QED BY <1>1, <2>2, <2>3, <2>4, MovesAlone
<1> QED BY <1>2, <1>3, <1>4, <1>5

\* A fetch is recorded: the savings page has not got it.
LEMMA FetchSettles ==
  ASSUME IInv, Settled, FetchRecorded
  PROVE  Settled'
<1> SUFFICES ASSUME ~overlapped' PROVE Settled'
  BY DEF Settled
<1>1. page # "savings" /\ overlapped' = overlapped
  BY DEF FetchRecorded, IInv, HistTyped
<1>2. table'[Of(page)] = table[Of(page)]
  BY <1>1, TablesOfPages DEF FetchRecorded, IInv, TableTyped, ViewTyped
<1>3. UNCHANGED <<page, flow, rows, error, byokOn, hidden>>
  BY DEF FetchRecorded, view
<1> QED BY <1>1, <1>2, <1>3, Aside DEF On, Free

\* The server handles a change: a revoked key is out of sight already, and a
\* new one was never taken off.
LEMMA ChangeSettles ==
  ASSUME IInv, Shapes, Settled, NEW s \in Slots, ServeChange(s)
  PROVE  Settled'
<1> SUFFICES ASSUME ~overlapped' PROVE Settled'
  BY DEF Settled
<1> DEFINE f == flow[s]
<1>1. /\ UNCHANGED <<page, rows, error, byokOn, overlapped, hidden>>
      /\ f.kind # "idle" /\ f.step = "act" /\ f.stage = "sent"
  BY DEF ServeChange, view, Free
<1>2. PICK g : /\ Starts(s, g) /\ StaysAt(f, g)
               /\ g = Idle \/ g.stage \in {"ok", "failed"}
               /\ g # Idle /\ g.stage = "ok" /\ f.kind # "create" =>
                    f.x \in DOMAIN table[f.on]
  BY Changed
<1>3. table \in [Tables -> RowSet] /\ Of(page) \in Tables /\ f.on \in Tables
  BY TablesOfPages DEF IInv, TableTyped, ViewTyped, FlowsFit, Flow
<1>4. \/ table' = table
      \/ /\ f.kind = "create"
         /\ table' = [table EXCEPT ![f.on] = With(table[f.on], made + 1, "active")]
      \/ /\ f.kind = "delete" /\ f.x \in DOMAIN table[f.on]
         /\ table' = [table EXCEPT ![f.on] = Without(table[f.on], f.x)]
      \/ /\ f.kind \notin {"create", "delete"}
         /\ \E st \in Statuses :
              table' = [table EXCEPT ![f.on] = With(table[f.on], f.x, st)]
  BY DEF ServeChange
<1>5. f.kind = "delete" /\ f.x \in DOMAIN table[f.on] =>
        table' = [table EXCEPT ![f.on] = Without(table[f.on], f.x)]
  BY DEF ServeChange
<1>6. CASE s \notin On(Of(page))
  <2>1. f.on # Of(page)
    BY <1>1, <1>6 DEF On, Free
  <2>2. table'[Of(page)] = table[Of(page)]
    BY <1>3, <1>4, <2>1
  <2>3. g.kind = "idle" \/ g.on # Of(page)
    BY <1>2, <2>1, IdleIsFlow DEF StaysAt
  <2> QED BY <1>1, <1>2, <1>6, <2>2, <2>3, MovesAside
<1>7. CASE s \in On(Of(page))
  <2>1. /\ On(Of(page)) = {s} /\ Alone(f) /\ ~f.left /\ f.on = Of(page)
        /\ Shape(f)
    BY <1>1, <1>7 DEF Settled, On, Alone, Shapes
  <2>2. /\ g.kind = f.kind /\ g.step = "act" /\ g.on = Of(page) /\ g.prev = f.prev
        /\ ~g.left /\ g.stage \in {"ok", "failed"} /\ g # Idle
    BY <1>1, <1>2, <2>1, IdleIsFlow DEF StaysAt
  <2>3. page \in Editable /\ (f.kind = "verify" => page = "providers")
        /\ f.kind # "load"
    BY <1>1, <2>1 DEF Shape
  <2>4. CASE page # "api-keys"
    <3>1. Alone(g)'
      BY <1>1, <2>2, <2>3, <2>4 DEF Alone, Editable
    <3> QED BY <1>1, <1>2, <2>1, <2>2, <3>1, MovesAlone
  <2>5. CASE page = "api-keys"
    <3>0. f.on = "api-keys" /\ f.kind \in {"create", "delete"}
      BY <1>1, <2>1, <2>3, <2>5, TablesOfPages DEF IInv, FlowsFit, Flow
    <3>1. Gone' \subseteq Gone
      <4>1. CASE f.kind = "create"
        <5>1. DOMAIN table'["api-keys"] \subseteq DOMAIN table["api-keys"] \cup {made + 1}
          BY <1>3, <1>4, <3>0, <4>1 DEF With
        <5>2. made + 1 \notin hidden
          BY MadeIsNat DEF IInv, HistTyped
        <5> QED BY <1>1, <5>1, <5>2 DEF Gone
      <4>2. CASE f.kind = "delete"
        <5>1. DOMAIN table'["api-keys"] \subseteq DOMAIN table["api-keys"]
          BY <1>3, <1>4, <3>0, <4>2 DEF Without
        <5> QED BY <1>1, <5>1 DEF Gone
      <4> QED BY <3>0, <4>1, <4>2
    <3>2. ASSUME f.kind = "delete", g.stage = "ok"
          PROVE  /\ ~error' => rows' = table'["api-keys"]
                 /\ Gone' \subseteq DOMAIN rows'
      <4>1. table'["api-keys"] = Without(table["api-keys"], f.x)
        BY <1>2, <1>3, <1>5, <2>2, <3>0, <3>2
      <4>2. f.x \notin DOMAIN table'["api-keys"]
        BY <4>1 DEF Without
      <4>3. /\ ~error => rows = Without(table["api-keys"], f.x)
            /\ Gone \subseteq DOMAIN rows \cup {f.x}
        BY <1>1, <2>1, <2>5, <3>2 DEF Alone
      <4> QED BY <1>1, <3>1, <4>1, <4>2, <4>3 DEF Gone
    <3>3. f.kind = "delete" => Gone' \subseteq DOMAIN g.prev
      BY <2>1, <2>2, <2>5, <3>1 DEF Alone
    <3>4. f.kind = "create" => Gone' \subseteq DOMAIN rows'
      BY <1>1, <2>1, <2>5, <3>1 DEF Alone
    <3>5. Alone(g)'
      BY <1>1, <2>2, <2>5, <3>0, <3>2, <3>3, <3>4 DEF Alone
    <3> QED BY <1>1, <1>2, <2>1, <2>2, <3>5, MovesAlone
  <2> QED BY <2>4, <2>5
<1> QED BY <1>6, <1>7

\* The server reads the list.
LEMMA ListSettles ==
  ASSUME IInv, Shapes, Settled, NEW s \in Slots, ServeList(s)
  PROVE  Settled'
<1> SUFFICES ASSUME ~overlapped' PROVE Settled'
  BY DEF Settled
<1> DEFINE f == flow[s]
<1>1. /\ UNCHANGED <<table, page, rows, error, byokOn, overlapped, hidden>>
      /\ f.kind # "idle" /\ f.step = "list"
  BY DEF ServeList, view, Free
<1>2. PICK g : /\ Starts(s, g) /\ g.kind = f.kind /\ g.step = "list"
               /\ g.on = f.on /\ g.parts = f.parts
               /\ g.left = f.left /\ g.stage = "ok" /\ g.got = table[f.on]
  BY Listed
<1>3. CASE s \notin On(Of(page))
  <2>1. f.on # Of(page)
    BY <1>1, <1>3 DEF On, Free
  <2> QED BY <1>1, <1>2, <1>3, <2>1, MovesAside
<1>4. CASE s \in On(Of(page))
  <2>1. /\ On(Of(page)) = {s} /\ Alone(f) /\ ~f.left /\ f.on = Of(page)
        /\ Shape(f)
    BY <1>1, <1>4 DEF Settled, On, Alone, Shapes
  <2>2. page = "api-keys" => f.kind # "delete"
    BY <1>1, <2>1 DEF Shape
  <2>3. Gone' = Gone
    BY <1>1 DEF Gone
  <2>4. Alone(g)'
    BY <1>1, <1>2, <2>1, <2>2, <2>3 DEF Alone
  <2> QED BY <1>1, <1>2, <2>1, <2>4, MovesAlone
<1> QED BY <1>3, <1>4

\* A request, or its answer, is lost.
LEMMA LoseSettles ==
  ASSUME IInv, Shapes, Settled, NEW s \in Slots, Lose(s)
  PROVE  Settled'
<1> SUFFICES ASSUME ~overlapped' PROVE Settled'
  BY DEF Settled
<1> DEFINE f == flow[s]
<1>1. /\ UNCHANGED <<table, page, rows, error, byokOn, overlapped, hidden>>
      /\ f.kind # "idle"
  BY DEF Lose, view, Free
<1>2. PICK g : /\ Starts(s, g) /\ StaysAt(f, g) /\ f.parts = {}
               /\ g = Idle \/ g.stage = "failed"
  BY Lost
<1>3. CASE s \notin On(Of(page))
  <2>1. f.on # Of(page)
    BY <1>1, <1>3 DEF On, Free
  <2>2. g.kind = "idle" \/ g.on # Of(page)
    BY <1>2, <2>1, IdleIsFlow DEF StaysAt
  <2> QED BY <1>1, <1>2, <1>3, <2>2, MovesAside
<1>4. CASE s \in On(Of(page))
  <2>1. /\ On(Of(page)) = {s} /\ Alone(f) /\ ~f.left /\ f.on = Of(page)
        /\ Shape(f)
    BY <1>1, <1>4 DEF Settled, On, Alone, Shapes
  <2>2. /\ g.kind = f.kind /\ g.on = Of(page) /\ g.prev = f.prev /\ ~g.left
        /\ g.stage = "failed" /\ page # "overview"
    BY <1>1, <1>2, <2>1, IdleIsFlow DEF StaysAt, Shape
  <2>3. Gone' = Gone
    BY <1>1 DEF Gone
  <2>4. Alone(g)'
    BY <1>1, <2>1, <2>2, <2>3 DEF Alone
  <2> QED BY <1>1, <1>2, <2>1, <2>2, <2>4, MovesAlone
<1> QED BY <1>3, <1>4

\* The rest of a creation: its list is loaded, or it failed with an error.
LEMMA CreatedSettles ==
  ASSUME IInv, Shapes, Settled, NEW s \in Slots, ReceiveCreate(s)
  PROVE  Settled'
<1> SUFFICES ASSUME ~overlapped' PROVE Settled'
  BY DEF Settled
<1> DEFINE f == flow[s]
<1>1. /\ UNCHANGED <<table, page, rows, byokOn, overlapped, hidden>>
      /\ f.kind = "create" /\ Here(s) /\ f \in Flow
  BY DEF ReceiveCreate, Answered, IInv, FlowsFit
<1>2. /\ Shape(f) /\ f.on = Of(page) /\ On(Of(page)) = {s} /\ Alone(f)
  BY <1>1, HandledAlone
<1>3. page # "overview" /\ (page = "api-keys" => Gone \subseteq DOMAIN rows) /\ Gone' = Gone
  BY <1>1, <1>2 DEF Shape, Editable, Here, Free, Alone, Gone
<1>4. CASE f.stage = "ok"
  <2>1. ThenList(s, f)
    BY <1>4 DEF ReceiveCreate
  <2>2. PICK g \in Flow : /\ Starts(s, g) /\ g.kind = "create" /\ g.on = Of(page)
                          /\ g.left = f.left /\ g.stage = "sent"
    BY <1>1, <1>2, <2>1, ThenListIsFlow
  <2>3. Alone(g)'
    BY <1>1, <1>2, <1>3, <2>2 DEF Alone
  <2> QED BY <1>1, <1>2, <2>2, <2>3, MovesAlone
<1>5. CASE f.stage # "ok"
  <2>1. Ends(s) /\ error'
    BY <1>5 DEF ReceiveCreate
  <2>2. Shows'
    BY <1>1, <1>3, <2>1 DEF Shows
  <2> QED BY <1>1, <1>2, <2>1, <2>2, EndsAlone
<1> QED BY <1>4, <1>5

\* The rest of a revocation or a verification: the rows of the click are right,
\* or are put back, or the list is loaded.
LEMMA ChangedSettles ==
  ASSUME IInv, Shapes, Settled, NEW s \in Slots, ReceiveChange(s)
  PROVE  Settled'
<1> SUFFICES ASSUME ~overlapped' PROVE Settled'
  BY DEF Settled
<1> DEFINE f == flow[s]
<1>1. /\ UNCHANGED <<table, page, byokOn, overlapped, hidden>>
      /\ f.kind \in {"delete", "verify"} /\ Here(s) /\ f \in Flow
  BY DEF ReceiveChange, Answered, IInv, FlowsFit
<1>2. /\ Shape(f) /\ f.on = Of(page) /\ On(Of(page)) = {s} /\ Alone(f)
      /\ page \in Editable /\ (f.kind = "verify" => page = "providers")
  BY <1>1, HandledAlone DEF Shape, Here
<1>3. Gone' = Gone
  BY <1>1 DEF Gone
<1>4. CASE f.stage = "ok" /\ page = "providers"
  <2>1. ThenList(s, f)
    BY <1>4 DEF ReceiveChange
  <2>2. PICK g \in Flow : /\ Starts(s, g) /\ g.kind = f.kind /\ g.on = Of(page)
                          /\ g.left = f.left /\ g.stage = "sent"
    BY <1>1, <1>2, <2>1, ThenListIsFlow
  <2>3. Alone(g)'
    BY <1>1, <1>2, <1>4, <2>2 DEF Alone
  <2> QED BY <1>1, <1>2, <2>2, <2>3, MovesAlone
<1>5. CASE f.stage = "ok" /\ page # "providers"
  <2>1. Ends(s) /\ UNCHANGED <<rows, error>>
    BY <1>5 DEF ReceiveChange
  <2>2. page = "api-keys" /\ f.kind = "delete" /\ Of(page) = page
    BY <1>1, <1>2, <1>5, TablesOfPages DEF Editable
  <2>3. Shows'
    BY <1>1, <1>2, <1>3, <1>5, <2>1, <2>2 DEF Alone, Shows, ShowsCapabilities
  <2> QED BY <1>1, <1>2, <2>1, <2>3, EndsAlone
<1>6. CASE f.stage # "ok"
  <2>1. Ends(s) /\ error' /\ (page = "api-keys" => rows' = f.prev)
    BY <1>6 DEF ReceiveChange, RolledBack
  <2>2. Shows'
    BY <1>1, <1>2, <1>3, <2>1 DEF Alone, Shows
  <2> QED BY <1>1, <1>2, <2>1, <2>2, EndsAlone
<1> QED BY <1>4, <1>5, <1>6

\* The rest of a load: the list that was read is what is shown.
LEMMA LoadedSettles ==
  ASSUME IInv, Shapes, Settled, NEW s \in Slots, ReceiveList(s)
  PROVE  Settled'
<1> SUFFICES ASSUME ~overlapped' PROVE Settled'
  BY DEF Settled
<1> DEFINE f == flow[s]
<1>1. /\ UNCHANGED <<table, page, overlapped, hidden>> /\ Ends(s)
      /\ f.step = "list" /\ f.parts = {} /\ Here(s)
  BY DEF ReceiveList, ListDone, Answered
<1>2. /\ Shape(f) /\ On(Of(page)) = {s} /\ Alone(f)
      /\ (page = "api-keys" => f.kind # "delete")
  BY <1>1, HandledAlone DEF Shape, Here
<1>3. Gone' = Gone
  BY <1>1 DEF Gone
<1>4. CASE f.stage = "ok"
  <2>1. rows' = table[Of(page)] /\ (page \in ShowsCapabilities => byokOn' = Byok)
    BY <1>1, <1>2, <1>4 DEF ReceiveList, Alone
  <2>2. page = "api-keys" => Gone' \subseteq DOMAIN rows'
    BY <1>3, <2>1, TablesOfPages DEF Gone
  <2>3. Shows'
    BY <1>1, <2>1, <2>2 DEF Shows
  <2> QED BY <1>1, <1>2, <2>3, EndsAlone
<1>5. CASE f.stage # "ok"
  <2>1. error' /\ rows' = rows
    BY <1>5 DEF ReceiveList
  <2>2. Shows'
    BY <1>1, <1>2, <1>3, <2>1 DEF Alone, Shows
  <2> QED BY <1>1, <1>2, <2>2, EndsAlone
<1> QED BY <1>4, <1>5

\* A part of the overview arrives: the keys and the capabilities are the
\* server's from then on.
LEMMA PartSettles ==
  ASSUME IInv, Shapes, Settled, NEW s \in Slots, NEW part \in Parts, NEW ok \in BOOLEAN,
         ReceivePart(s, part, ok)
  PROVE  Settled'
<1> SUFFICES ASSUME ~overlapped' PROVE Settled'
  BY DEF Settled
<1> DEFINE f == flow[s]
<1>1. /\ UNCHANGED <<table, page, hidden>> /\ ~overlapped /\ (part = "usage" \/ ok)
      /\ f.step = "list" /\ f.stage # "sent" /\ part \in f.parts /\ Here(s)
      /\ rows' = IF part # "keys" THEN rows ELSE IF ok THEN f.got ELSE Empty
      /\ byokOn' = IF part = "caps" THEN ok /\ Byok ELSE byokOn
  BY DEF ReceivePart, Answered
<1>2. /\ Shape(f) /\ f.on = Of(page) /\ f.kind # "idle" /\ On(Of(page)) = {s} /\ Alone(f)
      /\ page = "overview" /\ f.stage # "failed" /\ f \in Flow
  BY <1>1, HandledAlone DEF Shape, Here, IInv, FlowsFit
<1>3. f.stage = "ok" /\ f.got = table[Of(page)]
  BY <1>1, <1>2 DEF Alone, Flow
<1>4. /\ "keys" \notin f.parts \ {part} => rows' = table[Of(page)]
      /\ "caps" \notin f.parts \ {part} => byokOn' = Byok
  BY <1>1, <1>2, <1>3, ConsoleAssumption DEF Alone
<1>5. CASE Ends(s) /\ f.parts = {part}
  <2>1. Shows'
    BY <1>1, <1>2, <1>4, <1>5 DEF Shows
  <2> QED BY <1>1, <1>2, <1>5, <2>1, EndsAlone
<1>6. CASE ~(Ends(s) /\ f.parts = {part})
  <2>1. PICK g : /\ Starts(s, g) /\ g.kind = f.kind /\ g.on = f.on /\ g.left = f.left
                 /\ g.stage = f.stage /\ g.got = f.got /\ g.parts = f.parts \ {part}
    BY <1>6, PartTaken
  <2>2. Alone(g)'
    BY <1>1, <1>2, <1>3, <1>4, <2>1 DEF Alone
  <2> QED BY <1>1, <1>2, <2>1, <2>2, MovesAlone
<1> QED BY <1>5, <1>6

\* At first the page loads; every step keeps it settled.
LEMMA SettledInduction ==
  /\ Init => Settled
  /\ IInv /\ Shapes /\ Settled /\ [Next]_vars => Settled'
<1>1. ASSUME Init PROVE Settled
  <2>0. page \in Pages /\ hidden = {}
    BY <1>1 DEF Init
  <2>1. PICK s \in Slots : flow = [t \in Slots |-> IF t = s THEN Load(page) ELSE Idle]
    BY <1>1 DEF Init
  <2>2. PICK f : f = Load(page)
    OBVIOUS
  <2>3. /\ f.kind = "load" /\ ~f.left /\ f.on = Of(page) /\ f.stage = "sent"
        /\ page = "overview" => f.parts = Parts
    BY <2>0, <2>2, LoadIsFlow, LoadParts
  <2>4. On(Of(page)) = {s}
    BY <2>1, <2>2, <2>3, IdleIsFlow DEF On, Free
  <2>5. Alone(f)
    BY <2>0, <2>3 DEF Alone, Gone, Parts
  <2>6. flow[s] = f
    BY <2>1, <2>2
  <2> QED BY <2>4, <2>5, <2>6 DEF Settled
<1>2. ASSUME IInv, Shapes, Settled, [Next]_vars PROVE Settled'
  <2>1. CASE OpenDialog \/ CloseDialog \/ Dismiss \/ UNCHANGED vars
    <3>1. UNCHANGED <<table, page, rows, error, byokOn, flow, overlapped, hidden>>
      BY <2>1 DEF OpenDialog, CloseDialog, Dismiss, vars, view
    <3> QED BY <1>2, <3>1, Aside DEF On, Free
  <2>2. ASSUME NEW s \in Slots, Visit(s) PROVE Settled'
    BY <1>2, <2>2, MountSettles, StartSettles DEF Visit
  <2>3. ASSUME NEW s \in Slots, Receive(s) PROVE Settled'
    BY <1>2, <2>3, CreatedSettles, ChangedSettles, LoadedSettles, PartSettles DEF Receive
  <2> QED BY <1>2, <2>1, <2>2, <2>3, FetchSettles, ChangeSettles, ListSettles,
             LoseSettles DEF Next
<1> QED BY <1>1, <1>2

\* A page whose flows did not overlap is settled in every reachable state.
THEOREM AlwaysSettled == Spec => []Settled
BY Invariance, FlowsOfThePage, SettledInduction, PTL DEF Spec

\* A page that waits for nothing shows what the server has, whatever was
\* created, revoked and verified, here and from pages left before; and the
\* checklist is gone from the overview exactly when its items pass.
THEOREM QuietAlwaysTrue == Spec => []QuietMeansTrue
<1>1. Settled => QuietMeansTrue
  <2> SUFFICES ASSUME Shows
               PROVE  ~error =>
                        /\ rows = table[Of(page)]
                        /\ page \in ShowsCapabilities => byokOn = Byok
                        /\ page = "overview" =>
                             (ChecklistIncomplete <=> ~Byok \/ table["api-keys"] = Empty)
    BY DEF Settled, QuietMeansTrue
  <2>1. page = "overview" => page \in ShowsCapabilities
    BY DEF ShowsCapabilities, Pages, Editable
  <2> QED BY <2>1, TablesOfPages DEF Shows, ChecklistIncomplete
<1> QED BY <1>1, AlwaysSettled, PTL

\* A key that a click took off the page is revoked, or back on the page.
THEOREM HiddenAlwaysGone == Spec => []HiddenIsGone
<1>1. Settled => HiddenIsGone
  BY TablesOfPages DEF Settled, HiddenIsGone, Shows, Gone
<1> QED BY <1>1, AlwaysSettled, PTL
=============================================================================
