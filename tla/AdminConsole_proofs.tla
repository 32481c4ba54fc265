------------------------- MODULE AdminConsole_proofs -------------------------
(***************************************************************************)
(* AdminConsole for any lists, pages, stored values and any number of      *)
(* requests in flight.                                                     *)
(***************************************************************************)
EXTENDS AdminConsole, FiniteSetTheorems, TLAPS

\* The parts of TypeOK that steps change together.
QueryTyped ==
  /\ exists \in [Lists -> SUBSET Items]
  /\ tab \in Tabs /\ hosted \in BOOLEAN
  /\ filter \in [Lists -> Filters] /\ offset \in [Lists -> Nat]
  /\ overlapped \subseteq Lists

EntryTyped ==
  /\ token \in Credentials /\ authed \in BOOLEAN
  /\ gate \in Slots \cup {NoSlot} /\ late \in BOOLEAN

ShownTyped ==
  /\ rows \in [Lists -> SUBSET Items] /\ total \in [Lists -> Nat]
  /\ loading \in [Panels -> BOOLEAN] /\ error \in [Panels -> BOOLEAN]

Typed == QueryTyped /\ EntryTyped /\ ShownTyped /\ req \in [Slots -> Request]

\* The server's verdict follows the credential that the request carries, and a
\* deletion is of a row of a list.
Judged(q) ==
  q.kind # "idle" =>
    /\ q.stage = "ok" => q.cred = Secret
    /\ q.stage = "refused" => q.cred # Secret
    /\ q.kind = "delete" => q.panel \in Lists

\* A verification that the page waits for is the gate's, of the stored token.
AtGate(r, q) ==
  q.kind = "verify" /\ ~q.old =>
    /\ gate = r /\ ~authed
    /\ late \/ token = q.cred \/ q.cred # Secret

\* Nothing is shown, or will be, to a token that was taken for a verified one
\* and is not.
Unproven == ~late /\ authed /\ token # Secret

Vain(q) == q.kind = "load" /\ ~q.old => q.cred # Secret

Verdicts == \A r \in Slots : Judged(req[r])
Gated == \A r \in Slots : AtGate(r, req[r])
Empty == Unproven => \A l \in Lists : rows[l] = {}
InVain == Unproven => \A r \in Slots : Vain(req[r])

IInv == Typed /\ Verdicts /\ Gated /\ SpinnerIsAWait /\ Empty /\ InVain

\* The parts of Typed are those of TypeOK.
LEMMA TypedIsTypeOK == Typed <=> TypeOK
BY DEF Typed, QueryTyped, EntryTyped, ShownTyped, TypeOK

-----------------------------------------------------------------------------
\* Requests.

OnlyMoved(r) == \A t \in Slots \ {r} : req'[t] = req[t]

\* Changing one slot changes no other.
LEMMA Moved ==
  ASSUME req \in [Slots -> Request], NEW r \in Slots, NEW q \in Request,
         req' = [req EXCEPT ![r] = q]
  PROVE  req' \in [Slots -> Request] /\ OnlyMoved(r) /\ req'[r] = q
BY DEF OnlyMoved

\* The names the console uses for its panels, lists and tokens.
LEMMA SomePanels ==
  /\ "overview" \in Panels /\ Lists \subseteq Panels /\ Lists \subseteq Tabs
  /\ "all" \in Filters /\ NoToken \in Credentials /\ Secret \in Credentials
  /\ NoToken # Secret /\ Panels \subseteq Tabs /\ "overview" \notin Lists
BY AdminAssumption DEF Panels, Lists, Filters, Credentials

\* A free slot is a request that asks nothing.
LEMMA IdleIsRequest ==
  /\ Idle \in Request /\ Idle.kind = "idle" /\ ~Idle.old /\ Idle.stage = "sent"
BY SomePanels DEF Idle, Request

\* What is sent to fill a panel.
LEMMA LoadIsRequest ==
  ASSUME NEW p \in Panels, NEW f \in Filters, NEW o \in Nat, NEW tok \in Credentials
  PROVE  /\ LoadOf(p, f, o, tok) \in Request
         /\ LoadOf(p, f, o, tok).kind = "load" /\ LoadOf(p, f, o, tok).panel = p
         /\ LoadOf(p, f, o, tok).cred = tok /\ LoadOf(p, f, o, tok).stage = "sent"
         /\ ~LoadOf(p, f, o, tok).old
BY DEF LoadOf, Idle, Request

\* A filtered page of the server's rows is a set of its rows.
LEMMA PageTyped ==
  ASSUME NEW S \in SUBSET Items, NEW f \in Filters, NEW o
  PROVE  /\ Matching(S, f) \in SUBSET Items
         /\ Page(Matching(S, f), o) \in SUBSET Items
         /\ Cardinality(Matching(S, f)) \in Nat
<1>1. Matching(S, f) \in SUBSET Items
  BY DEF Matching
<1>2. IsFiniteSet(Matching(S, f))
  BY <1>1, AdminAssumption, FS_Subset
<1>3. Cardinality(Matching(S, f)) \in Nat
  BY <1>2, FS_CardinalityType
<1> QED BY <1>1, <1>3 DEF Page

-----------------------------------------------------------------------------
\* Steps that touch neither requests nor what is shown.
LEMMA Quiet ==
  ASSUME IInv, QueryTyped',
         UNCHANGED <<entry, shown, loading, error, req, late>>
  PROVE  IInv'
<1> USE DEF entry, shown
<1>1. Typed'
  BY DEF IInv, Typed, EntryTyped, ShownTyped
<1>2. Verdicts' /\ Gated'
  BY DEF IInv, Verdicts, Judged, Gated, AtGate
<1>3. SpinnerIsAWait'
  BY DEF IInv, SpinnerIsAWait
<1>4. Empty' /\ InVain'
  BY DEF IInv, Empty, InVain, Vain, Unproven
<1> QED BY <1>1, <1>2, <1>3, <1>4 DEF IInv

\* A load is sent with the stored token, by a slot nothing waits for, or in
\* place of a deletion that was answered.
LEMMA LoadStarts ==
  ASSUME IInv, NEW r \in Slots, req[r].kind \in {"idle", "delete"},
         NEW p \in Panels, NEW f \in Filters, NEW o \in Nat,
         StartLoad(r, p, f, o, token),
         QueryTyped', UNCHANGED <<entry, shown, late>>
  PROVE  IInv'
<1> USE DEF entry, shown
<1>p. Typed /\ Verdicts /\ Gated /\ SpinnerIsAWait /\ Empty /\ InVain
  BY DEF IInv
<1>0. PICK tok \in Credentials : tok = token
  BY <1>p DEF Typed, EntryTyped
<1> DEFINE q == LoadOf(p, f, o, tok)
<1>1. /\ q \in Request /\ q.kind = "load" /\ q.panel = p /\ q.cred = token
      /\ q.stage = "sent" /\ ~q.old
  BY <1>0, LoadIsRequest
<1>2. /\ req' = [req EXCEPT ![r] = q]
      /\ loading' = [loading EXCEPT ![p] = TRUE] /\ error' = [error EXCEPT ![p] = FALSE]
  BY <1>0 DEF StartLoad
<1> HIDE DEF q
<1>3. req' \in [Slots -> Request] /\ OnlyMoved(r) /\ req'[r] = q
  BY <1>p, <1>1, <1>2, Moved DEF Typed
<1>4. Typed'
  BY <1>p, <1>2, <1>3 DEF Typed, EntryTyped, ShownTyped
<1>5. Verdicts'
  BY <1>p, <1>1, <1>3 DEF Verdicts, Judged, OnlyMoved
<1>6. Gated'
  BY <1>p, <1>1, <1>3 DEF Gated, AtGate, OnlyMoved
<1>7. SpinnerIsAWait'
  <2>1. ASSUME NEW pp \in Panels, loading'[pp]
        PROVE  \E t \in Slots : req'[t].kind = "load" /\ req'[t].panel = pp /\ ~req'[t].old
    <3>1. CASE pp = p
      BY <1>1, <1>3, <3>1
    <3>2. CASE pp # p
      <4>1. PICK t \in Slots : req[t].kind = "load" /\ req[t].panel = pp /\ ~req[t].old
        BY <1>p, <1>2, <2>1, <3>2 DEF SpinnerIsAWait, Typed, ShownTyped
      <4> QED BY <4>1, <1>3 DEF OnlyMoved
    <3> QED BY <3>1, <3>2
  <2>2. gate # NoSlot => req'[gate].kind = "verify" /\ ~req'[gate].old
    BY <1>p, <1>3 DEF SpinnerIsAWait, OnlyMoved, Typed, EntryTyped
  <2> QED BY <2>1, <2>2 DEF SpinnerIsAWait
<1>8. Empty'
  BY <1>p DEF Empty, Unproven
<1>9. InVain'
  BY <1>p, <1>1, <1>3 DEF InVain, Unproven, Vain, OnlyMoved
<1> QED BY <1>4, <1>5, <1>6, <1>7, <1>8, <1>9 DEF IInv

\* The effects of a change of the tab or of the query.
LEMMA EffectRuns ==
  ASSUME IInv, NEW r \in Slots, NEW t \in Tabs, Effect(r, t, token),
         QueryTyped', UNCHANGED <<entry, shown, late>>
  PROVE  IInv'
<1>1. Free(r)
  BY DEF Effect
<1>2. CASE t \in Lists
  <2>1. PICK f \in Filters, o \in Nat : f = filter'[t] /\ o = offset'[t]
    BY <1>2 DEF QueryTyped
  <2>2. StartLoad(r, t, f, o, token)
    BY <1>2, <2>1 DEF Effect
  <2> QED BY <1>1, <1>2, <2>2, LoadStarts, SomePanels DEF Free
<1>3. CASE t \notin Lists /\ t = "overview"
  <2>1. StartLoad(r, t, "all", 0, token)
    BY <1>3 DEF Effect
  <2> QED BY <1>1, <1>3, <2>1, LoadStarts, SomePanels DEF Free
<1>4. CASE t \notin Lists /\ t # "overview"
  BY <1>4, Quiet DEF Effect
<1> QED BY <1>2, <1>3, <1>4

\* Only lists are ever marked as asked twice at once.
LEMMA OverlapTyped ==
  ASSUME IInv, NEW l, Overlap(l)
  PROVE  overlapped' \subseteq Lists
BY DEF IInv, Typed, QueryTyped, Overlap

-----------------------------------------------------------------------------
\* The operator, as far as loads are concerned.

\* Opening a tab sends its load at most.
LEMMA OpenTabStep ==
  ASSUME IInv, NEW r \in Slots, NEW t \in Tabs, OpenTab(r, t)
  PROVE  IInv'
<1>1. QueryTyped'
  BY OverlapTyped DEF OpenTab, IInv, Typed, QueryTyped, query
<1> QED BY <1>1, EffectRuns DEF OpenTab

\* 'Refresh' sends the load of the tab again.
LEMMA RefreshStep ==
  ASSUME IInv, NEW r \in Slots, Refresh(r)
  PROVE  IInv'
<1>1. QueryTyped'
  BY OverlapTyped DEF Refresh, IInv, Typed, QueryTyped, query
<1>2. tab \in Tabs
  BY DEF IInv, Typed, QueryTyped
<1>3. PICK t \in Tabs : t = tab
  BY <1>2
<1>4. Effect(r, t, token)
  BY <1>3 DEF Refresh
<1> QED BY <1>1, <1>4, EffectRuns DEF Refresh

\* Asking a list for a filter and a page.
LEMMA AskStep ==
  ASSUME IInv, NEW r \in Slots, NEW l \in Lists, NEW f \in Filters, NEW o \in Nat,
         Ask(r, l, f, o)
  PROVE  IInv'
<1>1. filter' \in [Lists -> Filters] /\ offset' \in [Lists -> Nat]
  BY DEF Ask, IInv, Typed, QueryTyped
<1>2. CASE <<f, o>> = <<filter[l], offset[l]>>
  <2>1. UNCHANGED <<req, loading, error, overlapped>>
    BY <1>2 DEF Ask
  <2> QED BY <1>1, <2>1, Quiet DEF Ask, IInv, Typed, QueryTyped
<1>3. CASE <<f, o>> # <<filter[l], offset[l]>>
  <2>1. Overlap(l) /\ Effect(r, l, token)
    BY <1>3 DEF Ask
  <2>2. QueryTyped'
    BY <1>1, <2>1, OverlapTyped DEF Ask, IInv, Typed, QueryTyped
  <2> QED BY <2>1, <2>2, EffectRuns, SomePanels DEF Ask
<1> QED BY <1>2, <1>3

\* Search, next page and previous page ask a list.
LEMMA AskSteps ==
  ASSUME IInv, NEW r \in Slots,
         (\E f \in Filters : Search(r, f)) \/ NextPage(r) \/ PrevPage(r)
  PROVE  IInv'
<1>1. /\ PageSize \in Nat
      /\ \A l \in Lists : offset[l] \in Nat /\ filter[l] \in Filters
  BY AdminAssumption DEF IInv, Typed, QueryTyped
<1>2. PICK l \in Lists : l = tab
  BY DEF Search, NextPage, PrevPage
<1>3. PICK g \in Filters, o \in Nat : g = filter[l] /\ o = offset[l]
  BY <1>1
<1>4. ASSUME NEW f \in Filters, Search(r, f) PROVE IInv'
  <2>1. Ask(r, l, f, 0)
    BY <1>2, <1>4 DEF Search
  <2> QED BY <2>1, AskStep
<1>5. CASE NextPage(r)
  <2>1. PICK n \in Nat : n = o + PageSize
    BY <1>1
  <2>2. Ask(r, l, g, n)
    BY <1>2, <1>3, <1>5, <2>1 DEF NextPage
  <2> QED BY <2>2, AskStep
<1>6. CASE PrevPage(r)
  <2>1. PICK n \in Nat : n = (IF o > PageSize THEN o - PageSize ELSE 0)
    BY <1>1
  <2>2. Ask(r, l, g, n)
    BY <1>2, <1>3, <1>6, <2>1 DEF PrevPage
  <2> QED BY <2>2, AskStep
<1> QED BY <1>4, <1>5, <1>6

\* The capabilities arrive: the server is a hosted one.
LEMMA CapabilitiesStep ==
  ASSUME IInv, NEW r \in Slots, CapabilitiesAnswer(r)
  PROVE  IInv'
<1>1. QueryTyped'
  BY SomePanels DEF CapabilitiesAnswer, IInv, Typed, QueryTyped, query
<1>2. UNCHANGED <<entry, shown, late>>
  BY DEF CapabilitiesAnswer
<1>3. CASE tab = "billing" /\ authed
  <2>1. Effect(r, "overview", token)
    BY <1>3 DEF CapabilitiesAnswer
  <2> QED BY <1>1, <1>2, <2>1, EffectRuns, SomePanels
<1>4. CASE ~(tab = "billing" /\ authed)
  BY <1>1, <1>2, <1>4, Quiet DEF CapabilitiesAnswer
<1> QED BY <1>3, <1>4

-----------------------------------------------------------------------------
\* The operator, at the gate.

\* The operator submits a token.
LEMMA SubmitStep ==
  ASSUME IInv, NEW r \in Slots, NEW tok \in Credentials, Submit(r, tok)
  PROVE  IInv'
<1>p. Typed /\ Verdicts /\ Gated /\ SpinnerIsAWait
  BY DEF IInv
<1> DEFINE q == [Idle EXCEPT !.kind = "verify", !.cred = tok]
<1>1. /\ q \in Request /\ q.kind = "verify" /\ q.cred = tok /\ q.stage = "sent" /\ ~q.old
  BY IdleIsRequest DEF Request
<1>2. /\ ~authed /\ gate = NoSlot /\ req[r].kind = "idle"
      /\ token' = tok /\ gate' = r /\ req' = [req EXCEPT ![r] = q]
      /\ UNCHANGED <<exists, authed, tab, hosted, filter, offset, rows, total,
                     loading, error, overlapped, late>>
  BY DEF Submit, Free, query, shown
<1> HIDE DEF q
<1>3. req' \in [Slots -> Request] /\ OnlyMoved(r) /\ req'[r] = q
  BY <1>p, <1>1, <1>2, Moved DEF Typed
<1>4. Typed'
  BY <1>p, <1>2, <1>3 DEF Typed, QueryTyped, EntryTyped, ShownTyped
<1>5. Verdicts'
  BY <1>p, <1>1, <1>3 DEF Verdicts, Judged, OnlyMoved
<1>6. Gated'
  <2> SUFFICES ASSUME NEW t \in Slots, req'[t].kind = "verify", ~req'[t].old
               PROVE  gate' = t /\ ~authed' /\ (late' \/ token' = req'[t].cred \/ req'[t].cred # Secret)
    BY DEF Gated, AtGate
  <2>1. CASE t = r
    BY <1>1, <1>2, <1>3, <2>1
  <2>2. CASE t # r
    BY <1>p, <1>2, <1>3, <2>2, AdminAssumption DEF Gated, AtGate, OnlyMoved
  <2> QED BY <2>1, <2>2
<1>7. SpinnerIsAWait'
  BY <1>p, <1>1, <1>2, <1>3 DEF SpinnerIsAWait, OnlyMoved
<1>8. Empty' /\ InVain'
  BY <1>2 DEF Empty, InVain, Unproven
<1> QED BY <1>4, <1>5, <1>6, <1>7, <1>8 DEF IInv

\* The operator clears the token.
LEMMA ClearTokenStep ==
  ASSUME IInv, ClearToken
  PROVE  IInv'
<1>p. Typed /\ Verdicts /\ Gated /\ SpinnerIsAWait
  BY DEF IInv
<1>1. /\ authed /\ token' = NoToken /\ authed' = FALSE
      /\ UNCHANGED <<exists, gate, tab, hosted, filter, offset, rows, total,
                     loading, error, req, overlapped, late>>
  BY DEF ClearToken, query, shown
<1>2. Typed'
  BY <1>p, <1>1, SomePanels DEF Typed, QueryTyped, EntryTyped, ShownTyped
<1>3. Verdicts' /\ Gated'
  BY <1>p, <1>1 DEF Verdicts, Judged, Gated, AtGate
<1>4. SpinnerIsAWait'
  BY <1>p, <1>1 DEF SpinnerIsAWait
<1>5. Empty' /\ InVain'
  BY <1>1 DEF Empty, InVain, Unproven
<1> QED BY <1>2, <1>3, <1>4, <1>5 DEF IInv

\* The operator deletes a row.
LEMMA DeleteStep ==
  ASSUME IInv, NEW r \in Slots, NEW x \in Items, Delete(r, x)
  PROVE  IInv'
<1>p. Typed /\ Verdicts /\ Gated /\ SpinnerIsAWait /\ Empty /\ InVain
  BY DEF IInv
<1>1. PICK l \in Lists : l = tab
  BY DEF Delete
<1>2. PICK f \in Filters, o \in Nat, tok \in Credentials :
        f = filter[l] /\ o = offset[l] /\ tok = token
  BY <1>p DEF Typed, QueryTyped, EntryTyped
<1> DEFINE q == [Idle EXCEPT !.kind = "delete", !.panel = l, !.x = x,
                             !.f = f, !.o = o, !.cred = tok]
<1>3. q \in Request /\ q.kind = "delete" /\ q.stage = "sent" /\ q.panel \in Lists
  BY SomePanels DEF Idle, Request
<1>4. /\ req[r].kind = "idle" /\ req' = [req EXCEPT ![r] = q]
      /\ UNCHANGED <<exists, entry, tab, hosted, filter, offset, rows, total,
                     loading, error, late>>
      /\ overlapped' = overlapped \cup {k \in {l} : Pending(k) # {}}
  BY <1>1, <1>2 DEF Delete, Free, query, shown
<1> HIDE DEF q
<1>5. req' \in [Slots -> Request] /\ OnlyMoved(r) /\ req'[r] = q
  BY <1>p, <1>3, <1>4, Moved DEF Typed
<1>6. overlapped' \subseteq Lists
  BY <1>p, <1>4 DEF Typed, QueryTyped
<1>7. Typed'
  BY <1>p, <1>4, <1>5, <1>6 DEF Typed, QueryTyped, EntryTyped, ShownTyped, entry
<1>8. Verdicts'
  BY <1>p, <1>3, <1>5 DEF Verdicts, Judged, OnlyMoved
<1>9. Gated'
  BY <1>p, <1>3, <1>4, <1>5 DEF Gated, AtGate, OnlyMoved, entry
<1>10. SpinnerIsAWait'
  BY <1>p, <1>3, <1>4, <1>5 DEF SpinnerIsAWait, OnlyMoved, entry, Typed, EntryTyped
<1>11. Empty' /\ InVain'
  BY <1>p, <1>3, <1>4, <1>5 DEF Empty, InVain, Unproven, Vain, OnlyMoved, entry
<1> QED BY <1>7, <1>8, <1>9, <1>10, <1>11 DEF IInv

\* The console is left and opened again.
LEMMA RemountStep ==
  ASSUME IInv, NEW r \in Slots, Remount(r)
  PROVE  IInv'
<1>p. Typed /\ Verdicts
  BY DEF IInv
<1>0. PICK tok \in Credentials : tok = token
  BY <1>p DEF Typed, EntryTyped
<1> DEFINE q == LoadOf("overview", "all", 0, tok)
<1>1. /\ q \in Request /\ q.kind = "load" /\ q.panel = "overview" /\ q.cred = token
      /\ q.stage = "sent" /\ ~q.old
  BY <1>0, LoadIsRequest, SomePanels
<1>2. /\ authed' = (token # NoToken) /\ gate' = NoSlot
      /\ tab' = "overview" /\ hosted' = FALSE
      /\ filter' = [l \in Lists |-> "all"] /\ offset' = [l \in Lists |-> 0]
      /\ rows' = [l \in Lists |-> {}] /\ total' = [l \in Lists |-> 0]
      /\ error' = [p \in Panels |-> FALSE]
      /\ loading' = [p \in Panels |-> authed' /\ p = "overview"]
      /\ overlapped' = {}
      /\ UNCHANGED <<exists, token, late>>
  BY DEF Remount
<1>3. /\ req' = [s \in Slots |-> req'[s]]
      /\ req'[r] = IF authed' THEN q ELSE Idle
      /\ \A t \in Slots \ {r} :
           req'[t] = IF Free(t) THEN Idle ELSE [req[t] EXCEPT !.old = TRUE]
  BY <1>0 DEF Remount
<1> HIDE DEF q
<1>4. ASSUME NEW t \in Slots \ {r}
      PROVE  /\ req'[t] \in Request
             /\ \/ req'[t] = Idle
                \/ /\ req'[t].old /\ req'[t].cred = req[t].cred
                   /\ req'[t].kind = req[t].kind /\ req'[t].panel = req[t].panel
                   /\ req'[t].stage = req[t].stage /\ req[t].kind # "idle"
  <2> DEFINE u == [req[t] EXCEPT !.old = TRUE]
  <2>1. req[t] \in Request
    BY <1>p DEF Typed
  <2>2. /\ u \in Request /\ u.old /\ u.cred = req[t].cred /\ u.stage = req[t].stage
        /\ u.kind = req[t].kind /\ u.panel = req[t].panel
    BY <2>1 DEF Request
  <2>3. req'[t] = IF Free(t) THEN Idle ELSE u
    BY <1>3
  <2> HIDE DEF u
  <2> QED BY <2>2, <2>3, IdleIsRequest DEF Free
<1>5. req'[r] \in Request /\ req'[r].kind \in {"load", "idle"} /\ req'[r].stage = "sent"
  BY <1>1, <1>3, IdleIsRequest
<1>6. req' \in [Slots -> Request]
  BY <1>3, <1>4, <1>5
<1>7. Typed'
  BY <1>p, <1>2, <1>6, SomePanels
     DEF Typed, QueryTyped, EntryTyped, ShownTyped
<1>8. Verdicts'
  BY <1>p, <1>4, <1>5, IdleIsRequest DEF Verdicts, Judged
<1>9. Gated'
  BY <1>4, <1>5, IdleIsRequest DEF Gated, AtGate
<1>10. SpinnerIsAWait'
  <2>1. ASSUME NEW p \in Panels, loading'[p]
        PROVE  req'[r].kind = "load" /\ req'[r].panel = p /\ ~req'[r].old
    <3>1. authed' /\ p = "overview"
      BY <1>2, <2>1
    <3> QED BY <1>1, <1>3, <3>1
  <2> QED BY <1>2, <2>1 DEF SpinnerIsAWait
<1>11. Empty'
  BY <1>2 DEF Empty
<1>12. InVain'
  <2> SUFFICES ASSUME token # Secret, NEW t \in Slots, req'[t].kind = "load", ~req'[t].old
               PROVE  req'[t].cred # Secret
    BY <1>2 DEF InVain, Unproven, Vain
  <2>1. t = r
    BY <1>4, IdleIsRequest
  <2> QED BY <1>1, <1>3, <2>1, IdleIsRequest
<1> QED BY <1>7, <1>8, <1>9, <1>10, <1>11, <1>12 DEF IInv

-----------------------------------------------------------------------------
\* The server, and the network.

\* An answer on its way changes nothing on the page.
LEMMA AnswerArrives ==
  ASSUME IInv, NEW r \in Slots, req[r].kind # "idle", NEW q \in Request,
         q.kind = req[r].kind, q.panel = req[r].panel, q.cred = req[r].cred,
         q.old = req[r].old, Judged(q),
         req' = [req EXCEPT ![r] = q],
         QueryTyped', UNCHANGED <<entry, shown, loading, error, late>>
  PROVE  IInv'
<1> USE DEF entry, shown
<1>p. Typed /\ Verdicts /\ Gated /\ SpinnerIsAWait /\ Empty /\ InVain
  BY DEF IInv
<1>1. req' \in [Slots -> Request] /\ OnlyMoved(r) /\ req'[r] = q
  BY <1>p, Moved DEF Typed
<1>2. Typed'
  BY <1>p, <1>1 DEF Typed, EntryTyped, ShownTyped
<1>3. Verdicts'
  BY <1>p, <1>1 DEF Verdicts, OnlyMoved, Judged
<1>4. Gated'
  BY <1>p, <1>1 DEF Gated, OnlyMoved, AtGate
<1>5. SpinnerIsAWait'
  <2>1. \A t \in Slots : /\ req'[t].kind = req[t].kind /\ req'[t].panel = req[t].panel
                         /\ req'[t].old = req[t].old
    BY <1>1 DEF OnlyMoved
  <2>2. gate # NoSlot => gate \in Slots
    BY <1>p DEF Typed, EntryTyped
  <2> QED BY <1>p, <2>1, <2>2 DEF SpinnerIsAWait
<1>6. Empty' /\ InVain'
  BY <1>p, <1>1 DEF Empty, InVain, Unproven, Vain, OnlyMoved
<1> QED BY <1>2, <1>3, <1>4, <1>5, <1>6 DEF IInv

\* The server answers.
LEMMA ServeStep ==
  ASSUME IInv, NEW r \in Slots, Serve(r)
  PROVE  IInv'
<1> DEFINE q == req[r]
           l == q.panel
           ok == q.cred = Secret
           M == IF l \in Lists THEN Matching(exists[l], q.f) ELSE {}
           gone == q.kind = "delete" /\ ok /\ q.x \in exists[l]
<1>p. Typed /\ q \in Request /\ q.kind # "idle"
  BY DEF Serve, IInv, Typed, Free
<1>j. q.kind = "delete" => q.panel \in Lists
  BY DEF IInv, Verdicts, Judged
<1>1. /\ exists' = IF gone THEN [exists EXCEPT ![l] = @ \ {q.x}] ELSE exists
      /\ UNCHANGED <<page, overlapped>>
  BY DEF Serve
<1>2. /\ UNCHANGED <<entry, shown, loading, error, late>>
      /\ UNCHANGED <<tab, hosted, filter, offset, overlapped>>
  BY <1>1 DEF page, query
<1>3. exists' \in [Lists -> SUBSET Items]
  BY <1>p, <1>1 DEF Typed, QueryTyped
<1>4. QueryTyped'
  BY <1>p, <1>2, <1>3 DEF Typed, QueryTyped
<1>5. M \in SUBSET Items /\ Page(M, q.o) \in SUBSET Items /\ Cardinality(M) \in Nat
  <2>1. q.f \in Filters
    BY <1>p DEF Request
  <2>2. CASE l \in Lists
    <3>1. PICK S \in SUBSET Items, f \in Filters : S = exists[l] /\ f = q.f
      BY <1>p, <2>1, <2>2 DEF Typed, QueryTyped
    <3> QED BY <2>2, <3>1, PageTyped
  <2>3. CASE l \notin Lists
    BY <2>3, FS_EmptySet DEF Page
  <2> QED BY <2>2, <2>3
<1>6. PICK S \in SUBSET Items, n \in Nat : S = Page(M, q.o) /\ n = Cardinality(M)
  BY <1>5
<1>7. req' = [req EXCEPT ![r] =
              IF ~ok THEN [q EXCEPT !.stage = "refused"]
              ELSE IF q.kind = "load"
                THEN [q EXCEPT !.stage = "ok", !.got = S, !.count = n]
              ELSE [q EXCEPT !.stage =
                      IF q.kind = "verify" \/ gone THEN "ok" ELSE "failed"]]
  BY <1>6 DEF Serve
<1>8. CASE ~ok
  <2> DEFINE a == [q EXCEPT !.stage = "refused"]
  <2>1. /\ a \in Request /\ a.kind = q.kind /\ a.panel = q.panel /\ a.cred = q.cred
        /\ a.old = q.old /\ a.stage = "refused"
    BY <1>p DEF Request
  <2>2. req' = [req EXCEPT ![r] = a]
    BY <1>7, <1>8
  <2>3. Judged(a)
    BY <1>j, <1>8, <2>1 DEF Judged
  <2> HIDE DEF a, q
  <2> QED BY <1>p, <1>2, <1>4, <2>1, <2>2, <2>3, AnswerArrives DEF q
<1>9. CASE ok /\ q.kind = "load"
  <2> DEFINE a == [q EXCEPT !.stage = "ok", !.got = S, !.count = n]
  <2>1. /\ a \in Request /\ a.kind = q.kind /\ a.panel = q.panel /\ a.cred = q.cred
        /\ a.old = q.old /\ a.stage = "ok"
    BY <1>p DEF Request
  <2>2. req' = [req EXCEPT ![r] = a]
    BY <1>7, <1>9
  <2>3. Judged(a)
    BY <1>j, <1>9, <2>1 DEF Judged
  <2> HIDE DEF a, q
  <2> QED BY <1>p, <1>2, <1>4, <2>1, <2>2, <2>3, AnswerArrives DEF q
<1>10. CASE ok /\ q.kind # "load"
  <2>1. PICK st \in {"ok", "failed"} : st = IF q.kind = "verify" \/ gone THEN "ok" ELSE "failed"
    OBVIOUS
  <2> DEFINE a == [q EXCEPT !.stage = st]
  <2>2. /\ a \in Request /\ a.kind = q.kind /\ a.panel = q.panel /\ a.cred = q.cred
        /\ a.old = q.old /\ a.stage = st
    BY <1>p DEF Request
  <2>3. req' = [req EXCEPT ![r] = a]
    BY <1>7, <1>10, <2>1
  <2>4. Judged(a)
    BY <1>j, <1>10, <2>2 DEF Judged
  <2> HIDE DEF a, q
  <2> QED BY <1>p, <1>2, <1>4, <2>2, <2>3, <2>4, AnswerArrives DEF q
<1> QED BY <1>8, <1>9, <1>10

\* A request or its answer is lost.
LEMMA LoseStep ==
  ASSUME IInv, NEW r \in Slots, Lose(r)
  PROVE  IInv'
<1> DEFINE a == [req[r] EXCEPT !.stage = "failed"]
<1>1. req[r] \in Request /\ req[r].kind # "idle"
  BY DEF Lose, Free, IInv, Typed
<1>2. /\ a \in Request /\ a.kind = req[r].kind /\ a.panel = req[r].panel
      /\ a.cred = req[r].cred /\ a.old = req[r].old /\ a.stage = "failed"
  BY <1>1 DEF Request
<1>3. req' = [req EXCEPT ![r] = a]
  BY <1>1 DEF Lose, IInv, Typed
<1>4. UNCHANGED <<exists, entry, tab, hosted, filter, offset, shown, loading, error,
                  overlapped, late>>
  BY DEF Lose, page, query
<1> HIDE DEF a
<1>5. QueryTyped' /\ Judged(a)
  BY <1>1, <1>2, <1>4 DEF IInv, Typed, QueryTyped, Verdicts, Judged
<1> QED BY <1>1, <1>2, <1>3, <1>4, <1>5, AnswerArrives

-----------------------------------------------------------------------------
\* The page handles an answer.

\* A request whose answer is handled frees its slot.
LEMMA Ends ==
  ASSUME IInv, NEW r \in Slots, Done(r)
  PROVE  req' \in [Slots -> Request] /\ OnlyMoved(r) /\ req'[r] = Idle /\ Verdicts'
<1>1. req' \in [Slots -> Request] /\ OnlyMoved(r) /\ req'[r] = Idle
  BY Moved, IdleIsRequest DEF Done, IInv, Typed
<1>2. Verdicts'
  BY <1>1, IdleIsRequest DEF Verdicts, Judged, OnlyMoved, IInv
<1> QED BY <1>1, <1>2

\* A busy gate waits for a verification that another answer leaves alone.
LEMMA GateWaits ==
  ASSUME IInv, NEW r \in Slots, OnlyMoved(r), req[r].kind # "verify" \/ gate # r
  PROVE  gate # NoSlot => req'[gate].kind = "verify" /\ ~req'[gate].old
BY DEF IInv, SpinnerIsAWait, OnlyMoved, Typed, EntryTyped

\* The spinners go on waiting when r, which was no load, is done.
LEMMA LoadsWait ==
  ASSUME IInv, NEW r \in Slots, OnlyMoved(r), req[r].kind # "load" \/ req[r].old,
         NEW p \in Panels, loading[p]
  PROVE  \E t \in Slots : req'[t].kind = "load" /\ req'[t].panel = p /\ ~req'[t].old
<1>1. PICK t \in Slots : req[t].kind = "load" /\ req[t].panel = p /\ ~req[t].old
  BY DEF IInv, SpinnerIsAWait
<1> QED BY <1>1 DEF OnlyMoved

\* handleUnauthorized drops the token of a refused load or deletion.
LEMMA TokenDropped ==
  ASSUME IInv, NEW r \in Slots, req[r].kind \in {"load", "delete"},
         req[r].stage = "refused", Unauthorized(r), Done(r), gate' = gate
  PROVE  EntryTyped' /\ Gated' /\ Empty' /\ InVain'
<1>p. Typed /\ Verdicts /\ Gated /\ req[r] \in Request
  BY DEF IInv, Typed
<1>1. req' \in [Slots -> Request] /\ OnlyMoved(r) /\ req'[r] = Idle
  BY Ends
<1>2. /\ token' = NoToken /\ late' = (late \/ req[r].old \/ token # req[r].cred)
      /\ authed' = (authed /\ req[r].old)
  BY DEF Unauthorized, DropToken
<1>3. req[r].cred # Secret
  BY <1>p DEF Verdicts, Judged
<1>4. EntryTyped'
  BY <1>p, <1>2, SomePanels DEF Typed, EntryTyped, Request
<1>5. ~Unproven'
  BY <1>2 DEF Unproven
<1>6. Gated'
  <2> SUFFICES ASSUME NEW t \in Slots, req'[t].kind = "verify", ~req'[t].old
               PROVE  gate = t /\ ~authed' /\ (late' \/ token' = req'[t].cred \/ req'[t].cred # Secret)
    BY DEF Gated, AtGate
  <2>1. t # r /\ req'[t] = req[t]
    BY <1>1, IdleIsRequest DEF OnlyMoved
  <2>2. gate = t /\ ~authed /\ (late \/ token = req[t].cred \/ req[t].cred # Secret)
    BY <1>p, <2>1 DEF Gated, AtGate
  <2> QED BY <1>2, <1>3, <2>1, <2>2
<1> QED BY <1>4, <1>5, <1>6 DEF Empty, InVain

\* The answer to a submitted token is handled.
LEMMA ReceiveVerifyStep ==
  ASSUME IInv, NEW r \in Slots, ReceiveVerify(r)
  PROVE  IInv'
<1>p. Typed /\ Verdicts /\ Gated /\ SpinnerIsAWait /\ Empty /\ InVain /\ req[r] \in Request
  BY DEF IInv, Typed
<1>0. /\ req[r].kind = "verify" /\ req[r].stage # "sent"
      /\ gate' = (IF gate = r THEN NoSlot ELSE gate)
      /\ UNCHANGED <<exists, tab, hosted, filter, offset, rows, total>>
  BY DEF ReceiveVerify, Answered, GateDone, query, shown
<1>g. gate' \in Slots \cup {NoSlot}
  BY <1>p, <1>0 DEF Typed, EntryTyped
<1>w. OnlyMoved(r) => (gate' # NoSlot => req'[gate'].kind = "verify" /\ ~req'[gate'].old)
  BY <1>0, <1>p, GateWaits, AdminAssumption
<1>1. CASE req[r].stage = "ok" /\ (req[r].old \/ tab \notin Panels)
  <2>1. /\ Done(r) /\ authed' = (authed \/ ~req[r].old)
        /\ UNCHANGED <<token, late, loading, error, overlapped>>
    BY <1>1 DEF ReceiveVerify
  <2>2. req' \in [Slots -> Request] /\ OnlyMoved(r) /\ req'[r] = Idle /\ Verdicts'
    BY <2>1, Ends
  <2>3. Typed'
    BY <1>p, <1>0, <1>g, <2>1, <2>2 DEF Typed, QueryTyped, EntryTyped, ShownTyped, Request
  <2>4. ~req[r].old => gate = r /\ (late \/ token = Secret)
    BY <1>p, <1>0, <1>1 DEF Gated, AtGate, Verdicts, Judged
  <2>5. Gated'
    <3> SUFFICES ASSUME NEW t \in Slots, req'[t].kind = "verify", ~req'[t].old
                 PROVE  gate' = t /\ ~authed' /\ (late \/ token = req'[t].cred \/ req'[t].cred # Secret)
      BY <2>1 DEF Gated, AtGate
    <3>1. t # r /\ req'[t] = req[t]
      BY <2>2, IdleIsRequest DEF OnlyMoved
    <3>2. gate = t /\ ~authed /\ (late \/ token = req[t].cred \/ req[t].cred # Secret)
      BY <1>p, <3>1 DEF Gated, AtGate
    <3> QED BY <1>0, <2>1, <2>4, <3>1, <3>2
  <2>6. SpinnerIsAWait'
    BY <1>0, <1>w, <2>1, <2>2, LoadsWait DEF SpinnerIsAWait
  <2>7. Empty' /\ InVain'
    BY <1>p, <1>0, <2>1, <2>2, <2>4, IdleIsRequest
       DEF Empty, InVain, Unproven, Vain, OnlyMoved
  <2> QED BY <2>2, <2>3, <2>5, <2>6, <2>7 DEF IInv
<1>2. CASE req[r].stage = "ok" /\ ~req[r].old /\ tab \in Panels
  <2>1. PICK p \in Panels : p = tab
    BY <1>2
  <2>2. PICK f \in Filters, o \in Nat, tok \in Credentials :
          /\ f = IF tab \in Lists THEN filter[tab] ELSE "all"
          /\ o = IF tab \in Lists THEN offset[tab] ELSE 0
          /\ tok = token
    BY <1>p, SomePanels DEF Typed, QueryTyped, EntryTyped
  <2>3. StartLoad(r, p, f, o, tok)
    BY <1>2, <2>1, <2>2 DEF ReceiveVerify
  <2> DEFINE q == LoadOf(p, f, o, tok)
  <2>4. /\ q \in Request /\ q.kind = "load" /\ q.panel = p /\ q.cred = token
        /\ q.stage = "sent" /\ ~q.old
    BY <2>2, LoadIsRequest
  <2>5. /\ req' = [req EXCEPT ![r] = q] /\ authed' = TRUE
        /\ loading' = [loading EXCEPT ![p] = TRUE] /\ error' = [error EXCEPT ![p] = FALSE]
        /\ UNCHANGED <<token, late>>
    BY <1>2, <2>3 DEF StartLoad, ReceiveVerify
  <2> HIDE DEF q
  <2>6. req' \in [Slots -> Request] /\ OnlyMoved(r) /\ req'[r] = q
    BY <1>p, <2>4, <2>5, Moved DEF Typed
  <2>7. overlapped' \subseteq Lists
    BY <1>2, OverlapTyped DEF ReceiveVerify
  <2>8. Typed'
    BY <1>p, <1>0, <1>g, <2>5, <2>6, <2>7 DEF Typed, QueryTyped, EntryTyped, ShownTyped
  <2>9. Verdicts'
    BY <1>p, <2>4, <2>6 DEF Verdicts, Judged, OnlyMoved
  <2>10. gate = r /\ (late \/ token = Secret)
    BY <1>p, <1>0, <1>2 DEF Gated, AtGate, Verdicts, Judged
  <2>11. Gated'
    BY <1>p, <2>4, <2>6, <2>10 DEF Gated, AtGate, OnlyMoved
  <2>12. SpinnerIsAWait'
    <3>1. ASSUME NEW pp \in Panels, loading'[pp]
          PROVE  \E t \in Slots : req'[t].kind = "load" /\ req'[t].panel = pp /\ ~req'[t].old
      <4>1. CASE pp = p
        BY <2>4, <2>6, <4>1
      <4>2. CASE pp # p
        BY <1>0, <1>p, <2>5, <2>6, <3>1, <4>2, LoadsWait DEF Typed, ShownTyped
      <4> QED BY <4>1, <4>2
    <3> QED BY <1>w, <2>6, <3>1 DEF SpinnerIsAWait
  <2>13. Empty' /\ InVain'
    BY <2>5, <2>10 DEF Empty, InVain, Unproven
  <2> QED BY <2>8, <2>9, <2>11, <2>12, <2>13 DEF IInv
<1>3. CASE req[r].stage # "ok"
  <2>1. /\ Done(r) /\ token' = NoToken
        /\ late' = (late \/ req[r].old \/ token # req[r].cred)
        /\ UNCHANGED <<authed, loading, error, overlapped>>
    BY <1>3 DEF ReceiveVerify, DropToken
  <2>2. req' \in [Slots -> Request] /\ OnlyMoved(r) /\ req'[r] = Idle /\ Verdicts'
    BY <2>1, Ends
  <2>3. Typed'
    BY <1>p, <1>0, <1>g, <2>1, <2>2, SomePanels
       DEF Typed, QueryTyped, EntryTyped, ShownTyped, Request
  <2>4. ~req[r].old => gate = r /\ ~authed
    BY <1>p, <1>0 DEF Gated, AtGate
  <2>5. Gated'
    <3> SUFFICES ASSUME NEW t \in Slots, req'[t].kind = "verify", ~req'[t].old
                 PROVE  gate' = t /\ ~authed /\ late'
      BY <2>1 DEF Gated, AtGate
    <3>1. t # r /\ req'[t] = req[t]
      BY <2>2, IdleIsRequest DEF OnlyMoved
    <3>2. gate = t /\ ~authed
      BY <1>p, <3>1 DEF Gated, AtGate
    <3> QED BY <1>0, <2>1, <2>4, <3>1, <3>2
  <2>6. SpinnerIsAWait'
    BY <1>0, <1>w, <2>1, <2>2, LoadsWait DEF SpinnerIsAWait
  <2>7. ~Unproven'
    BY <2>1, <2>4 DEF Unproven
  <2> QED BY <2>2, <2>3, <2>5, <2>6, <2>7 DEF IInv, Empty, InVain
<1> QED BY <1>1, <1>2, <1>3

\* The answer to a load is handled.
LEMMA ReceiveLoadStep ==
  ASSUME IInv, NEW r \in Slots, ReceiveLoad(r)
  PROVE  IInv'
<1> DEFINE q == req[r]
           l == q.panel
           sets == l \in Lists /\ ~q.old /\ q.stage # "refused"
<1>p. /\ Typed /\ Verdicts /\ Gated /\ SpinnerIsAWait /\ Empty /\ InVain /\ q \in Request
      /\ l \in Panels
  BY DEF IInv, Typed, Request
<1>0. /\ q.kind = "load" /\ q.stage # "sent" /\ Done(r)
      /\ UNCHANGED <<exists, gate, tab, hosted, filter, offset, overlapped>>
  BY DEF ReceiveLoad, Answered, query
<1>1. req' \in [Slots -> Request] /\ OnlyMoved(r) /\ req'[r] = Idle /\ Verdicts'
  BY <1>0, Ends
<1>2. /\ loading' = IF q.old THEN loading ELSE [loading EXCEPT ![l] = FALSE]
      /\ error' = IF q.old THEN error ELSE [error EXCEPT ![l] = @ \/ q.stage = "failed"]
      /\ rows' = IF sets THEN [rows EXCEPT ![l] = IF q.stage # "ok" THEN {} ELSE q.got]
                 ELSE rows
      /\ total' = IF sets THEN [total EXCEPT ![l] = IF q.stage # "ok" THEN 0 ELSE q.count]
                  ELSE total
  BY DEF ReceiveLoad
<1>3. ShownTyped'
  <2>1. q.got \in SUBSET Items /\ q.count \in Nat
    BY <1>p DEF Request
  <2>2. rows' \in [Lists -> SUBSET Items]
    BY <1>p, <1>2, <2>1 DEF Typed, ShownTyped
  <2>3. total' \in [Lists -> Nat]
    BY <1>p, <1>2, <2>1 DEF Typed, ShownTyped
  <2>4. loading' \in [Panels -> BOOLEAN]
    BY <1>p, <1>2 DEF Typed, ShownTyped
  <2>5. error' \in [Panels -> BOOLEAN]
    <3>1. PICK b \in BOOLEAN : b = (error[l] \/ q.stage = "failed")
      OBVIOUS
    <3>2. error' = IF q.old THEN error ELSE [error EXCEPT ![l] = b]
      BY <1>p, <1>2, <3>1 DEF Typed, ShownTyped
    <3> QED BY <1>p, <3>2 DEF Typed, ShownTyped
  <2> QED BY <2>2, <2>3, <2>4, <2>5 DEF ShownTyped
<1>4. SpinnerIsAWait'
  <2>1. ASSUME NEW p \in Panels, loading'[p]
        PROVE  \E t \in Slots : req'[t].kind = "load" /\ req'[t].panel = p /\ ~req'[t].old
    <3>1. CASE q.old
      BY <1>1, <1>2, <2>1, <3>1, LoadsWait
    <3>2. CASE ~q.old
      <4>1. p # l /\ loading[p]
        BY <1>p, <1>2, <2>1, <3>2 DEF Typed, ShownTyped
      <4>2. PICK t \in Slots : req[t].kind = "load" /\ req[t].panel = p /\ ~req[t].old
        BY <1>p, <4>1 DEF SpinnerIsAWait
      <4> QED BY <1>1, <4>1, <4>2 DEF OnlyMoved
    <3> QED BY <3>1, <3>2
  <2> QED BY <1>0, <1>1, <2>1, GateWaits DEF SpinnerIsAWait
<1>5. QueryTyped'
  BY <1>p, <1>0 DEF Typed, QueryTyped
<1>6. CASE q.stage = "refused"
  <2>1. Unauthorized(r)
    BY <1>6 DEF ReceiveLoad
  <2>2. EntryTyped' /\ Gated' /\ Empty' /\ InVain'
    BY <1>0, <1>6, <2>1, TokenDropped
  <2> QED BY <1>1, <1>3, <1>4, <1>5, <2>2 DEF IInv, Typed
<1>7. CASE q.stage # "refused"
  <2>1. UNCHANGED <<token, authed, late>>
    BY <1>7 DEF ReceiveLoad
  <2>2. EntryTyped'
    BY <1>p, <1>0, <2>1 DEF Typed, EntryTyped
  <2>3. Gated'
    BY <1>p, <1>0, <1>1, <2>1, IdleIsRequest DEF Gated, AtGate, OnlyMoved
  <2>4. Empty'
    <3> SUFFICES ASSUME Unproven, NEW k \in Lists PROVE rows'[k] = {}
      BY <2>1 DEF Empty, Unproven
    <3>1. rows[k] = {} /\ Vain(q)
      BY <1>p DEF Empty, InVain
    <3>2. sets => q.stage # "ok"
      BY <1>p, <1>0, <3>1 DEF Verdicts, Judged, Vain
    <3> QED BY <1>p, <1>2, <3>1, <3>2 DEF Typed, ShownTyped
  <2>5. InVain'
    BY <1>p, <1>1, <2>1, IdleIsRequest DEF InVain, Unproven, Vain, OnlyMoved
  <2> QED BY <1>1, <1>3, <1>4, <1>5, <2>2, <2>3, <2>4, <2>5 DEF IInv, Typed
<1> QED BY <1>6, <1>7

\* The answer to a deletion is handled.
LEMMA ReceiveDeleteStep ==
  ASSUME IInv, NEW r \in Slots, ReceiveDelete(r)
  PROVE  IInv'
<1> DEFINE q == req[r]
           l == q.panel
<1>p. /\ Typed /\ Verdicts /\ Gated /\ SpinnerIsAWait /\ Empty /\ InVain /\ q \in Request
  BY DEF IInv, Typed
<1>0. /\ q.kind = "delete" /\ q.stage \in {"ok", "refused", "failed"}
      /\ UNCHANGED <<exists, gate, tab, hosted, filter, offset, rows, total>>
  BY <1>p DEF ReceiveDelete, Answered, query, shown, Request
<1>1. l \in Lists /\ l \in Panels
  BY <1>p, <1>0, SomePanels DEF Verdicts, Judged
<1>2. ASSUME Done(r)
      PROVE  /\ req' \in [Slots -> Request] /\ OnlyMoved(r) /\ req'[r] = Idle
             /\ Verdicts'
             /\ UNCHANGED <<loading, error>> => SpinnerIsAWait'
  <2>1. req' \in [Slots -> Request] /\ OnlyMoved(r) /\ req'[r] = Idle /\ Verdicts'
    BY <1>2, Ends
  <2> QED BY <1>0, <2>1, LoadsWait, GateWaits DEF SpinnerIsAWait
<1>3. CASE q.stage = "refused"
  <2>1. Unauthorized(r) /\ Done(r) /\ UNCHANGED <<loading, error, overlapped>>
    BY <1>3 DEF ReceiveDelete
  <2>2. EntryTyped' /\ Gated' /\ Empty' /\ InVain'
    BY <1>0, <1>3, <2>1, TokenDropped
  <2>3. QueryTyped' /\ ShownTyped'
    BY <1>p, <1>0, <2>1 DEF Typed, QueryTyped, ShownTyped
  <2> QED BY <1>2, <2>1, <2>2, <2>3 DEF IInv, Typed
<1>4. CASE q.stage = "failed"
  <2>1. /\ Done(r) /\ overlapped' = overlapped \cup {l}
        /\ UNCHANGED <<token, authed, loading, error, late>>
    BY <1>4 DEF ReceiveDelete
  <2>2. Typed'
    BY <1>p, <1>0, <1>1, <1>2, <2>1 DEF Typed, QueryTyped, EntryTyped, ShownTyped
  <2>3. Gated'
    BY <1>p, <1>0, <1>2, <2>1, IdleIsRequest DEF Gated, AtGate, OnlyMoved
  <2>4. Empty' /\ InVain'
    BY <1>p, <1>0, <1>2, <2>1, IdleIsRequest DEF Empty, InVain, Unproven, Vain, OnlyMoved
  <2> QED BY <1>2, <2>1, <2>2, <2>3, <2>4 DEF IInv
<1>5. CASE q.stage = "ok" /\ ~q.old
  <2>1. PICK f \in Filters, o \in Nat, p \in Panels : f = q.f /\ o = q.o /\ p = l
    BY <1>p, <1>1 DEF Request
  <2>2. /\ StartLoad(r, p, f, o, token)
        /\ UNCHANGED <<token, authed, overlapped, late>>
    BY <1>5, <2>1 DEF ReceiveDelete
  <2>3. QueryTyped'
    BY <1>p, <1>0, <2>2 DEF Typed, QueryTyped
  <2> QED BY <1>0, <2>2, <2>3, LoadStarts DEF entry, shown
<1>6. CASE q.stage = "ok" /\ q.old
  <2>1. PICK f \in Filters, o \in Nat, p \in Panels, tok \in Credentials :
          f = q.f /\ o = q.o /\ p = l /\ tok = token
    BY <1>p, <1>1 DEF Request, Typed, EntryTyped
  <2> DEFINE b == LoadOf(p, f, o, tok)
             a == [b EXCEPT !.old = TRUE]
  <2>2. b \in Request /\ b.kind = "load" /\ b.stage = "sent"
    BY LoadIsRequest
  <2>3. req' = [req EXCEPT ![r] = a] /\ UNCHANGED <<token, authed, loading, error, overlapped, late>>
    BY <1>6, <2>1 DEF ReceiveDelete
  <2> HIDE DEF b
  <2>4. a \in Request /\ a.kind = "load" /\ a.stage = "sent" /\ a.old
    BY <2>2 DEF Request
  <2> HIDE DEF a
  <2>5. req' \in [Slots -> Request] /\ OnlyMoved(r) /\ req'[r] = a
    BY <1>p, <2>3, <2>4, Moved DEF Typed
  <2>6. Typed'
    BY <1>p, <1>0, <2>3, <2>5 DEF Typed, QueryTyped, EntryTyped, ShownTyped
  <2>7. Verdicts'
    BY <1>p, <2>4, <2>5 DEF Verdicts, Judged, OnlyMoved
  <2>8. Gated'
    BY <1>p, <1>0, <2>3, <2>4, <2>5 DEF Gated, AtGate, OnlyMoved
  <2>9. SpinnerIsAWait'
    BY <1>0, <2>3, <2>5, LoadsWait, GateWaits DEF SpinnerIsAWait
  <2>10. Empty' /\ InVain'
    BY <1>p, <1>0, <2>3, <2>4, <2>5 DEF Empty, InVain, Unproven, Vain, OnlyMoved
  <2> QED BY <2>6, <2>7, <2>8, <2>9, <2>10 DEF IInv
<1> QED BY <1>0, <1>3, <1>4, <1>5, <1>6

-----------------------------------------------------------------------------
\* IInv holds at first ...
LEMMA InitEstablishes == Init => IInv
<1> SUFFICES ASSUME Init PROVE IInv
  OBVIOUS
<1>0. /\ exists = [l \in Lists |-> Items]
      /\ token \in Credentials /\ authed = (token # NoToken)
      /\ gate = NoSlot
      /\ tab = "overview" /\ hosted = FALSE
      /\ filter = [l \in Lists |-> "all"] /\ offset = [l \in Lists |-> 0]
      /\ rows = [l \in Lists |-> {}] /\ total = [l \in Lists |-> 0]
      /\ error = [p \in Panels |-> FALSE]
      /\ loading = [p \in Panels |-> authed /\ p = "overview"]
      /\ overlapped = {} /\ late = FALSE
  BY DEF Init
<1>1. PICK r \in Slots :
        req = [s \in Slots |->
                 IF authed /\ s = r THEN LoadOf("overview", "all", 0, token) ELSE Idle]
  BY DEF Init
<1> DEFINE q == LoadOf("overview", "all", 0, token)
<1>2. /\ q \in Request /\ q.kind = "load" /\ q.panel = "overview" /\ q.cred = token
      /\ q.stage = "sent" /\ ~q.old
  BY <1>0, LoadIsRequest, SomePanels
<1>3. req = [s \in Slots |-> IF authed /\ s = r THEN q ELSE Idle]
  BY <1>1
<1> HIDE DEF q
<1>4. Typed
  <2>1. req \in [Slots -> Request]
    BY <1>2, <1>3, IdleIsRequest
  <2>2. QueryTyped
    BY <1>0, SomePanels DEF QueryTyped
  <2>3. EntryTyped /\ ShownTyped
    BY <1>0 DEF EntryTyped, ShownTyped
  <2> QED BY <2>1, <2>2, <2>3 DEF Typed
<1>5. Verdicts /\ Gated
  BY <1>2, <1>3, IdleIsRequest DEF Verdicts, Judged, Gated, AtGate
<1>6. SpinnerIsAWait
  <2>1. ASSUME NEW p \in Panels, loading[p]
        PROVE  req[r].kind = "load" /\ req[r].panel = p /\ ~req[r].old
    <3>1. authed /\ p = "overview"
      BY <1>0, <2>1
    <3> QED BY <1>2, <1>3, <3>1
  <2> QED BY <1>0, <2>1 DEF SpinnerIsAWait
<1>7. Empty
  BY <1>0 DEF Empty
<1>8. InVain
  <2> SUFFICES ASSUME token # Secret, NEW t \in Slots, req[t].kind = "load"
               PROVE  req[t].cred # Secret
    BY DEF InVain, Unproven, Vain
  <2> QED BY <1>2, <1>3, IdleIsRequest
<1> QED BY <1>4, <1>5, <1>6, <1>7, <1>8 DEF IInv

\* ... and every step keeps it.
LEMMA NextPreserves == IInv /\ [Next]_vars => IInv'
<1> SUFFICES ASSUME IInv, [Next]_vars PROVE IInv'
  OBVIOUS
<1>1. CASE UNCHANGED vars
  BY <1>1, Quiet DEF vars, query, IInv, Typed, QueryTyped
<1>2. ASSUME NEW r \in Slots, Operate(r) PROVE IInv'
  BY <1>2, SubmitStep, OpenTabStep, RefreshStep, AskSteps, DeleteStep, RemountStep
     DEF Operate
<1>3. ASSUME NEW r \in Slots, Receive(r) PROVE IInv'
  BY <1>3, ReceiveVerifyStep, ReceiveLoadStep, ReceiveDeleteStep DEF Receive
<1> QED BY <1>1, <1>2, <1>3, ClearTokenStep, CapabilitiesStep, ServeStep, LoseStep
        DEF Next

\* The inductive invariant holds in every reachable state.
THEOREM Invariance == Spec => []IInv
BY InitEstablishes, NextPreserves, PTL DEF Spec

\* Every variable of the console keeps its type.
THEOREM TypeCorrect == Spec => []TypeOK
<1>1. IInv => TypeOK
  BY TypedIsTypeOK DEF IInv
<1> QED BY <1>1, Invariance, PTL

\* A panel with its spinner, and a busy gate, have a request to wait for.
THEOREM SpinnerAlwaysWaits == Spec => []SpinnerIsAWait
<1>1. IInv => SpinnerIsAWait
  BY DEF IInv
<1> QED BY <1>1, Invariance, PTL

\* Rows are on screen only under a token that the server accepts, although a
\* stored token opens the console before it is verified.
THEOREM RowsAlwaysNeedSecret == Spec => []RowsNeedSecret
<1>1. IInv => RowsNeedSecret
  BY DEF IInv, Empty, Unproven, RowsNeedSecret
<1> QED BY <1>1, Invariance, PTL

-----------------------------------------------------------------------------
\* What a quiet list shows is the server's.

OnScreen(l) == authed /\ tab = l /\ l \notin overlapped

Truth(l) ==
  LET M == Matching(exists[l], filter[l])
  IN  rows[l] = Page(M, offset[l]) /\ total[l] = Cardinality(M)

\* The request q of the list l is this page's, for the query on screen; a load
\* that was answered brings what the server has for it now.
Asks(l, q) ==
  /\ ~q.old /\ q.f = filter[l] /\ q.o = offset[l]
  /\ q.kind = "load" /\ q.stage = "ok" =>
       LET M == Matching(exists[l], filter[l])
       IN  q.got = Page(M, offset[l]) /\ q.count = Cardinality(M)

\* A list on screen that was not asked twice at once waits for one request at
\* most, and shows the server's rows if it waits for none.
Settled(l) ==
  OnScreen(l) =>
    /\ \A a, b \in Pending(l) : a = b
    /\ \A r \in Pending(l) : Asks(l, req[r])
    /\ Pending(l) = {} /\ ~error[l] => Truth(l)

Settling == \A l \in Lists : Settled(l)

\* A list that neither its requests nor its rows, here and at the server,
\* moved under stays settled.
LEMMA StaysSettled ==
  ASSUME NEW l \in Lists, Settled(l), NEW r \in Slots, OnlyMoved(r),
         r \notin Pending(l), r \notin Pending(l)',
         exists'[l] = exists[l], filter'[l] = filter[l], offset'[l] = offset[l],
         rows'[l] = rows[l], total'[l] = total[l], error'[l] = error[l],
         OnScreen(l)' => OnScreen(l)
  PROVE  Settled(l)'
<1>1. Pending(l)' = Pending(l) /\ \A t \in Pending(l) : req'[t] = req[t]
  BY DEF Pending, OnlyMoved
<1> SUFFICES ASSUME OnScreen(l)'
             PROVE  /\ \A a, b \in Pending(l)' : a = b
                    /\ \A t \in Pending(l)' : Asks(l, req[t])'
                    /\ Pending(l)' = {} /\ ~error'[l] => Truth(l)'
  BY DEF Settled
<1>2. /\ \A a, b \in Pending(l) : a = b
      /\ \A t \in Pending(l) : Asks(l, req[t])
      /\ Pending(l) = {} /\ ~error[l] => Truth(l)
  BY DEF Settled
<1>3. \A t \in Pending(l) : Asks(l, req[t])'
  BY <1>1, <1>2 DEF Asks
<1>4. Truth(l) => Truth(l)'
  BY DEF Truth
<1> QED BY <1>1, <1>2, <1>3, <1>4

\* A list whose only request asks for the query on screen is settled.
LEMMA AskedAlone ==
  ASSUME NEW l \in Lists, NEW r \in Slots, OnlyMoved(r),
         Pending(l) \subseteq {r}, r \in Pending(l)', Asks(l, req[r])'
  PROVE  Settled(l)'
<1>1. Pending(l)' = {r}
  BY DEF Pending, OnlyMoved
<1> QED BY <1>1 DEF Settled

\* The query that a load carries.
LEMMA LoadAsks ==
  ASSUME NEW p, NEW f, NEW o, NEW tok
  PROVE  /\ LoadOf(p, f, o, tok).kind = "load" /\ LoadOf(p, f, o, tok).panel = p
         /\ LoadOf(p, f, o, tok).f = f /\ LoadOf(p, f, o, tok).o = o
         /\ LoadOf(p, f, o, tok).stage = "sent" /\ ~LoadOf(p, f, o, tok).old
BY DEF LoadOf, Idle

\* A load of the list l for the query on screen, with nothing else under way.
LEMMA LoadedAlone ==
  ASSUME Typed, NEW l \in Lists, NEW r \in Slots, Pending(l) \subseteq {r}, NEW tok,
         StartLoad(r, l, filter'[l], offset'[l], tok)
  PROVE  Settled(l)'
<1> DEFINE q == LoadOf(l, filter'[l], offset'[l], tok)
<1>1. /\ q.kind = "load" /\ q.panel = l /\ q.f = filter'[l] /\ q.o = offset'[l]
      /\ q.stage = "sent" /\ ~q.old
  BY LoadAsks
<1>2. req' = [req EXCEPT ![r] = q]
  BY DEF StartLoad
<1> HIDE DEF q
<1>3. req'[r] = q /\ OnlyMoved(r)
  BY <1>2 DEF Typed, OnlyMoved
<1>4. r \in Pending(l)'
  BY <1>1, <1>3 DEF Pending
<1>5. Asks(l, req[r])'
  BY <1>1, <1>3 DEF Asks
<1> QED BY <1>3, <1>4, <1>5, AskedAlone

\* The effects load the list on screen for the query on screen.
LEMMA EffectSettles ==
  ASSUME Typed, NEW r \in Slots, NEW t \in Tabs, tab' = t, Effect(r, t, token),
         t \in Lists => Overlap(t)
  PROVE  Settling'
<1> SUFFICES ASSUME NEW l \in Lists, l = t, l \notin overlapped'
             PROVE  Settled(l)'
  BY DEF Settling, Settled, OnScreen
<1>1. Pending(l) = {}
  BY DEF Overlap
<1>2. StartLoad(r, l, filter'[l], offset'[l], token)
  BY DEF Effect
<1> QED BY <1>1, <1>2, LoadedAlone

\* A step after which no list is on screen.
LEMMA OffScreen ==
  ASSUME ~authed' \/ tab' \notin Lists
  PROVE  Settling'
BY DEF Settling, Settled, OnScreen

\* The operator opens a tab, or presses 'Refresh'.
LEMMA TabSettles ==
  ASSUME IInv, NEW r \in Slots, (\E t \in Tabs : OpenTab(r, t)) \/ Refresh(r)
  PROVE  Settling'
<1>1. Typed /\ tab \in Tabs
  BY DEF IInv, Typed, QueryTyped
<1>2. ASSUME NEW t \in Tabs, OpenTab(r, t) PROVE Settling'
  BY <1>1, <1>2, EffectSettles DEF OpenTab
<1>3. CASE Refresh(r)
  <2>1. tab' = tab /\ Overlap(tab) /\ Effect(r, tab, token)
    BY <1>3 DEF Refresh
  <2>2. PICK t \in Tabs : t = tab
    BY <1>1
  <2> QED BY <1>1, <2>1, <2>2, EffectSettles
<1> QED BY <1>2, <1>3

\* The operator asks the list on screen for another filter or page.
LEMMA AskSettles ==
  ASSUME IInv, Settling, NEW r \in Slots, NEW l \in Lists, l = tab, NEW f, NEW o,
         Ask(r, l, f, o)
  PROVE  Settling'
<1>1. Typed /\ tab \in Tabs /\ tab' = tab
  BY DEF IInv, Typed, QueryTyped, Ask
<1>2. CASE <<f, o>> = <<filter[l], offset[l]>>
  <2>1. /\ filter' = filter /\ offset' = offset
        /\ UNCHANGED <<exists, authed, tab, rows, total, req, error, overlapped>>
    BY <1>1, <1>2 DEF Ask, Typed, QueryTyped, entry, shown
  <2> QED BY <2>1 DEF Settling, Settled, OnScreen, Asks, Truth, Pending
<1>3. CASE <<f, o>> # <<filter[l], offset[l]>>
  <2>1. Overlap(l) /\ Effect(r, l, token)
    BY <1>3 DEF Ask
  <2>2. PICK t \in Tabs : t = tab
    BY <1>1
  <2> QED BY <1>1, <2>1, <2>2, EffectSettles
<1> QED BY <1>2, <1>3

\* The operator deletes a row of the list on screen.
LEMMA DeleteSettles ==
  ASSUME IInv, Settling, NEW r \in Slots, NEW x \in Items, Delete(r, x)
  PROVE  Settling'
<1> SUFFICES ASSUME NEW l \in Lists, OnScreen(l)' PROVE Settled(l)'
  BY DEF Settling, Settled
<1> DEFINE q == [Idle EXCEPT !.kind = "delete", !.panel = tab, !.x = x,
                             !.f = filter[tab], !.o = offset[tab], !.cred = token]
<1>1. /\ q.kind = "delete" /\ q.panel = tab /\ q.f = filter[tab] /\ q.o = offset[tab]
      /\ ~q.old
  BY DEF Idle
<1>2. /\ req' = [req EXCEPT ![r] = q] /\ tab' = tab
      /\ filter' = filter /\ offset' = offset
      /\ overlapped' = overlapped \cup {k \in {tab} : Pending(k) # {}}
  BY DEF Delete, query
<1> HIDE DEF q
<1>3. l = tab /\ Pending(l) = {}
  BY <1>2 DEF OnScreen
<1>4. req'[r] = q /\ OnlyMoved(r)
  BY <1>2 DEF IInv, Typed, OnlyMoved
<1>5. r \in Pending(l)'
  BY <1>1, <1>3, <1>4 DEF Pending
<1>6. Asks(l, req[r])'
  BY <1>1, <1>2, <1>3, <1>4 DEF Asks
<1> QED BY <1>3, <1>4, <1>5, <1>6, AskedAlone

\* The operator's steps.
LEMMA OperateSettles ==
  ASSUME IInv, Settling, NEW r \in Slots, Operate(r)
  PROVE  Settling'
<1>1. ASSUME NEW tok \in Credentials, Submit(r, tok) PROVE Settling'
  BY <1>1, OffScreen DEF Submit
<1>2. ASSUME NEW f \in Filters, Search(r, f) PROVE Settling'
  <2>1. PICK l \in Lists : l = tab
    BY <1>2 DEF Search
  <2> QED BY <1>2, <2>1, AskSettles DEF Search
<1>3. CASE NextPage(r) \/ PrevPage(r)
  <2>1. PICK l \in Lists : l = tab
    BY <1>3 DEF NextPage, PrevPage
  <2>2. \E o : Ask(r, l, filter[l], o)
    BY <1>3, <2>1 DEF NextPage, PrevPage
  <2> QED BY <2>1, <2>2, AskSettles
<1>4. CASE Remount(r)
  BY <1>4, OffScreen, SomePanels DEF Remount
<1> QED BY <1>1, <1>2, <1>3, <1>4, TabSettles, DeleteSettles DEF Operate

\* The capabilities arrive.
LEMMA CapabilitiesSettle ==
  ASSUME IInv, Settling, NEW r \in Slots, CapabilitiesAnswer(r)
  PROVE  Settling'
<1>1. CASE tab = "billing"
  BY <1>1, OffScreen, SomePanels DEF CapabilitiesAnswer
<1>2. CASE tab # "billing"
  <2>1. UNCHANGED <<exists, authed, tab, filter, offset, rows, total, req, error, overlapped>>
    BY <1>2 DEF CapabilitiesAnswer, entry, query, shown
  <2> QED BY <2>1 DEF Settling, Settled, OnScreen, Asks, Truth, Pending
<1> QED BY <1>1, <1>2

\* The lone request of a list is answered, well or not, or its answer is lost.
LEMMA AnswerSettles ==
  ASSUME IInv, Settling, NEW r \in Slots, Serve(r) \/ Lose(r)
  PROVE  Settling'
<1> SUFFICES ASSUME NEW l \in Lists PROVE Settled(l)'
  BY DEF Settling
<1>1. UNCHANGED <<authed, tab, filter, offset, rows, total, error, overlapped>>
  BY DEF Serve, Lose, page, entry, query, shown
<1> DEFINE q == req[r]
           ok == q.cred = Secret
           gone == q.kind = "delete" /\ ok /\ q.x \in exists[q.panel]
           M == IF q.panel \in Lists THEN Matching(exists[q.panel], q.f) ELSE {}
<1>2. Typed /\ q \in Request /\ Settled(l) /\ (q.kind = "delete" => q.panel \in Lists)
  BY DEF IInv, Typed, Verdicts, Judged, Settling
<1>3. \/ exists' = exists
      \/ gone /\ exists' = [exists EXCEPT ![q.panel] = @ \ {q.x}]
  BY DEF Serve, Lose
<1>4. PICK a : /\ req' = [req EXCEPT ![r] = a]
               /\ a.kind = q.kind /\ a.panel = q.panel /\ a.f = q.f /\ a.o = q.o
               /\ a.old = q.old
               /\ a.kind = "load" /\ a.stage = "ok" =>
                    \/ a = q
                    \/ a.got = Page(M, q.o) /\ a.count = Cardinality(M)
  <2>1. CASE Lose(r)
    <3> DEFINE b == [q EXCEPT !.stage = "failed"]
    <3>1. /\ b.kind = q.kind /\ b.panel = q.panel /\ b.f = q.f /\ b.o = q.o
          /\ b.old = q.old /\ b.stage = "failed"
      BY <1>2 DEF Request
    <3>2. req' = [req EXCEPT ![r] = b]
      BY <1>2, <2>1 DEF Lose, Typed
    <3> HIDE DEF b
    <3> QED BY <3>1, <3>2
  <2>2. CASE Serve(r)
    <3>1. req' = [req EXCEPT ![r] =
              IF ~ok THEN [q EXCEPT !.stage = "refused"]
              ELSE IF q.kind = "load"
                THEN [q EXCEPT !.stage = "ok", !.got = Page(M, q.o),
                               !.count = Cardinality(M)]
              ELSE [q EXCEPT !.stage =
                      IF q.kind = "verify" \/ gone THEN "ok" ELSE "failed"]]
      BY <2>2 DEF Serve
    <3> HIDE DEF M, gone
    <3>2. CASE ~ok
      <4> DEFINE b == [q EXCEPT !.stage = "refused"]
      <4>1. /\ b.kind = q.kind /\ b.panel = q.panel /\ b.f = q.f /\ b.o = q.o
            /\ b.old = q.old /\ b.stage = "refused"
        BY <1>2 DEF Request
      <4>2. req' = [req EXCEPT ![r] = b]
        BY <3>1, <3>2
      <4> HIDE DEF b
      <4> QED BY <4>1, <4>2
    <3>3. CASE ok /\ q.kind = "load"
      <4> DEFINE b == [q EXCEPT !.stage = "ok", !.got = Page(M, q.o),
                                !.count = Cardinality(M)]
      <4>1. /\ b.kind = q.kind /\ b.panel = q.panel /\ b.f = q.f /\ b.o = q.o
            /\ b.old = q.old /\ b.got = Page(M, q.o) /\ b.count = Cardinality(M)
        BY <1>2 DEF Request
      <4>2. req' = [req EXCEPT ![r] = b]
        BY <3>1, <3>3
      <4> HIDE DEF b
      <4> QED BY <4>1, <4>2
    <3>4. CASE ok /\ q.kind # "load"
      <4> DEFINE b == [q EXCEPT !.stage =
                         IF q.kind = "verify" \/ gone THEN "ok" ELSE "failed"]
      <4>1. /\ b.kind = q.kind /\ b.panel = q.panel /\ b.f = q.f /\ b.o = q.o
            /\ b.old = q.old
        BY <1>2 DEF Request
      <4>2. req' = [req EXCEPT ![r] = b]
        BY <3>1, <3>4
      <4> HIDE DEF b
      <4> QED BY <3>4, <4>1, <4>2
    <3> QED BY <3>2, <3>3, <3>4
  <2> QED BY <2>1, <2>2
<1>5. req'[r] = a /\ OnlyMoved(r) /\ (r \in Pending(l) <=> r \in Pending(l)')
  BY <1>2, <1>4 DEF Typed, OnlyMoved, Pending
<1>6. CASE r \notin Pending(l)
  <2>1. exists'[l] = exists[l]
    BY <1>2, <1>3, <1>6 DEF Pending, Typed, QueryTyped
  <2> QED BY <1>1, <1>2, <1>5, <1>6, <2>1, StaysSettled DEF OnScreen
<1>7. CASE r \in Pending(l)
  <2> SUFFICES ASSUME OnScreen(l) PROVE Settled(l)'
    BY <1>1 DEF Settled, OnScreen
  <2>1. Pending(l) = {r} /\ Asks(l, q) /\ q.panel = l
    BY <1>2, <1>7 DEF Settled, Pending
  <2>2. q.kind = "load" => exists' = exists /\ M = Matching(exists[l], filter[l])
    BY <1>3, <2>1 DEF Asks
  <2>3. Asks(l, req[r])'
    <3>1. ~a.old /\ a.f = filter'[l] /\ a.o = offset'[l]
      BY <1>1, <1>4, <2>1 DEF Asks
    <3>2. ASSUME a.kind = "load", a.stage = "ok"
          PROVE  /\ a.got = Page(Matching(exists'[l], filter'[l]), offset'[l])
                 /\ a.count = Cardinality(Matching(exists'[l], filter'[l]))
      <4>1. exists' = exists /\ M = Matching(exists'[l], filter'[l])
        BY <1>1, <1>4, <2>2, <3>2
      <4>2. CASE a = q
        BY <1>1, <2>1, <3>2, <4>1, <4>2 DEF Asks
      <4>3. CASE a # q
        BY <1>1, <1>4, <2>1, <3>2, <4>1, <4>3 DEF Asks
      <4> QED BY <4>2, <4>3
    <3> QED BY <1>5, <3>1, <3>2 DEF Asks
  <2> QED BY <1>5, <1>7, <2>1, <2>3, AskedAlone
<1> QED BY <1>6, <1>7

\* The gate opens: the list of the tab is loaded again.
LEMMA VerifySettles ==
  ASSUME IInv, Settling, NEW r \in Slots, ReceiveVerify(r)
  PROVE  Settling'
<1> SUFFICES ASSUME NEW l \in Lists, OnScreen(l)' PROVE Settled(l)'
  BY DEF Settling, Settled
<1>1. /\ Typed /\ Settled(l) /\ l \in Panels /\ req[r].kind = "verify"
      /\ r \notin Pending(l)
      /\ UNCHANGED <<exists, tab, filter, offset, rows, total>>
  BY SomePanels DEF ReceiveVerify, Answered, query, shown, IInv, Settling, Pending
<1>2. tab = l
  BY <1>1 DEF OnScreen
<1>3. CASE req[r].stage = "ok" /\ ~req[r].old
  <2>1. Overlap(l) /\ StartLoad(r, l, filter'[l], offset'[l], token)
    BY <1>1, <1>2, <1>3 DEF ReceiveVerify
  <2>2. Pending(l) = {}
    BY <2>1 DEF Overlap, OnScreen
  <2> QED BY <1>1, <2>1, <2>2, LoadedAlone
<1>4. CASE req[r].stage # "ok" \/ req[r].old
  <2>1. Done(r) /\ authed' = authed /\ UNCHANGED <<error, overlapped>>
    BY <1>1, <1>4 DEF ReceiveVerify, IInv, Typed, EntryTyped
  <2>2. OnlyMoved(r) /\ req'[r] = Idle
    BY <2>1, Ends
  <2>3. r \notin Pending(l)'
    BY <2>2, IdleIsRequest DEF Pending
  <2> QED BY <1>1, <2>1, <2>2, <2>3, StaysSettled DEF OnScreen
<1> QED BY <1>3, <1>4

\* The list is filled with the answer to its lone load.
LEMMA LoadSettles ==
  ASSUME IInv, Settling, NEW r \in Slots, ReceiveLoad(r)
  PROVE  Settling'
<1> SUFFICES ASSUME NEW l \in Lists, OnScreen(l)' PROVE Settled(l)'
  BY DEF Settling, Settled
<1> DEFINE q == req[r]
           p == q.panel
           sets == p \in Lists /\ ~q.old /\ q.stage # "refused"
<1>1. /\ Typed /\ Settled(l) /\ l \in Panels /\ q \in Request /\ p \in Panels
      /\ q.kind = "load" /\ q.stage # "sent" /\ Done(r)
      /\ UNCHANGED <<exists, tab, filter, offset, overlapped>>
  BY SomePanels DEF ReceiveLoad, Answered, query, IInv, Typed, Settling, Request
<1>2. /\ error' = IF q.old THEN error ELSE [error EXCEPT ![p] = @ \/ q.stage = "failed"]
      /\ rows' = IF sets THEN [rows EXCEPT ![p] = IF q.stage # "ok" THEN {} ELSE q.got]
                 ELSE rows
      /\ total' = IF sets THEN [total EXCEPT ![p] = IF q.stage # "ok" THEN 0 ELSE q.count]
                  ELSE total
      /\ IF q.stage = "refused" THEN authed' = (authed /\ q.old) ELSE authed' = authed
  BY DEF ReceiveLoad, Unauthorized
<1>3. OnScreen(l) /\ (q.stage = "refused" => q.old)
  BY <1>1, <1>2 DEF OnScreen
<1>4. OnlyMoved(r) /\ req'[r] = Idle /\ r \notin Pending(l)'
  BY <1>1, Ends, IdleIsRequest DEF Pending
<1>5. CASE p # l
  <2>1. rows'[l] = rows[l] /\ total'[l] = total[l] /\ error'[l] = error[l]
    BY <1>1, <1>2, <1>5 DEF Typed, ShownTyped
  <2>2. r \notin Pending(l)
    BY <1>5 DEF Pending
  <2> QED BY <1>1, <1>3, <1>4, <2>1, <2>2, StaysSettled
<1>6. CASE p = l
  <2>1. Pending(l) = {r} /\ Asks(l, q)
    BY <1>1, <1>3, <1>6 DEF Settled, Pending
  <2>2. Pending(l)' = {}
    BY <1>4, <2>1 DEF Pending, OnlyMoved
  <2>3. ASSUME ~error'[l] PROVE Truth(l)'
    <3>1. ~q.old /\ q.stage = "ok"
      BY <1>1, <1>2, <1>3, <1>6, <2>1, <2>3 DEF Asks, Typed, ShownTyped, Request
    <3>2. rows'[l] = q.got /\ total'[l] = q.count
      BY <1>1, <1>2, <1>6, <3>1 DEF Typed, ShownTyped
    <3> QED BY <1>1, <2>1, <3>1, <3>2 DEF Asks, Truth
  <2> QED BY <2>2, <2>3 DEF Settled
<1> QED BY <1>5, <1>6

\* After its lone deletion the list is loaded again, for the query on screen.
LEMMA DeletedSettles ==
  ASSUME IInv, Settling, NEW r \in Slots, ReceiveDelete(r)
  PROVE  Settling'
<1> SUFFICES ASSUME NEW l \in Lists, OnScreen(l)' PROVE Settled(l)'
  BY DEF Settling, Settled
<1> DEFINE q == req[r]
           p == q.panel
<1>1. /\ Typed /\ Settled(l) /\ l \in Panels /\ q \in Request /\ p \in Panels
      /\ q.kind = "delete" /\ q.stage \in {"ok", "refused", "failed"}
      /\ UNCHANGED <<exists, tab, filter, offset, rows, total>>
  BY SomePanels DEF ReceiveDelete, Answered, query, shown, IInv, Typed, Settling, Request
<1>2. /\ authed' = (authed /\ (q.stage = "refused" => q.old))
      /\ overlapped \subseteq overlapped' /\ (q.stage = "failed" => p \in overlapped')
  BY <1>1 DEF ReceiveDelete, Unauthorized, Typed, EntryTyped
<1>3. OnScreen(l) /\ (q.stage = "refused" => q.old) /\ (q.stage = "failed" => p # l)
  BY <1>1, <1>2 DEF OnScreen
<1>4. OnlyMoved(r)
  BY <1>1 DEF ReceiveDelete, Done, StartLoad, Typed, OnlyMoved
<1>5. CASE p # l
  <2>1. r \notin Pending(l) /\ error'[l] = error[l]
    BY <1>1, <1>5 DEF Pending, ReceiveDelete, StartLoad, Typed, ShownTyped
  <2>2. req'[r].panel = p \/ req'[r].kind = "idle"
    <3>1. \/ req'[r] = Idle
          \/ req'[r] = LoadOf(p, q.f, q.o, token)
          \/ req'[r] = [LoadOf(p, q.f, q.o, token) EXCEPT !.old = TRUE]
      BY <1>1 DEF ReceiveDelete, Done, StartLoad, Typed
    <3> DEFINE b == LoadOf(p, q.f, q.o, token)
    <3>2. b.panel = p
      BY LoadAsks
    <3>3. [b EXCEPT !.old = TRUE].panel = b.panel
      BY DEF LoadOf, Idle
    <3> HIDE DEF b
    <3> QED BY <3>1, <3>2, <3>3, IdleIsRequest DEF b
  <2>3. r \notin Pending(l)'
    BY <1>5, <2>2 DEF Pending
  <2> QED BY <1>1, <1>3, <1>4, <2>1, <2>3, StaysSettled
<1>6. CASE p = l
  <2>1. Pending(l) = {r} /\ Asks(l, q)
    BY <1>1, <1>3, <1>6 DEF Settled, Pending
  <2>2. q.stage = "ok" /\ ~q.old /\ q.f = filter'[l] /\ q.o = offset'[l]
    BY <1>1, <1>3, <1>6, <2>1 DEF Asks
  <2>3. StartLoad(r, l, filter'[l], offset'[l], token)
    BY <1>1, <1>6, <2>2 DEF ReceiveDelete
  <2> QED BY <1>1, <2>1, <2>3, LoadedAlone
<1> QED BY <1>5, <1>6

\* At first the overview is on screen; every step keeps the lists settled.
LEMMA SettlingInduction ==
  /\ Init => Settling
  /\ IInv /\ Settling /\ [Next]_vars => Settling'
<1>1. Init => Settling
  BY SomePanels DEF Init, Settling, Settled, OnScreen
<1>2. ASSUME IInv, Settling, [Next]_vars PROVE Settling'
  <2>1. CASE UNCHANGED vars
    BY <1>2, <2>1 DEF vars, entry, query, shown, Settling, Settled, OnScreen, Asks,
                      Truth, Pending
  <2>2. CASE ClearToken
    BY <2>2, OffScreen DEF ClearToken
  <2>3. ASSUME NEW r \in Slots, Receive(r) PROVE Settling'
    BY <1>2, <2>3, VerifySettles, LoadSettles, DeletedSettles DEF Receive
  <2> QED BY <1>2, <2>1, <2>2, <2>3, OperateSettles, CapabilitiesSettle, AnswerSettles
          DEF Next
<1> QED BY <1>1, <1>2

\* A list on screen that overlapped no requests is settled in every reachable
\* state.
THEOREM AlwaysSettling == Spec => []Settling
BY Invariance, SettlingInduction, PTL DEF Spec

\* A list that waits for nothing shows what the server has for the query on
\* screen, after any searches, pages, deletions, tabs and tokens.
THEOREM QuietAlwaysTrue == Spec => []QuietMeansTrue
<1>1. Settling => QuietMeansTrue
  BY DEF Settling, Settled, OnScreen, Truth, QuietMeansTrue
<1> QED BY <1>1, AlwaysSettling, PTL
=============================================================================
