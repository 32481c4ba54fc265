---------------------------- MODULE AdminConsole ----------------------------
(***************************************************************************)
(* The operator's console (features/admin-dashboard.tsx with the admin      *)
(* calls of restClient.ts): the gate that asks for ADMIN_SECRET, the        *)
(* overview, and the two paged lists, of users and of jobs, with their      *)
(* filters, their pagers and the deletion of a row.                         *)
(*                                                                          *)
(* Every load is a request with the query of the moment it is sent; nothing *)
(* ties its answer to the query of the moment it arrives.  The effects that *)
(* reload a panel belong to the step that changes what they depend on.      *)
(***************************************************************************)
EXTENDS Naturals, FiniteSets

CONSTANTS
  Slots,        \* requests that may be in flight together
  NoSlot,
  Secret,       \* ADMIN_SECRET
  Others,       \* other values an operator may type, or have stored before
  NoToken,
  Tabs,         \* the tabs that are opened, of the five there are
  Items,        \* the rows of a list: the larger, the newer
  Found,        \* those that the filter "some" selects
  PageSize,     \* PAGE_SIZE
  Hosted        \* HOSTED_MODE, as /v1/capabilities reports it

AllTabs == {"overview", "users", "jobs", "billing", "settings"}
Lists == Tabs \cap {"users", "jobs"}
Panels == Lists \cup {"overview"}

ASSUME AdminAssumption ==
  /\ NoSlot \notin Slots
  /\ NoToken \notin Others \cup {Secret} /\ Secret \notin Others
  /\ Tabs \subseteq AllTabs /\ "overview" \in Tabs
  /\ Items \subseteq Nat /\ IsFiniteSet(Items) /\ Found \subseteq Items
  /\ PageSize \in Nat \ {0}
  /\ Hosted \in BOOLEAN

VARIABLES
  exists,         \* server: the rows of each list
  token,          \* localStorage: the admin token
  authed,         \* the gate has been passed
  gate,           \* the request the gate waits for: its `busy`
  tab,            \* activeTab
  hosted,
  filter, offset, \* the query of each list
  rows, total,    \* what each list shows
  loading, error, \* of each panel
  req,            \* the requests in flight
  overlapped,     \* history: lists with two requests at once since they were
                  \* last loaded by one alone, or a deletion of unknown outcome
  late            \* history: a refusal dropped a token it was not about

query == <<filter, offset>>
shown == <<rows, total>>
entry == <<token, authed, gate>>
vars == <<exists, entry, tab, hosted, query, shown, loading, error, req,
          overlapped, late>>

Filters == {"all", "some"}
Credentials == Others \cup {Secret, NoToken}

Matching(S, f) == IF f = "all" THEN S ELSE S \cap Found

\* LIMIT PageSize OFFSET o, the newest row first.
Page(S, o) ==
  {x \in S : Cardinality({y \in S : y > x}) \in o..(o + PageSize - 1)}

Request ==
  [ kind : {"idle", "verify", "load", "delete"},
    panel : Panels, f : Filters, o : Nat, x : Items \cup {0},
    cred : Credentials,
    stage : {"sent", "ok", "refused", "failed"},
    got : SUBSET Items, count : Nat,       \* the answer to a load
    old : BOOLEAN ]                        \* its page was left

Idle == [kind |-> "idle", panel |-> "overview", f |-> "all", o |-> 0, x |-> 0,
         cred |-> NoToken, stage |-> "sent", got |-> {}, count |-> 0,
         old |-> FALSE]

TypeOK ==
  /\ exists \in [Lists -> SUBSET Items]
  /\ token \in Credentials /\ authed \in BOOLEAN
  /\ gate \in Slots \cup {NoSlot}
  /\ tab \in Tabs /\ hosted \in BOOLEAN
  /\ filter \in [Lists -> Filters] /\ offset \in [Lists -> Nat]
  /\ rows \in [Lists -> SUBSET Items] /\ total \in [Lists -> Nat]
  /\ loading \in [Panels -> BOOLEAN] /\ error \in [Panels -> BOOLEAN]
  /\ req \in [Slots -> Request]
  /\ overlapped \subseteq Lists /\ late \in BOOLEAN

-----------------------------------------------------------------------------
(* Requests. *)

Free(r) == req[r].kind = "idle"

\* Requests of this page that will set the rows of the list l.
Pending(l) ==
  {r \in Slots : req[r].kind \in {"load", "delete"} /\ req[r].panel = l}

LoadOf(p, f, o, tok) ==
  [Idle EXCEPT !.kind = "load", !.panel = p, !.f = f, !.o = o, !.cred = tok]

\* loadOverview, loadUsers, loadJobs up to the await; f and o are the query of
\* the closure that is called, tok the stored token.
StartLoad(r, p, f, o, tok) ==
  /\ req' = [req EXCEPT ![r] = LoadOf(p, f, o, tok)]
  /\ loading' = [loading EXCEPT ![p] = TRUE]
  /\ error' = [error EXCEPT ![p] = FALSE]

\* Mutant: the query of the closure before.
EffectMutantStaleQuery(r, t, tok) ==
  /\ Free(r)
  /\ IF t \in Lists THEN StartLoad(r, t, filter[t], offset[t], tok)
     ELSE IF t = "overview" THEN StartLoad(r, t, "all", 0, tok)
     ELSE UNCHANGED <<req, loading, error>>

\* The effects: the panel of the tab t is loaded, if t has one.
Effect(r, t, tok) ==
  /\ Free(r)
  /\ IF t \in Lists THEN StartLoad(r, t, filter'[t], offset'[t], tok)
     ELSE IF t = "overview" THEN StartLoad(r, t, "all", 0, tok)
     ELSE UNCHANGED <<req, loading, error>>

\* A request for the list l is sent, alone or beside another.
Overlap(l) ==
  overlapped' = IF l \notin Lists THEN overlapped
                ELSE IF Pending(l) = {} THEN overlapped \ {l}
                ELSE overlapped \cup {l}

Init ==
  /\ exists = [l \in Lists |-> Items]
  /\ token \in Credentials /\ authed = (token # NoToken)
  /\ gate = NoSlot
  /\ tab = "overview" /\ hosted = FALSE
  /\ filter = [l \in Lists |-> "all"] /\ offset = [l \in Lists |-> 0]
  /\ rows = [l \in Lists |-> {}] /\ total = [l \in Lists |-> 0]
  /\ error = [p \in Panels |-> FALSE]
  /\ loading = [p \in Panels |-> authed /\ p = "overview"]
  /\ \E r \in Slots :
       req = [s \in Slots |->
                IF authed /\ s = r THEN LoadOf("overview", "all", 0, token) ELSE Idle]
  /\ overlapped = {} /\ late = FALSE

-----------------------------------------------------------------------------
(* The operator. *)

\* Mutant: the gate opens before the token is verified.
SubmitMutantOpensAtOnce(r, tok) ==
  /\ ~authed /\ gate = NoSlot /\ Free(r)
  /\ tok \in Credentials \ {NoToken}
  /\ token' = tok /\ gate' = r /\ authed' = TRUE
  /\ req' = [req EXCEPT ![r] = [Idle EXCEPT !.kind = "verify", !.cred = tok]]
  /\ UNCHANGED <<exists, tab, hosted, query, shown, loading, error, overlapped, late>>

\* AdminLoginGate.submit: the token is stored before it is verified.
Submit(r, tok) ==
  /\ ~authed /\ gate = NoSlot /\ Free(r)
  /\ tok \in Credentials \ {NoToken}
  /\ token' = tok /\ gate' = r
  /\ req' = [req EXCEPT ![r] = [Idle EXCEPT !.kind = "verify", !.cred = tok]]
  /\ UNCHANGED <<exists, authed, tab, hosted, query, shown, loading, error,
                 overlapped, late>>

\* logoutAdmin.
ClearToken ==
  /\ authed
  /\ token' = NoToken /\ authed' = FALSE
  /\ UNCHANGED <<exists, gate, tab, hosted, query, shown, loading, error, req,
                 overlapped, late>>

OpenTab(r, t) ==
  /\ authed /\ t \in Tabs \ {tab} /\ (t = "billing" => ~hosted)
  /\ tab' = t
  /\ Overlap(t)
  /\ UNCHANGED <<exists, entry, hosted, query, shown, late>>
  /\ Effect(r, t, token)

\* "Refresh", and "Retry" of the overview; nothing disables it during a load.
Refresh(r) ==
  /\ authed /\ tab \in Panels
  /\ (tab = "overview" => ~loading[tab])
  /\ Overlap(tab)
  /\ UNCHANGED <<exists, entry, tab, hosted, query, shown, late>>
  /\ Effect(r, tab, token)

\* A new query: its effect runs when it differs from the last one.
Ask(r, l, f, o) ==
  /\ filter' = [filter EXCEPT ![l] = f]
  /\ offset' = [offset EXCEPT ![l] = o]
  /\ UNCHANGED <<exists, entry, tab, hosted, shown, late>>
  /\ IF <<f, o>> = <<filter[l], offset[l]>>
       THEN UNCHANGED <<req, loading, error, overlapped>>
       ELSE /\ Overlap(l)
            /\ Effect(r, l, token)

\* The search form of the users, the two selects of the jobs.
Search(r, f) == authed /\ tab \in Lists /\ Ask(r, tab, f, 0)

\* The table with its pager and its row menus is rendered between loads only.
TableShown(l) ==
  authed /\ tab = l /\ ~loading[l] /\ ~error[l] /\ rows[l] # {}

NextPage(r) ==
  /\ tab \in Lists /\ TableShown(tab)
  /\ offset[tab] + PageSize < total[tab]
  /\ Ask(r, tab, filter[tab], offset[tab] + PageSize)

PrevPage(r) ==
  /\ tab \in Lists /\ TableShown(tab)
  /\ offset[tab] # 0
  /\ Ask(r, tab, filter[tab],
         IF offset[tab] > PageSize THEN offset[tab] - PageSize ELSE 0)

\* onDeleteUser, onDeleteJob: the closure of the click keeps its query for the
\* reload that follows.
Delete(r, x) ==
  /\ tab \in Lists /\ TableShown(tab) /\ x \in rows[tab] /\ Free(r)
  /\ req' = [req EXCEPT ![r] =
       [Idle EXCEPT !.kind = "delete", !.panel = tab, !.x = x,
                    !.f = filter[tab], !.o = offset[tab], !.cred = token]]
  /\ overlapped' = overlapped \cup {l \in {tab} : Pending(l) # {}}
  /\ UNCHANGED <<exists, entry, tab, hosted, query, shown, loading, error, late>>

\* "Exit Admin Mode" and back: a new page, which takes the stored token for a
\* verified one; the handlers of the old page go on with their requests.
Remount(r) ==
  /\ Free(r)
  /\ authed' = (token # NoToken) /\ gate' = NoSlot
  /\ tab' = "overview" /\ hosted' = FALSE
  /\ filter' = [l \in Lists |-> "all"] /\ offset' = [l \in Lists |-> 0]
  /\ rows' = [l \in Lists |-> {}] /\ total' = [l \in Lists |-> 0]
  /\ error' = [p \in Panels |-> FALSE]
  /\ loading' = [p \in Panels |-> authed' /\ p = "overview"]
  /\ req' = [s \in Slots |->
       IF s = r THEN (IF authed' THEN LoadOf("overview", "all", 0, token) ELSE Idle)
       ELSE IF Free(s) THEN Idle ELSE [req[s] EXCEPT !.old = TRUE]]
  /\ overlapped' = {}
  /\ UNCHANGED <<exists, token, late>>

\* The capabilities arrive: the billing tab is for self-hosted operators only.
CapabilitiesAnswer(r) ==
  /\ ~hosted /\ Hosted
  /\ hosted' = TRUE
  /\ UNCHANGED <<exists, entry, query, shown, overlapped, late>>
  /\ IF tab = "billing"
       THEN tab' = "overview" /\ (IF authed THEN Effect(r, "overview", token)
                                  ELSE UNCHANGED <<req, loading, error>>)
       ELSE UNCHANGED <<tab, req, loading, error>>

-----------------------------------------------------------------------------
(* The server, and the network. *)

page == <<entry, tab, hosted, query, shown, loading, error, late>>

Serve(r) ==
  /\ ~Free(r) /\ req[r].stage = "sent"
  /\ UNCHANGED <<page, overlapped>>
  /\ LET q == req[r]
         l == q.panel
         ok == q.cred = Secret
         M == IF l \in Lists THEN Matching(exists[l], q.f) ELSE {}
         gone == q.kind = "delete" /\ ok /\ q.x \in exists[l]
     IN  /\ exists' = IF gone THEN [exists EXCEPT ![l] = @ \ {q.x}] ELSE exists
         /\ req' = [req EXCEPT ![r] =
              IF ~ok THEN [q EXCEPT !.stage = "refused"]
              ELSE IF q.kind = "load"
                THEN [q EXCEPT !.stage = "ok", !.got = Page(M, q.o),
                               !.count = Cardinality(M)]
              ELSE [q EXCEPT !.stage =
                      IF q.kind = "verify" \/ gone THEN "ok" ELSE "failed"]]

\* The connection breaks, before or after the server has handled the request.
Lose(r) ==
  /\ ~Free(r) /\ req[r].stage # "failed"
  /\ req' = [req EXCEPT ![r].stage = "failed"]
  /\ UNCHANGED <<exists, page, overlapped>>

-----------------------------------------------------------------------------
(* The page handles an answer. *)

Answered(r, kind) == req[r].kind = kind /\ req[r].stage # "sent"

Done(r) == req' = [req EXCEPT ![r] = Idle]

\* setAdminToken(''): whatever token is stored by now.
DropToken(r) ==
  /\ token' = NoToken
  /\ late' = (late \/ req[r].old \/ token # req[r].cred)

\* handleUnauthorized for 401 and 503; a page that was left keeps no state.
Unauthorized(r) ==
  /\ DropToken(r)
  /\ authed' = (authed /\ req[r].old)

\* Mutant: an error leaves the gate busy.
GateDoneMutantOnOk(r) ==
  gate' = IF gate = r /\ req[r].stage = "ok" THEN NoSlot ELSE gate

\* The gate's `busy` ends with the request it waits for.
GateDone(r) == gate' = IF gate = r THEN NoSlot ELSE gate

\* The rest of AdminLoginGate.submit: onAuthed, and with it the effect of the
\* tab; or any error at all, which drops the token.
ReceiveVerify(r) ==
  /\ Answered(r, "verify")
  /\ GateDone(r)
  /\ UNCHANGED <<exists, tab, hosted, query, shown>>
  /\ IF req[r].stage = "ok"
       THEN /\ UNCHANGED <<token, late>>
            /\ IF req[r].old \/ tab \notin Panels
                 THEN /\ authed' = (authed \/ ~req[r].old)
                      /\ Done(r)
                      /\ UNCHANGED <<loading, error, overlapped>>
                 ELSE /\ authed' = TRUE
                      /\ Overlap(tab)
                      /\ LET l == tab \in Lists IN
                         StartLoad(r, tab, IF l THEN filter[tab] ELSE "all",
                                   IF l THEN offset[tab] ELSE 0, token)
       ELSE /\ DropToken(r)
            /\ Done(r)
            /\ UNCHANGED <<authed, loading, error, overlapped>>

\* The rest of a load, in the order of try, catch and finally.
ReceiveLoad(r) ==
  /\ Answered(r, "load")
  /\ Done(r)
  /\ UNCHANGED <<exists, gate, tab, hosted, query, overlapped>>
  /\ LET q == req[r]
         l == q.panel
         bad == q.stage # "ok"
         sets == l \in Lists /\ ~q.old /\ q.stage # "refused"
     IN  /\ IF q.stage = "refused" THEN Unauthorized(r)
            ELSE UNCHANGED <<token, authed, late>>
         /\ loading' = IF q.old THEN loading ELSE [loading EXCEPT ![l] = FALSE]
         /\ error' = IF q.old THEN error
                     ELSE [error EXCEPT ![l] = @ \/ q.stage = "failed"]
         /\ rows' = IF sets THEN [rows EXCEPT ![l] = IF bad THEN {} ELSE q.got]
                    ELSE rows
         /\ total' = IF sets THEN [total EXCEPT ![l] = IF bad THEN 0 ELSE q.count]
                     ELSE total

\* The rest of onDeleteUser and onDeleteJob: the list is loaded again with the
\* query of the click.  (They would load the overview too if it had been the
\* tab of the click, which has no rows to delete.)
ReceiveDelete(r) ==
  /\ Answered(r, "delete")
  /\ UNCHANGED <<exists, gate, tab, hosted, query, shown>>
  /\ LET q == req[r]
         l == q.panel
     IN  CASE q.stage = "refused" ->
                Unauthorized(r) /\ Done(r) /\ UNCHANGED <<loading, error, overlapped>>
           [] q.stage = "failed" ->
                /\ Done(r)
                /\ overlapped' = overlapped \cup {l}
                /\ UNCHANGED <<token, authed, loading, error, late>>
           [] q.stage = "ok" /\ ~q.old ->
                /\ StartLoad(r, l, q.f, q.o, token)
                /\ UNCHANGED <<token, authed, overlapped, late>>
           [] q.stage = "ok" /\ q.old ->
                /\ req' = [req EXCEPT ![r] =
                             [LoadOf(l, q.f, q.o, token) EXCEPT !.old = TRUE]]
                /\ UNCHANGED <<token, authed, loading, error, overlapped, late>>

-----------------------------------------------------------------------------
Receive(r) == ReceiveVerify(r) \/ ReceiveLoad(r) \/ ReceiveDelete(r)

Operate(r) ==
  \/ \E tok \in Credentials : Submit(r, tok)
  \/ \E t \in Tabs : OpenTab(r, t)
  \/ Refresh(r)
  \/ \E f \in Filters : Search(r, f)
  \/ NextPage(r) \/ PrevPage(r)
  \/ \E x \in Items : Delete(r, x)
  \/ Remount(r)

Next ==
  \/ ClearToken
  \/ \E r \in Slots :
       Operate(r) \/ CapabilitiesAnswer(r) \/ Serve(r) \/ Lose(r) \/ Receive(r)

Spec == Init /\ [][Next]_vars

-----------------------------------------------------------------------------
(* Properties. *)

\* What a list shows when it waits for nothing is what the server has for the
\* query on screen: after any searches, pages and deletions, tabs left and
\* taken up again, a token dropped and another one given.  Requests for one
\* list that overlap void this until a load is sent alone.
QuietMeansTrue ==
  \A l \in Lists :
    authed /\ tab = l /\ Pending(l) = {} /\ ~error[l] /\ l \notin overlapped
      => LET M == Matching(exists[l], filter[l])
         IN  rows[l] = Page(M, offset[l]) /\ total[l] = Cardinality(M)

\* A panel that shows its spinner has a load to wait for, and a busy gate its
\* verification, also after a refusal returned from the middle of a handler:
\* nothing on the page waits for ever once the server answers.
SpinnerIsAWait ==
  /\ \A p \in Panels :
       loading[p] => \E r \in Slots :
         req[r].kind = "load" /\ req[r].panel = p /\ ~req[r].old
  /\ gate # NoSlot => req[gate].kind = "verify" /\ ~req[gate].old

\* Rows are on screen only under a token that the server accepts: a token that
\* was stored and not verified yet opens an empty console.
RowsNeedSecret ==
  ~late /\ authed /\ (\E l \in Lists : rows[l] # {}) => token = Secret

-----------------------------------------------------------------------------
(* What the code does not keep. *)

\* admin-dashboard.tsx:549 says "No users found" when the rows are empty; they
\* are too after the last row of the last page was deleted.
NoneFoundIsNone ==
  \A l \in Lists :
    authed /\ tab = l /\ ~loading[l] /\ ~error[l] /\ Pending(l) = {}
      /\ rows[l] = {} /\ l \notin overlapped
      => Matching(exists[l], filter[l]) = {}
=============================================================================
