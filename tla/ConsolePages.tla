---------------------------- MODULE ConsolePages ----------------------------
(***************************************************************************)
(* The pages of the web console that load and change what the account has: *)
(* its API keys (features/saas-api-keys.tsx) and provider credentials       *)
(* (features/saas-providers.tsx), and the pages that only read: the         *)
(* overview with its first-run checklist (features/saas-overview.tsx), the  *)
(* savings (features/saas-savings.tsx), and the settings and webhooks, which*)
(* show the capabilities (features/saas-settings.tsx, saas-webhooks.tsx).   *)
(* One page is mounted at a time.                                           *)
(*                                                                          *)
(* A handler is a flow of requests.  Nothing on the pages keeps a second    *)
(* one from starting, except "Save" of the provider dialog while it saves.  *)
(***************************************************************************)
EXTENDS Naturals, FiniteSets

CONSTANTS
  Slots,      \* flows that may be under way together
  MaxMade,    \* bound: keys, credentials and fetch events the server makes
  Byok        \* BYOK_ENABLED, as /v1/capabilities reports it

ASSUME ConsoleAssumption ==
  IsFiniteSet(Slots) /\ MaxMade \in Nat /\ Byok \in BOOLEAN

VARIABLES
  table,      \* server: keys, credentials with their status, fetch events
  made,       \* server: how many it has made
  page,       \* the page that is mounted
  rows,       \* the rows it shows; of the overview: the keys it counts
  loading, error,
  open,       \* its dialog is open
  busy,       \* the provider dialog saves
  byokOn,     \* caps?.byok === true
  secret,     \* generatedKey: the key whose secret is on screen
  flow,       \* the handlers under way
  overlapped, \* history: flows for one table at once, since a load was alone
  hidden,     \* history: keys a click took off the list that is shown
  known,      \* history: keys whose secret was read, or whose page or answer was lost
  covered     \* history: keys whose secret another secret replaced on screen

view == <<rows, loading, error, open, busy, byokOn, secret>>
vars == <<table, made, page, view, flow, overlapped, hidden, known, covered>>

Editable == {"api-keys", "providers"}
Tables == Editable \cup {"savings", "capabilities"}   \* the last has no rows
Pages == Editable \cup {"overview", "savings", "settings", "webhooks"}
Parts == {"usage", "caps", "keys"}     \* what the overview loads, independently
Ids == 1..MaxMade
NoKey == 0
Statuses == {"active", "invalid"}

\* The table a page shows; the overview counts the keys.
Of(p) ==
  IF p = "overview" THEN "api-keys"
  ELSE IF p \in {"settings", "webhooks"} THEN "capabilities" ELSE p

\* The pages that read the capabilities along with their rows.
ShowsCapabilities == Pages \ {"api-keys", "savings"}

RowSet == UNION {[S -> Statuses] : S \in SUBSET Ids}
Empty == [x \in {} |-> "active"]
With(t, x, st) == [y \in DOMAIN t \cup {x} |-> IF y = x THEN st ELSE t[y]]
Without(t, x) == [y \in DOMAIN t \ {x} |-> t[y]]

Flow ==
  [ kind : {"idle", "load", "create", "delete", "verify"},
    step : {"act", "list"},              \* the change, or the list after it
    on : Tables, x : {NoKey} \cup Ids,
    prev : RowSet,                       \* deleteKey's `previous`
    stage : {"sent", "ok", "failed"},
    got : RowSet,                        \* the list it was answered
    parts : SUBSET Parts,                \* of the overview, still awaited
    left : BOOLEAN ]                     \* its page was left

Idle == [kind |-> "idle", step |-> "list", on |-> "api-keys", x |-> NoKey,
         prev |-> Empty, stage |-> "sent", got |-> Empty, parts |-> {},
         left |-> FALSE]

TypeOK ==
  /\ table \in [Tables -> RowSet] /\ made \in 0..MaxMade
  /\ \A t \in Tables : DOMAIN table[t] \subseteq 1..made
  /\ page \in Pages /\ rows \in RowSet
  /\ loading \in BOOLEAN /\ error \in BOOLEAN /\ open \in BOOLEAN
  /\ busy \in BOOLEAN /\ byokOn \in BOOLEAN
  /\ secret \in 0..made
  /\ flow \in [Slots -> Flow]
  /\ overlapped \in BOOLEAN /\ hidden \subseteq 1..made
  /\ known \subseteq 1..made /\ covered \subseteq 1..made

-----------------------------------------------------------------------------
(* Flows. *)

Free(s) == flow[s].kind = "idle"
Here(s) == ~Free(s) /\ ~flow[s].left
Creating == {s \in Slots : flow[s].kind = "create" /\ flow[s].x = NoKey}
On(t) == {s \in Slots : ~Free(s) /\ flow[s].on = t}

Starts(s, f) == flow' = [flow EXCEPT ![s] = f]
Ends(s) == Starts(s, Idle)

Load(p) == [Idle EXCEPT !.kind = "load", !.on = Of(p),
                        !.parts = IF p = "overview" THEN Parts ELSE {}]

\* refresh() as the next step of the flow f.
ThenList(s, f) ==
  /\ Starts(s, [f EXCEPT !.step = "list", !.stage = "sent"])
  /\ loading' = TRUE

Init ==
  /\ table = [t \in Tables |-> Empty] /\ made = 0
  /\ page \in Pages /\ rows = Empty
  /\ loading = TRUE /\ error = FALSE
  /\ open = FALSE /\ busy = FALSE /\ byokOn = FALSE /\ secret = NoKey
  /\ \E s \in Slots : flow = [t \in Slots |-> IF t = s THEN Load(page) ELSE Idle]
  /\ overlapped = FALSE /\ hidden = {} /\ known = {} /\ covered = {}

-----------------------------------------------------------------------------
(* The visitor. *)

\* Another page, or the same again.  What was still to be served goes on; what
\* else the handlers of the old page do has no effect (the overview cancels
\* them, the others set the state of a page that is gone).
Mount(s, p) ==
  /\ Free(s)
  /\ page' = p /\ rows' = Empty /\ loading' = TRUE /\ error' = FALSE
  /\ open' = FALSE /\ busy' = FALSE /\ byokOn' = FALSE /\ secret' = NoKey
  /\ flow' = [t \in Slots |->
       IF t = s THEN Load(p)
       ELSE IF flow[t].step = "act" /\ flow[t].stage = "sent"
         THEN [flow[t] EXCEPT !.left = TRUE] ELSE Idle]
  /\ known' = known \cup ({secret} \ {NoKey})
       \cup {flow[t].x : t \in {u \in Slots : flow[u].kind = "create" /\ flow[u].x # NoKey}}
  /\ hidden' = {}
  /\ overlapped' = (\E t \in Slots \ {s} : flow'[t].on = Of(p) /\ flow'[t].kind # "idle")
  /\ UNCHANGED <<table, made, covered>>

OpenDialog ==
  /\ page \in Editable /\ ~open /\ secret = NoKey
  /\ page = "providers" => byokOn
  /\ open' = TRUE
  /\ UNCHANGED <<table, made, page, rows, loading, error, busy, byokOn, secret,
                 flow, overlapped, hidden, known, covered>>

CloseDialog ==
  /\ open
  /\ open' = FALSE
  /\ UNCHANGED <<table, made, page, rows, loading, error, busy, byokOn, secret,
                 flow, overlapped, hidden, known, covered>>

\* "I've saved the key": setGeneratedKey(null).
Dismiss ==
  /\ secret # NoKey
  /\ secret' = NoKey /\ known' = known \cup {secret}
  /\ UNCHANGED <<table, made, page, rows, loading, error, open, busy, byokOn,
                 flow, overlapped, hidden, covered>>

\* handleGenerate, handleCreate up to the await.  "Create Key" may be pressed
\* again before the answer, "Save" may not.
Create(s) ==
  /\ open /\ Free(s) /\ ~busy
  /\ page = "providers" => byokOn
  /\ made + Cardinality(Creating) < MaxMade
  /\ busy' = (page = "providers")
  /\ overlapped' = (overlapped \/ On(page) # {})
  /\ Starts(s, [Idle EXCEPT !.kind = "create", !.step = "act", !.on = page])
  /\ UNCHANGED <<table, made, page, rows, loading, error, open, byokOn, secret,
                 hidden, known, covered>>

\* The rows with their buttons, under no dialog.
Offers(x) ==
  page \in Editable /\ ~loading /\ ~open /\ secret = NoKey /\ x \in DOMAIN rows

\* Mutant: the row stays until a list is loaded, which nothing does.
AtOnceMutant(x) == rows

\* The rows from the click on.
AtOnce(x) == IF page = "api-keys" THEN Without(rows, x) ELSE rows

\* deleteKey takes the row away before the answer; the providers page waits.
Delete(s, x) ==
  /\ Offers(x) /\ Free(s)
  /\ rows' = AtOnce(x)
  /\ hidden' = IF page = "api-keys" THEN hidden \cup {x} ELSE hidden
  /\ overlapped' = (overlapped \/ On(page) # {})
  /\ Starts(s, [Idle EXCEPT !.kind = "delete", !.step = "act", !.on = page,
                            !.x = x, !.prev = IF page = "api-keys" THEN rows ELSE Empty])
  /\ UNCHANGED <<table, made, page, loading, error, open, busy, byokOn, secret,
                 known, covered>>

Verify(s, x) ==
  /\ page = "providers" /\ Offers(x) /\ Free(s)
  /\ overlapped' = (overlapped \/ On(page) # {})
  /\ Starts(s, [Idle EXCEPT !.kind = "verify", !.step = "act", !.on = page, !.x = x])
  /\ UNCHANGED <<table, made, page, view, hidden, known, covered>>

\* "Refresh" of the providers and of the savings; nothing disables it.
Refresh(s) ==
  /\ page \in {"providers", "savings"} /\ ~open /\ Free(s)
  /\ overlapped' = (On(page) # {})
  /\ ThenList(s, Load(page))
  /\ UNCHANGED <<table, made, page, rows, error, open, busy, byokOn, secret,
                 hidden, known, covered>>

-----------------------------------------------------------------------------
(* The server, and the network. *)

Answer(s, f) == Starts(s, IF f.left THEN Idle ELSE f)

ServeChange(s) ==
  /\ ~Free(s) /\ flow[s].step = "act" /\ flow[s].stage = "sent"
  /\ LET f == flow[s]
         t == table[f.on]
         ok == [f EXCEPT !.stage = "ok"]
     IN  IF f.kind = "create"
           THEN /\ made' = made + 1
                /\ table' = [table EXCEPT ![f.on] = With(t, made + 1, "active")]
                /\ known' = IF f.left THEN known \cup {made + 1} ELSE known
                /\ Answer(s, [ok EXCEPT !.x = made + 1])
         ELSE /\ IF f.x \notin DOMAIN t
                   THEN table' = table /\ Answer(s, [f EXCEPT !.stage = "failed"])
                 ELSE IF f.kind = "delete"
                   THEN table' = [table EXCEPT ![f.on] = Without(t, f.x)] /\ Answer(s, ok)
                 ELSE /\ \E st \in Statuses :
                           table' = [table EXCEPT ![f.on] = With(t, f.x, st)]
                      /\ Answer(s, ok)
              /\ UNCHANGED <<made, known>>
  /\ UNCHANGED <<page, view, overlapped, hidden, covered>>

\* record_fetch_event: the account's key is used, by a program or a worker.
FetchRecorded ==
  /\ made + Cardinality(Creating) < MaxMade
  /\ made' = made + 1
  /\ table' = [table EXCEPT !["savings"] = With(@, made + 1, "active")]
  /\ overlapped' = (overlapped \/ page = "savings")
  /\ UNCHANGED <<page, view, flow, hidden, known, covered>>

\* GET /v1/keys, /v1/usage/fetch-savings, /v1/capabilities, the last also with
\* GET /v1/providers.
ServeList(s) ==
  /\ ~Free(s) /\ flow[s].step = "list" /\ flow[s].stage = "sent"
  /\ Starts(s, [flow[s] EXCEPT !.stage = "ok", !.got = table[flow[s].on]])
  /\ UNCHANGED <<table, made, page, view, overlapped, hidden, known, covered>>

\* The connection breaks, before or after the server has handled the request.
Lose(s) ==
  /\ ~Free(s) /\ flow[s].stage # "failed" /\ flow[s].parts = {}
  /\ Answer(s, [flow[s] EXCEPT !.stage = "failed"])
  /\ known' = IF flow[s].kind = "create" /\ flow[s].step = "act"
                THEN known \cup ({flow[s].x} \ {NoKey}) ELSE known
  /\ UNCHANGED <<table, made, page, view, overlapped, hidden, covered>>

-----------------------------------------------------------------------------
(* The page handles an answer. *)

Answered(s, step) == Here(s) /\ flow[s].step = step /\ flow[s].stage # "sent"

\* Mutant: only a dialog that is still open takes the key.
ShowSecretMutantOpen(s) ==
  IF page = "api-keys" /\ open
    THEN secret' = flow[s].x /\ covered' = covered \cup ({secret} \ {NoKey})
    ELSE UNCHANGED <<secret, covered>>

\* setGeneratedKey.
ShowSecret(s) ==
  IF page = "api-keys"
    THEN secret' = flow[s].x /\ covered' = covered \cup ({secret} \ {NoKey})
    ELSE UNCHANGED <<secret, covered>>

ReceiveCreate(s) ==
  /\ Answered(s, "act") /\ flow[s].kind = "create"
  /\ IF flow[s].stage = "ok"
       THEN /\ open' = FALSE
            /\ ShowSecret(s)
            /\ ThenList(s, flow[s])
            /\ UNCHANGED <<error, busy>>
       ELSE /\ error' = TRUE /\ busy' = FALSE
            /\ open' = (open /\ page = "providers")
            /\ Ends(s)
            /\ UNCHANGED <<secret, covered, loading>>
  /\ UNCHANGED <<table, made, page, rows, byokOn, overlapped, hidden, known>>

\* Mutant: no rollback.
RolledBackMutant(s) == rows

RolledBack(s) == IF page = "api-keys" THEN flow[s].prev ELSE rows

\* A refused revocation puts back the rows of the click.
ReceiveChange(s) ==
  /\ Answered(s, "act") /\ flow[s].kind \in {"delete", "verify"}
  /\ IF flow[s].stage = "ok"
       THEN /\ IF page = "providers" THEN ThenList(s, flow[s])
               ELSE Ends(s) /\ UNCHANGED loading
            /\ UNCHANGED <<rows, error>>
       ELSE /\ error' = TRUE
            /\ rows' = RolledBack(s)
            /\ Ends(s)
            /\ UNCHANGED loading
  /\ UNCHANGED <<table, made, page, open, busy, byokOn, secret, overlapped,
                 hidden, known, covered>>

\* Mutant: a failure returns before the spinner is reset.
ListDoneMutant(s) ==
  /\ loading' = (loading /\ flow[s].stage = "failed")
  /\ busy' = (busy /\ flow[s].kind # "create")
  /\ Ends(s)

\* finally.
ListDone(s) ==
  /\ loading' = FALSE
  /\ busy' = (busy /\ flow[s].kind # "create")
  /\ Ends(s)

\* The rest of refresh, and of the handler that awaits it.
ReceiveList(s) ==
  /\ Answered(s, "list") /\ flow[s].parts = {}
  /\ IF flow[s].stage = "ok"
       THEN /\ rows' = flow[s].got /\ error' = FALSE
            /\ byokOn' = IF page \in ShowsCapabilities THEN Byok ELSE byokOn
       ELSE error' = TRUE /\ UNCHANGED <<rows, byokOn>>
  /\ ListDone(s)
  /\ UNCHANGED <<table, made, page, open, secret, overlapped, hidden, known, covered>>

\* The overview: each part arrives, or fails, by itself; only a failure of the
\* usage is shown, a failure of the others counts none.
ReceivePart(s, part, ok) ==
  /\ Answered(s, "list") /\ part \in flow[s].parts
  /\ rows' = IF part # "keys" THEN rows ELSE IF ok THEN flow[s].got ELSE Empty
  /\ byokOn' = IF part = "caps" THEN ok /\ Byok ELSE byokOn
  /\ error' = IF part = "usage" THEN ~ok ELSE error
  /\ loading' = (flow[s].parts # {part})
  /\ overlapped' = (overlapped \/ (part # "usage" /\ ~ok))
  /\ IF loading' THEN Starts(s, [flow[s] EXCEPT !.parts = @ \ {part}]) ELSE Ends(s)
  /\ UNCHANGED <<table, made, page, open, busy, secret, hidden, known, covered>>

\* checklistIncomplete, of the items that the model tells apart.
ChecklistIncomplete == page = "overview" /\ (~byokOn \/ rows = Empty)

-----------------------------------------------------------------------------
Receive(s) ==
  \/ ReceiveCreate(s) \/ ReceiveChange(s) \/ ReceiveList(s)
  \/ \E part \in Parts, ok \in BOOLEAN : ReceivePart(s, part, ok)

Visit(s) ==
  \/ \E p \in Pages : Mount(s, p)
  \/ Create(s) \/ Refresh(s)
  \/ \E x \in Ids : Delete(s, x) \/ Verify(s, x)

Next ==
  \/ OpenDialog \/ CloseDialog \/ Dismiss \/ FetchRecorded
  \/ \E s \in Slots :
       Visit(s) \/ ServeChange(s) \/ ServeList(s) \/ Lose(s) \/ Receive(s)

Spec == Init /\ [][Next]_vars

-----------------------------------------------------------------------------
(* Properties. *)

\* A page that waits for nothing and shows no error shows what the server has,
\* after any creations, revocations and verifications and any changes that an
\* earlier page left under way; and the first-run checklist is gone from the
\* overview exactly when its items pass.  Flows for one table that overlap, a
\* fetch since the savings were read, and an overview that could not read a
\* part void this.
QuietMeansTrue ==
  On(Of(page)) = {} /\ ~error /\ ~overlapped =>
    /\ rows = table[Of(page)]
    /\ page \in ShowsCapabilities => byokOn = Byok
    /\ page = "overview" =>
         (ChecklistIncomplete <=> ~Byok \/ table["api-keys"] = Empty)

\* A key that a click took off the page is revoked at the server, or is back on
\* the page with an error: a live key is never out of sight for good.  Two
\* revocations at once void this, each puts back the rows of its own click.
HiddenIsGone ==
  page = "api-keys" /\ On(page) = {} /\ ~overlapped
    => hidden \cap DOMAIN table[page] \subseteq DOMAIN rows

\* The spinner and the disabled "Save" have an answer to wait for, and no two
\* saves of the provider dialog are under way.
SpinnerIsAWait ==
  /\ loading => \E s \in Slots : Here(s) /\ flow[s].step = "list"
  /\ LET saving == {s \in Slots : Here(s) /\ flow[s].kind = "create"}
     IN  page = "providers" =>
           /\ busy = (saving # {})
           /\ \A s, t \in saving : s = t

\* saas-api-keys.tsx:78: the full secret is returned exactly once.  It stays on
\* screen until the visitor has read it, whatever else is answered meanwhile;
\* only a second creation under way at the same time replaces it.
SecretStaysToBeRead ==
  \A k \in DOMAIN table["api-keys"] :
    k \in known \cup covered \/ secret = k
      \/ \E s \in Slots : flow[s].kind = "create" /\ flow[s].x = k

-----------------------------------------------------------------------------
(* What the code does not keep. *)

\* saas-api-keys.tsx:274: "Copy this key now. For security, we will only show
\* it this once."
EverySecretShown == covered = {}
=============================================================================
