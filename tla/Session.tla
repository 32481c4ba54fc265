------------------------------ MODULE Session ------------------------------
(***************************************************************************)
(* The account session of one browser tab of the web console: the session  *)
(* token and the user kept in localStorage (restClient.ts, App.tsx), the   *)
(* user, the view and the history of the tab (App.tsx, lib/nav.ts), the    *)
(* sign-in form (features/auth.tsx), and the requests that are in flight   *)
(* while the visitor goes on.                                              *)
(*                                                                         *)
(* A request is cut in three: it is sent with the credential of that       *)
(* moment, the server handles it, and the page handles the answer.         *)
(* Between any two of these everything else may happen: another request,   *)
(* the Back button, a reload, a revocation, another tab of the browser.    *)
(***************************************************************************)
EXTENDS Naturals, Sequences

CONSTANTS
  Accounts,          \* who can sign in
  NoUser,
  Slots,             \* requests that may be in flight together
  NoSlot,
  Views,             \* the views that are opened, of nav.ts's VIEWS
  Registered,        \* the accounts the server knows at the start
  Hosted,            \* HOSTED_MODE, as /v1/capabilities reports it
  RegistrationOpen,  \* ALLOW_REGISTRATION
  MaxTokens,         \* bound: sessions the server issues
  MaxHistory         \* bound: entries in the history of the tab

AllViews ==
  {"landing", "docs", "pricing", "overview", "playground", "api-keys",
   "providers", "savings", "settings", "admin", "webhooks", "usage", "login"}

ASSUME SessionAssumption ==
  /\ NoUser \notin Accounts
  /\ NoSlot \notin Slots
  /\ Registered \subseteq Accounts
  /\ Hosted \in BOOLEAN /\ RegistrationOpen \in BOOLEAN
  /\ MaxTokens \in Nat /\ MaxHistory \in Nat \ {0}
  /\ {"landing", "login", "overview"} \subseteq Views
  /\ Views \subseteq AllViews

VARIABLES
  accounts,   \* server: the accounts that exist
  issued,     \* server: issued[k] is the account of session token k
  live,       \* server: the tokens it still honours
  stored,     \* localStorage: the session token, NoToken when there is none
  saved,      \* localStorage: firescrapling_user
  user,       \* App: the user it shows as signed in
  view,       \* App: activeView
  hist, pos,  \* the history of the tab and the place in it
  hosted,     \* App: caps?.hosted === true
  form,       \* the request the mounted sign-in form waits for: its `loading`
  req,        \* the requests in flight
  left,       \* history: tokens logged out of since the page was loaded
  others,     \* history: another tab has signed in or out
  late        \* history: a logout's answer dropped a later session's token

server == <<accounts, issued, live>>
storage == <<stored, saved>>
place == <<view, hist, pos>>
vars == <<server, storage, user, place, hosted, form, req, left, others, late>>

NoToken == 0
Tokens == 1..MaxTokens

Kinds == {"login", "register", "logout", "call"}

Request ==
  [ kind : Kinds \cup {"idle"},
    acct : Accounts \cup {NoUser},
    cred : {NoToken} \cup Tokens,   \* sent with; a login's answer: the new token
    stage : {"sent", "ok", "refused", "failed"},
    gone : BOOLEAN ]                \* the page that sent it was reloaded

Idle == [kind |-> "idle", acct |-> NoUser, cred |-> NoToken,
         stage |-> "sent", gone |-> FALSE]

TypeOK ==
  /\ accounts \subseteq Accounts
  /\ issued \in Seq(Accounts) /\ Len(issued) <= MaxTokens
  /\ live \subseteq 1..Len(issued)
  /\ stored \in {NoToken} \cup 1..Len(issued)
  /\ saved \in Accounts \cup {NoUser}
  /\ user \in Accounts \cup {NoUser}
  /\ view \in Views
  /\ hist \in Seq(Views) /\ pos \in 1..Len(hist)
  /\ hosted \in BOOLEAN
  /\ form \in Slots \cup {NoSlot}
  /\ req \in [Slots -> Request]
  /\ left \subseteq 1..Len(issued)
  /\ others \in BOOLEAN /\ late \in BOOLEAN

-----------------------------------------------------------------------------
(* Views and what the App renders.  A URL stands for its view: the query   *)
(* ?register=1 only chooses the mode the sign-in form opens in.            *)

\* setActiveView with "replace", and with "push".
Replace(v) ==
  /\ view' = v
  /\ hist' = [hist EXCEPT ![pos] = v]
  /\ pos' = pos

Push(v) ==
  /\ view' = v
  /\ IF v = hist[pos]
       THEN UNCHANGED <<hist, pos>>
       ELSE /\ pos < MaxHistory
            /\ hist' = Append(SubSeq(hist, 1, pos), v)
            /\ pos' = pos + 1

\* The view of the location p, and the effect that follows it: a signed-in
\* user is taken off the sign-in view.
Open(p, u) ==
  /\ pos' = p
  /\ LET v == IF hist[p] = "login" /\ u # NoUser THEN "overview" ELSE hist[p]
     IN  view' = v /\ hist' = [hist EXCEPT ![p] = v]

PublicViews(h) == {"landing", "docs"} \cup (IF h THEN {"pricing"} ELSE {})

\* Which of the App's returns is taken.
Shell(u, v, h) ==
  IF v \in PublicViews(h) THEN "public"
  ELSE IF u = NoUser THEN "auth"
  ELSE IF v = "admin" THEN "admin" ELSE "dashboard"

\* The sign-in form lives as long as the auth gate is rendered: when it is
\* not, its state is gone, and the request it waited for goes on without it.
FormWaits(f) == form' = IF Shell(user', view', hosted') = "auth" THEN f ELSE NoSlot

DashboardViews == AllViews \ {"landing", "docs", "pricing", "login"}

-----------------------------------------------------------------------------
Init ==
  /\ accounts = Registered /\ issued = <<>> /\ live = {}
  /\ stored = NoToken /\ saved = NoUser /\ user = NoUser
  /\ view \in Views /\ hist = <<view>> /\ pos = 1
  /\ hosted = FALSE
  /\ form = NoSlot
  /\ req = [r \in Slots |-> Idle]
  /\ left = {} /\ others = FALSE /\ late = FALSE

Free(r) == req[r].kind = "idle"

Send(r, kind, acct, cred) ==
  /\ Free(r)
  /\ req' = [req EXCEPT ![r] = [kind |-> kind, acct |-> acct, cred |-> cred,
                                stage |-> "sent", gone |-> FALSE]]

-----------------------------------------------------------------------------
(* The visitor. *)

\* The links of the public header, the items of the dashboard and the button
\* that leaves the admin page.
Offered ==
  LET shell == Shell(user, view, hosted)
  IN  IF shell = "public"
        THEN PublicViews(hosted) \cup {IF user = NoUser THEN "login" ELSE "overview"}
      ELSE IF shell = "admin" THEN {"overview"}
      ELSE IF shell = "dashboard"
        THEN DashboardViews \cup (IF view = "pricing" THEN {"docs"} ELSE {})
      ELSE {}

Navigate(v) ==
  /\ v \in Offered
  /\ Push(v)
  /\ UNCHANGED <<server, storage, user, hosted, req, left, others, late>>
  /\ FormWaits(form)

\* The Back and Forward buttons: popstate reads the view from the location.
Traverse(p) ==
  /\ p \in {pos - 1, pos + 1} \cap (1..Len(hist))
  /\ Open(p, user)
  /\ UNCHANGED <<server, storage, user, hosted, req, left, others, late>>
  /\ FormWaits(form)

CapabilitiesAnswer ==
  /\ ~hosted /\ Hosted
  /\ hosted' = TRUE
  /\ UNCHANGED <<server, storage, user, place, req, left, others, late>>
  /\ FormWaits(form)

TokensAsked == {r \in Slots : req[r].kind \in {"login", "register"}}

\* A form submits once at a time (`disabled={loading}`); but a form that was
\* left and opened again is a new one, and the first request is still out.
Submit(r, kind, a) ==
  /\ Shell(user, view, hosted) = "auth" /\ form = NoSlot
  /\ Len(issued) < MaxTokens
  /\ TokensAsked = {} \/ Len(issued) + 1 < MaxTokens
  /\ Send(r, kind, a, NoToken)
  /\ UNCHANGED <<server, storage, user, place, hosted, left, others, late>>
  /\ FormWaits(r)

\* Mutant: no localStorage.removeItem of the user.
LogoutMutantKeepsSaved(r) ==
  /\ Shell(user, view, hosted) = "dashboard"
  /\ Send(r, "logout", NoUser, stored)
  /\ saved' = saved /\ user' = NoUser
  /\ Replace("landing")
  /\ left' = left \cup ({stored} \ {NoToken})
  /\ UNCHANGED <<server, stored, hosted, others, late>>
  /\ FormWaits(form)

\* handleLogout: the request goes out with the token, nobody waits for it,
\* and the token stays in the storage until it is answered.
Logout(r) ==
  /\ Shell(user, view, hosted) = "dashboard"
  /\ Send(r, "logout", NoUser, stored)
  /\ saved' = NoUser /\ user' = NoUser
  /\ Replace("landing")
  /\ left' = left \cup ({stored} \ {NoToken})
  /\ UNCHANGED <<server, stored, hosted, others, late>>
  /\ FormWaits(form)

\* A page of the dashboard reads or changes something of the account.
Call(r) ==
  /\ view \in {"overview", "api-keys", "providers", "savings"}
  /\ user # NoUser
  /\ Send(r, "call", NoUser, stored)
  /\ UNCHANGED <<server, storage, user, place, hosted, form, left, others, late>>

\* A reload, or a crash of the tab: the requests go on at the server, nobody
\* handles their answers, and the App starts from what the storage holds.
Reload ==
  /\ user' = IF stored = NoToken THEN NoUser ELSE saved
  /\ saved' = user'
  /\ Open(pos, user')
  /\ hosted' = FALSE /\ form' = NoSlot /\ left' = {}
  /\ req' = [r \in Slots |->
              IF req[r].kind \in {"idle", "call"} \/ req[r].stage # "sent"
                THEN Idle ELSE [req[r] EXCEPT !.gone = TRUE]]
  /\ UNCHANGED <<server, stored, others, late>>

\* Another tab of the same browser signs in, or out: it shares the storage,
\* and this tab does not listen to it.
OtherTabLogin(a) ==
  /\ a \in accounts
  /\ Len(issued) < MaxTokens /\ TokensAsked = {}
  /\ issued' = Append(issued, a)
  /\ live' = live \cup {Len(issued) + 1}
  /\ stored' = Len(issued) + 1 /\ saved' = a
  /\ others' = TRUE
  /\ UNCHANGED <<accounts, user, place, hosted, form, req, left, late>>

OtherTabLogout ==
  /\ stored # NoToken
  /\ live' = live \ {stored}
  /\ stored' = NoToken /\ saved' = NoUser
  /\ others' = TRUE
  /\ UNCHANGED <<accounts, issued, user, place, hosted, form, req, left, late>>

-----------------------------------------------------------------------------
(* The server, and the network. *)

Sent(r, kind) == req[r].kind = kind /\ req[r].stage = "sent"

\* An answer to a page that was reloaded reaches nobody.
Answer(r, stage) ==
  req' = [req EXCEPT ![r] = IF @.gone THEN Idle ELSE [@ EXCEPT !.stage = stage]]

page == <<storage, user, place, hosted, form, left, others, late>>

ServeLogin(r) ==
  /\ Sent(r, "login")
  /\ \/ /\ req[r].acct \in accounts
        /\ Len(issued) < MaxTokens
        /\ issued' = Append(issued, req[r].acct)
        /\ live' = live \cup {Len(issued) + 1}
        /\ req' = [req EXCEPT ![r] =
              IF @.gone THEN Idle
              ELSE [@ EXCEPT !.stage = "ok", !.cred = Len(issued) + 1]]
     \/ /\ Answer(r, "failed")    \* unknown, or a wrong password
        /\ UNCHANGED <<issued, live>>
  /\ UNCHANGED <<accounts, page>>

ServeRegister(r) ==
  /\ Sent(r, "register")
  /\ IF RegistrationOpen /\ req[r].acct \notin accounts
       THEN accounts' = accounts \cup {req[r].acct} /\ Answer(r, "ok")
       ELSE UNCHANGED accounts /\ Answer(r, "failed")
  /\ UNCHANGED <<issued, live, page>>

ServeLogout(r) ==
  /\ Sent(r, "logout")
  /\ live' = live \ {req[r].cred}
  /\ Answer(r, "ok")
  /\ UNCHANGED <<accounts, issued, page>>

\* get_session_user: 401 without a token it honours.
ServeCall(r) ==
  /\ Sent(r, "call")
  /\ Answer(r, IF req[r].cred \in live THEN "ok" ELSE "refused")
  /\ UNCHANGED <<server, page>>

\* The connection breaks, before or after the server has handled the request.
Lose(r) ==
  /\ ~Free(r) /\ req[r].stage # "failed"
  /\ Answer(r, "failed")
  /\ UNCHANGED <<server, page>>

\* A token expires, or the database was reset.
Expire(k) ==
  /\ k \in live
  /\ live' = live \ {k}
  /\ UNCHANGED <<accounts, issued, page, req>>

-----------------------------------------------------------------------------
(* The page handles an answer. *)

Answered(r, kind) == req[r].kind = kind /\ req[r].stage # "sent"

Done(r) == req' = [req EXCEPT ![r] = Idle]

\* Mutant: a form that was left does not report its user.
ReceiveLoginMutantForm(r) ==
  /\ Answered(r, "login") /\ req[r].stage = "ok"
  /\ stored' = req[r].cred
  /\ Done(r)
  /\ IF form = r
       THEN /\ saved' = req[r].acct /\ user' = req[r].acct
            /\ Replace(IF view \in {"login", "landing"} THEN "overview" ELSE view)
       ELSE UNCHANGED <<saved, user, place>>
  /\ UNCHANGED <<server, hosted, left, others, late>>
  /\ FormWaits(form)

\* loginUser stores the token, and the App's handleLogin follows: also when
\* the form that sent it is no longer there.
ReceiveLogin(r) ==
  /\ Answered(r, "login") /\ req[r].stage = "ok"
  /\ stored' = req[r].cred
  /\ saved' = req[r].acct /\ user' = req[r].acct
  /\ Replace(IF view \in {"login", "landing"} THEN "overview" ELSE view)
  /\ Done(r)
  /\ UNCHANGED <<server, hosted, left, others, late>>
  /\ FormWaits(form)

\* A failure is shown by the form, if it is still there.
ReceiveRefusal(r) ==
  /\ Answered(r, "login") \/ Answered(r, "register")
  /\ req[r].stage = "failed"
  /\ Done(r)
  /\ UNCHANGED <<server, storage, user, place, hosted, left, others, late>>
  /\ FormWaits(IF form = r THEN NoSlot ELSE form)

\* registerUser: no session comes with it, so a login follows at once.
ReceiveRegister(r) ==
  /\ Answered(r, "register") /\ req[r].stage = "ok"
  /\ req' = [req EXCEPT ![r].kind = "login", ![r].stage = "sent"]
  /\ UNCHANGED <<server, page>>

\* Mutant: the token is dropped after a 2xx only, without the finally.
ReceiveLogoutMutantOnOk(r) ==
  /\ Answered(r, "logout")
  /\ stored' = IF req[r].stage = "ok" THEN NoToken ELSE stored
  /\ late' = (late \/ stored \notin {NoToken, req[r].cred})
  /\ Done(r)
  /\ UNCHANGED <<server, saved, user, place, hosted, form, left, others>>

\* logoutUser, whatever the answer: the stored token is dropped.
ReceiveLogout(r) ==
  /\ Answered(r, "logout")
  /\ stored' = NoToken
  /\ late' = (late \/ stored \notin {NoToken, req[r].cred})
  /\ Done(r)
  /\ UNCHANGED <<server, saved, user, place, hosted, form, left, others>>

\* Mutant: no comparison with the token of the request.
ReceiveCallMutantAnyToken(r) ==
  /\ Answered(r, "call")
  /\ Done(r)
  /\ IF req[r].stage = "refused" /\ req[r].cred # NoToken
       THEN /\ stored' = NoToken /\ saved' = NoUser /\ user' = NoUser
            /\ Replace("login")
       ELSE UNCHANGED <<storage, user, place>>
  /\ UNCHANGED <<server, hosted, left, others, late>>
  /\ FormWaits(form)

\* Mutant: no onExpired.
ReceiveCallMutantKeepsUser(r) ==
  /\ Answered(r, "call")
  /\ Done(r)
  /\ stored' = IF req[r].stage = "refused" /\ stored = req[r].cred
                 THEN NoToken ELSE stored
  /\ UNCHANGED <<server, saved, user, place, hosted, left, others, late>>
  /\ FormWaits(form)

\* apiFetch: a 401 for the token that is still the stored one drops it, and
\* the App's onExpired follows in the same turn of the event loop.
ReceiveCall(r) ==
  /\ Answered(r, "call")
  /\ Done(r)
  /\ IF req[r].stage = "refused" /\ req[r].cred # NoToken /\ stored = req[r].cred
       THEN /\ stored' = NoToken /\ saved' = NoUser /\ user' = NoUser
            /\ Replace("login")
       ELSE UNCHANGED <<storage, user, place>>
  /\ UNCHANGED <<server, hosted, left, others, late>>
  /\ FormWaits(form)

-----------------------------------------------------------------------------
Serve(r) == ServeLogin(r) \/ ServeRegister(r) \/ ServeLogout(r) \/ ServeCall(r)

Receive(r) ==
  \/ ReceiveLogin(r) \/ ReceiveRefusal(r) \/ ReceiveRegister(r)
  \/ ReceiveLogout(r) \/ ReceiveCall(r)

Visit ==
  \/ \E v \in Views : Navigate(v)
  \/ \E p \in 1..Len(hist) : Traverse(p)
  \/ \E r \in Slots : Logout(r) \/ Call(r)
  \/ \E r \in Slots, a \in Accounts :
       Submit(r, "login", a) \/ Submit(r, "register", a)
  \/ Reload

Next ==
  \/ Visit \/ CapabilitiesAnswer
  \/ OtherTabLogout \/ \E a \in Accounts : OtherTabLogin(a)
  \/ \E k \in Tokens : Expire(k)
  \/ \E r \in Slots : Serve(r) \/ Lose(r) \/ Receive(r)

Spec == Init /\ [][Next]_vars

-----------------------------------------------------------------------------
(* Properties. *)

\* The tab, the storage and the session token name one account, whatever logins
\* and logouts crossed: a reload in any state, with any requests in flight, shows
\* nobody else, and the requests are sent as the account on screen.
\* restClient.ts sets the token when a login is answered and the App the user,
\* and each drops its own elsewhere.
OneIdentity ==
  ~others =>
    /\ saved = user
    /\ user # NoUser /\ stored # NoToken => issued[stored] = user

\* A tab that shows a user holds a token.  Without one every call fails with a
\* 401 that nothing handles, because apiFetch only reports a token's refusal.
\* The one way into it is a logout that is answered after a later login.
SignedInHasToken == ~others /\ ~late /\ user # NoUser => stored # NoToken

\* A token that the server honours is given up by a logout only: a late 401
\* for an older token ends no newer session.
LogoutAnswered == OtherTabLogout \/ \E r \in Slots : ReceiveLogout(r)

HonouredTokenKept ==
  [][LogoutAnswered \/ stored \notin live \/ stored' # NoToken]_vars

\* A token that was logged out of stays in the storage only while the answer
\* to that logout is still to come, unless the page is reloaded before it.
LogoutForgets ==
  stored \in left =>
    \E r \in Slots : req[r].kind = "logout" /\ req[r].cred = stored

-----------------------------------------------------------------------------
(* What the code does not keep. *)

\* restClient.ts:172 has apiFetch "ignore late 401s from older in-flight calls
\* after a fresh login"; the answer to an older logout is not ignored.
LoginSurvivesLogout == ~late
=============================================================================
