--------------------------- MODULE Session_proofs ---------------------------
(***************************************************************************)
(* Session for any accounts and views, any number of requests in flight,   *)
(* of sessions and of entries in the history.                              *)
(***************************************************************************)
EXTENDS Session, SequenceTheorems, TLAPS

PlaceTyped == view \in Views /\ hist \in Seq(Views) /\ pos \in 1..Len(hist)

\* What a request q says of the sessions iss the server has issued and of the
\* tokens lv it honours.
Fits(q, iss, lv) ==
  /\ q.cred \in {NoToken} \cup 1..Len(iss)
  /\ q.kind = "login" /\ q.stage = "ok" => q.cred # NoToken /\ iss[q.cred] = q.acct
  /\ q.kind = "call" /\ q.stage = "refused" => q.cred \notin lv
  /\ q.kind = "register" => q.acct \in Accounts

RequestsFit == \A r \in Slots : Fits(req[r], issued, live)

Won(r) == req[r].kind = "login" /\ req[r].stage = "ok"

\* A token that a login has won and the page has not received is nowhere else.
WonIsFresh ==
  \A r \in Slots : Won(r) =>
    /\ req[r].cred # stored /\ req[r].cred \notin left
    /\ \A t \in Slots \ {r} : req[t].cred # req[r].cred

\* No logout of the token that the user on screen is signed in with is under way.
NotLeaving ==
  ~others /\ user # NoUser =>
    \A r \in Slots : req[r].kind = "logout" /\ req[r].cred # NoToken => req[r].cred # stored

\* LogoutForgets, by a request whose answer will be handled.
Forgets ==
  stored \in left =>
    \E r \in Slots : req[r].kind = "logout" /\ req[r].cred = stored /\ ~req[r].gone

Identity == OneIdentity /\ SignedInHasToken /\ NotLeaving

IInv == TypeOK /\ RequestsFit /\ WonIsFresh /\ Identity /\ Forgets

-----------------------------------------------------------------------------
\* What the history becomes.

\* What Append makes of a sequence.
LEMMA Appended ==
  ASSUME NEW S, NEW q \in Seq(S), NEW x \in S
  PROVE  /\ Append(q, x) \in Seq(S) /\ Len(Append(q, x)) = Len(q) + 1
         /\ \A i \in 1..Len(q) : Append(q, x)[i] = q[i]
         /\ Append(q, x)[Len(q) + 1] = x
BY AppendProperties

\* The places keep their types when one is pushed ...
LEMMA PushTyped ==
  ASSUME PlaceTyped, NEW v \in Views, Push(v)
  PROVE  PlaceTyped'
<1>1. CASE v = hist[pos]
  BY <1>1 DEF PlaceTyped, Push
<1>2. CASE v # hist[pos]
  <2>1. SubSeq(hist, 1, pos) \in Seq(Views) /\ Len(SubSeq(hist, 1, pos)) = pos
    BY SubSeqProperties DEF PlaceTyped
  <2>2. hist' \in Seq(Views) /\ Len(hist') = pos + 1
    BY <1>2, <2>1, Appended DEF Push
  <2> QED BY <1>2, <2>2 DEF PlaceTyped, Push
<1> QED BY <1>1, <1>2

\* ... when the current one is replaced ...
LEMMA ReplaceTyped ==
  ASSUME PlaceTyped, NEW v \in Views, Replace(v)
  PROVE  PlaceTyped'
BY DEF PlaceTyped, Replace

\* ... and when one of the history is opened.
LEMMA OpenTyped ==
  ASSUME PlaceTyped, NEW p \in 1..Len(hist), NEW u, Open(p, u)
  PROVE  PlaceTyped'
<1>1. hist[p] \in Views
  BY DEF PlaceTyped
<1>2. view' \in Views /\ hist' = [hist EXCEPT ![p] = view'] /\ pos' = p
  BY <1>1, SessionAssumption DEF Open
<1> QED BY <1>2 DEF PlaceTyped

\* FormWaits keeps the form's type, whatever is rendered.
LEMMA FormTyped ==
  ASSUME NEW f \in Slots \cup {NoSlot}, FormWaits(f)
  PROVE  form' \in Slots \cup {NoSlot}
BY DEF FormWaits

-----------------------------------------------------------------------------
\* What a request becomes.

OnlyMoved(r) == \A t \in Slots \ {r} : req'[t] = req[t]

\* Changing one slot changes no other.
LEMMA Moved ==
  ASSUME TypeOK, NEW r \in Slots, NEW q \in Request, req' = [req EXCEPT ![r] = q]
  PROVE  req' \in [Slots -> Request] /\ OnlyMoved(r) /\ req'[r] = q
BY DEF TypeOK, OnlyMoved

\* A free slot is a request with no token.
LEMMA IdleIsRequest == Idle \in Request /\ Idle.kind = "idle" /\ Idle.cred = NoToken /\ ~Idle.gone
BY DEF Idle, Request

\* Sending fills a free slot with what is sent.
LEMMA Sends ==
  ASSUME TypeOK, NEW r \in Slots, NEW kind \in Kinds, NEW a \in Accounts \cup {NoUser},
         NEW c \in {NoToken} \cup Tokens, Send(r, kind, a, c)
  PROVE  /\ req' \in [Slots -> Request] /\ OnlyMoved(r)
         /\ req'[r].kind = kind /\ req'[r].cred = c /\ req'[r].acct = a
         /\ req'[r].stage = "sent" /\ ~req'[r].gone
         /\ req[r].kind = "idle"
<1> DEFINE q == [kind |-> kind, acct |-> a, cred |-> c, stage |-> "sent", gone |-> FALSE]
<1>1. q \in Request /\ q.kind = kind /\ q.cred = c /\ q.acct = a /\ q.stage = "sent" /\ ~q.gone
  BY DEF Request
<1>2. req' = [req EXCEPT ![r] = q] /\ req[r].kind = "idle"
  BY DEF Send, Free
<1> HIDE DEF q
<1> QED BY <1>1, <1>2, Moved

\* An answer changes a request's stage, or frees the slot of a page that is gone.
LEMMA Answers ==
  ASSUME TypeOK, NEW r \in Slots, NEW st \in {"ok", "refused", "failed"}, Answer(r, st)
  PROVE  /\ req' \in [Slots -> Request] /\ OnlyMoved(r)
         /\ \/ req'[r] = Idle /\ req[r].gone
            \/ /\ req'[r].kind = req[r].kind /\ req'[r].acct = req[r].acct
               /\ req'[r].cred = req[r].cred /\ req'[r].stage = st
               /\ ~req'[r].gone /\ ~req[r].gone
<1>1. req[r] \in Request
  BY DEF TypeOK
<1>2. CASE req[r].gone
  BY <1>2, IdleIsRequest, Moved DEF Answer
<1>3. CASE ~req[r].gone
  <2> DEFINE q == [req[r] EXCEPT !.stage = st]
  <2>1. /\ q \in Request /\ q.kind = req[r].kind /\ q.acct = req[r].acct
        /\ q.cred = req[r].cred /\ q.stage = st /\ q.gone = req[r].gone
    BY <1>1 DEF Request
  <2>2. req' = [req EXCEPT ![r] = q]
    BY <1>3 DEF Answer
  <2> HIDE DEF q
  <2> QED BY <1>3, <2>1, <2>2, Moved
<1> QED BY <1>1, <1>2, <1>3 DEF Request

\* A request whose answer is handled frees its slot.
LEMMA Ends ==
  ASSUME TypeOK, NEW r \in Slots, Done(r)
  PROVE  req' \in [Slots -> Request] /\ OnlyMoved(r) /\ req'[r] = Idle
BY IdleIsRequest, Moved DEF Done

-----------------------------------------------------------------------------
\* The steps that leave the sessions, the storage and the user alone.

\* A step that touches no request, stored token or user keeps IInv.
LEMMA Quiet ==
  ASSUME IInv, PlaceTyped', hosted' \in BOOLEAN, form' \in Slots \cup {NoSlot},
         live' \subseteq live,
         UNCHANGED <<accounts, issued, storage, user, req, left, others, late>>
  PROVE  IInv'
<1> USE DEF storage
<1>1. TypeOK'
  BY DEF IInv, TypeOK, PlaceTyped
<1>2. RequestsFit'
  BY DEF IInv, RequestsFit, Fits
<1>3. WonIsFresh'
  BY DEF IInv, WonIsFresh, Won
<1>4. Identity'
  BY DEF IInv, Identity, OneIdentity, SignedInHasToken, NotLeaving
<1>5. Forgets'
  BY DEF IInv, Forgets
<1> QED BY <1>1, <1>2, <1>3, <1>4, <1>5 DEF IInv

\* A request that was p and is now q wins no token, carries none that is not
\* known, starts no logout, and gives up none whose answer is awaited.
Mild(p, q) ==
  /\ ~(q.kind = "login" /\ q.stage = "ok")
  /\ q.cred \in {NoToken, stored, p.cred}
  /\ q.kind = "logout" => p.kind = "logout" /\ q.cred = p.cred
  /\ p.kind = "logout" /\ ~p.gone => q.kind = "logout" /\ q.cred = p.cred /\ ~q.gone
  /\ q.kind = "call" /\ q.stage = "refused" => q.cred \notin live
  /\ q.kind = "register" => q.acct \in Accounts

\* So does a step in which one request moves and no user or token changes.
LEMMA Mildly ==
  ASSUME IInv, NEW r \in Slots, req' \in [Slots -> Request], OnlyMoved(r),
         Mild(req[r], req'[r]),
         accounts' \subseteq Accounts, live' \subseteq live,
         PlaceTyped', form' \in Slots \cup {NoSlot},
         UNCHANGED <<issued, storage, user, hosted, left, others, late>>
  PROVE  IInv'
<1> USE DEF storage
<1>0. /\ TypeOK /\ RequestsFit /\ WonIsFresh /\ Identity /\ Forgets
  BY DEF IInv
<1>1. TypeOK'
  BY <1>0 DEF TypeOK, PlaceTyped
<1>2. RequestsFit'
  <2> SUFFICES ASSUME NEW t \in Slots PROVE Fits(req'[t], issued', live')
    BY DEF RequestsFit
  <2>1. Fits(req[t], issued, live) /\ Fits(req[r], issued, live)
    BY <1>0 DEF RequestsFit
  <2>2. CASE t = r
    BY <2>1, <2>2, <1>0 DEF Fits, Mild, TypeOK
  <2>3. CASE t # r
    BY <2>1, <2>3 DEF Fits, OnlyMoved
  <2> QED BY <2>2, <2>3
<1>3. WonIsFresh'
  <2> SUFFICES ASSUME NEW t \in Slots, Won(t)'
               PROVE  /\ req'[t].cred # stored /\ req'[t].cred \notin left
                      /\ \A u \in Slots \ {t} : req'[u].cred # req'[t].cred
    BY DEF WonIsFresh
  <2>1. t # r
    BY DEF Won, Mild
  <2>2. req'[t] = req[t] /\ Won(t)
    BY <2>1 DEF OnlyMoved, Won
  <2>3. /\ req[t].cred # stored /\ req[t].cred \notin left /\ req[t].cred # NoToken
        /\ \A u \in Slots \ {t} : req[u].cred # req[t].cred
    BY <1>0, <2>2 DEF WonIsFresh, RequestsFit, Fits, Won
  <2>4. ASSUME NEW u \in Slots \ {t} PROVE req'[u].cred # req[t].cred
    BY <2>1, <2>3, <2>4 DEF OnlyMoved, Mild
  <2> QED BY <2>2, <2>3, <2>4
<1>4. Identity'
  <2>1. NotLeaving'
    BY <1>0 DEF Identity, NotLeaving, OnlyMoved, Mild
  <2> QED BY <1>0, <2>1 DEF Identity, OneIdentity, SignedInHasToken
<1>5. Forgets'
  BY <1>0 DEF Forgets, OnlyMoved, Mild
<1> QED BY <1>1, <1>2, <1>3, <1>4, <1>5 DEF IInv

\* A place that a step leaves alone.
LEMMA PlaceKept ==
  ASSUME IInv
  PROVE  PlaceTyped /\ (UNCHANGED place => PlaceTyped')
BY DEF IInv, TypeOK, PlaceTyped, place

\* The form goes on waiting for its request, or for none.
LEMMA FormKept ==
  ASSUME IInv, NEW f, f \in Slots \cup {NoSlot} \/ f = form, FormWaits(f)
  PROVE  form' \in Slots \cup {NoSlot}
BY FormTyped DEF IInv, TypeOK

-----------------------------------------------------------------------------
\* The visitor.

\* The visitor goes to another view.
LEMMA NavigateStep ==
  ASSUME IInv, NEW v \in Views, Navigate(v)
  PROVE  IInv'
BY PlaceKept, PushTyped, FormKept, Quiet DEF Navigate, server, IInv, TypeOK

\* The visitor goes back or forward in the history.
LEMMA TraverseStep ==
  ASSUME IInv, NEW p \in 1..Len(hist), Traverse(p)
  PROVE  IInv'
BY PlaceKept, OpenTyped, FormKept, Quiet DEF Traverse, server, IInv, TypeOK

\* The capabilities arrive: the server is a hosted one.
LEMMA CapabilitiesStep ==
  ASSUME IInv, CapabilitiesAnswer
  PROVE  IInv'
BY PlaceKept, FormKept, Quiet DEF CapabilitiesAnswer, server

\* Tokens are numbered as they are issued.
LEMMA TokenBounds ==
  ASSUME IInv
  PROVE  /\ Len(issued) \in Nat /\ Len(issued) <= MaxTokens /\ MaxTokens \in Nat
         /\ stored \in {NoToken} \cup Tokens
         /\ 1..Len(issued) \subseteq Tokens
BY SessionAssumption DEF IInv, TypeOK, Tokens

\* The visitor submits the login or registration form.
LEMMA SubmitStep ==
  ASSUME IInv, NEW r \in Slots, NEW kind \in {"login", "register"}, NEW a \in Accounts,
         Submit(r, kind, a)
  PROVE  IInv'
<1>1. Send(r, kind, a, NoToken)
  BY DEF Submit
<1>2. /\ req' \in [Slots -> Request] /\ OnlyMoved(r)
      /\ req'[r].kind = kind /\ req'[r].cred = NoToken /\ req'[r].acct = a
      /\ req'[r].stage = "sent" /\ ~req'[r].gone /\ req[r].kind = "idle"
  BY <1>1, Sends DEF IInv, Kinds
<1>3. Mild(req[r], req'[r])
  BY <1>2 DEF Mild
<1>4. PlaceTyped' /\ form' \in Slots \cup {NoSlot}
  BY PlaceKept, FormKept DEF Submit
<1> QED BY <1>2, <1>3, <1>4, Mildly DEF Submit, server, IInv, TypeOK

\* A page calls the API.
LEMMA CallStep ==
  ASSUME IInv, NEW r \in Slots, Call(r)
  PROVE  IInv'
<1>0. PICK c \in {NoToken} \cup Tokens : c = stored
  BY TokenBounds
<1>1. Send(r, "call", NoUser, c)
  BY <1>0 DEF Call
<1>2. /\ req' \in [Slots -> Request] /\ OnlyMoved(r)
      /\ req'[r].kind = "call" /\ req'[r].cred = stored
      /\ req'[r].stage = "sent" /\ ~req'[r].gone /\ req[r].kind = "idle"
  BY <1>0, <1>1, Sends DEF IInv, Kinds
<1>3. Mild(req[r], req'[r])
  BY <1>2 DEF Mild
<1>4. PlaceTyped' /\ form' \in Slots \cup {NoSlot}
  BY PlaceKept DEF Call, IInv, TypeOK
<1> QED BY <1>2, <1>3, <1>4, Mildly DEF Call, server, IInv, TypeOK

\* The visitor logs out.
LEMMA LogoutStep ==
  ASSUME IInv, NEW r \in Slots, Logout(r)
  PROVE  IInv'
<1> USE DEF storage
<1>p. TypeOK /\ RequestsFit /\ WonIsFresh /\ Identity /\ Forgets
  BY DEF IInv
<1>0. PICK c \in {NoToken} \cup Tokens : c = stored
  BY TokenBounds
<1>1. Send(r, "logout", NoUser, c)
  BY <1>0 DEF Logout
<1>2. /\ req' \in [Slots -> Request] /\ OnlyMoved(r)
      /\ req'[r].kind = "logout" /\ req'[r].cred = stored
      /\ req'[r].stage = "sent" /\ ~req'[r].gone /\ req[r].kind = "idle"
  BY <1>0, <1>1, <1>p, Sends DEF Kinds
<1>3. PlaceTyped' /\ form' \in Slots \cup {NoSlot}
  BY PlaceKept, FormKept, ReplaceTyped, SessionAssumption DEF Logout
<1>4. /\ left' = left \cup ({stored} \ {NoToken}) /\ user' = NoUser /\ saved' = NoUser
      /\ UNCHANGED <<accounts, issued, live, stored, hosted, others, late>>
  BY DEF Logout, server
<1>5. TypeOK'
  BY <1>p, <1>2, <1>3, <1>4 DEF TypeOK, PlaceTyped
<1>6. RequestsFit'
  BY <1>p, <1>2, <1>4 DEF RequestsFit, Fits, OnlyMoved, TypeOK
<1>7. WonIsFresh'
  <2> SUFFICES ASSUME NEW t \in Slots, Won(t)'
               PROVE  /\ req'[t].cred # stored /\ req'[t].cred \notin left'
                      /\ \A u \in Slots \ {t} : req'[u].cred # req'[t].cred
    BY <1>4 DEF WonIsFresh
  <2>1. t # r /\ req'[t] = req[t] /\ Won(t)
    BY <1>2 DEF Won, OnlyMoved
  <2>2. /\ req[t].cred # stored /\ req[t].cred \notin left
        /\ \A u \in Slots \ {t} : req[u].cred # req[t].cred
    BY <1>p, <2>1 DEF WonIsFresh
  <2>3. ASSUME NEW u \in Slots \ {t} PROVE req'[u].cred # req[t].cred
    BY <1>2, <2>2, <2>3 DEF OnlyMoved
  <2> QED BY <1>4, <2>1, <2>2, <2>3
<1>8. Identity'
  BY <1>4 DEF Identity, OneIdentity, SignedInHasToken, NotLeaving
<1>9. Forgets'
  BY <1>p, <1>2, <1>4 DEF Forgets, OnlyMoved
<1> QED BY <1>5, <1>6, <1>7, <1>8, <1>9 DEF IInv

\* The visitor reloads the page.
LEMMA ReloadStep ==
  ASSUME IInv, Reload
  PROVE  IInv'
<1>p. TypeOK /\ RequestsFit /\ WonIsFresh /\ Identity /\ Forgets
  BY DEF IInv
<1>1. /\ user' = (IF stored = NoToken THEN NoUser ELSE saved) /\ saved' = user'
      /\ hosted' = FALSE /\ form' = NoSlot /\ left' = {}
      /\ UNCHANGED <<accounts, issued, live, stored, others, late>>
  BY DEF Reload, server
<1>2. ASSUME NEW t \in Slots
      PROVE  /\ req'[t] \in Request
             /\ \/ req'[t] = Idle
                \/ /\ req[t].kind \notin {"idle", "call"} /\ req[t].stage = "sent"
                   /\ req'[t].kind = req[t].kind /\ req'[t].cred = req[t].cred
                   /\ req'[t].acct = req[t].acct /\ req'[t].stage = "sent"
  <2> DEFINE q == [req[t] EXCEPT !.gone = TRUE]
  <2>1. req[t] \in Request
    BY <1>p DEF TypeOK
  <2>2. /\ q \in Request /\ q.kind = req[t].kind /\ q.cred = req[t].cred
        /\ q.acct = req[t].acct /\ q.stage = req[t].stage
    BY <2>1 DEF Request
  <2>3. req'[t] = IF req[t].kind \in {"idle", "call"} \/ req[t].stage # "sent"
                    THEN Idle ELSE q
    BY DEF Reload
  <2> HIDE DEF q
  <2> QED BY <2>2, <2>3, IdleIsRequest
<1>3. req' \in [Slots -> Request]
  <2>1. /\ DOMAIN req' = Slots
        /\ req' = [t \in Slots |-> req'[t]]
    BY DEF Reload
  <2> QED BY <1>2, <2>1
<1>4. PlaceTyped'
  <2>1. pos \in 1..Len(hist) /\ PlaceTyped
    BY PlaceKept DEF PlaceTyped
  <2>2. PICK u : u = user'
    OBVIOUS
  <2>3. Open(pos, u)
    BY <2>2 DEF Reload
  <2> QED BY <2>1, <2>3, OpenTyped
<1>5. TypeOK'
  BY <1>p, <1>1, <1>3, <1>4 DEF TypeOK, PlaceTyped
<1>6. RequestsFit'
  <2> SUFFICES ASSUME NEW t \in Slots PROVE Fits(req'[t], issued, live)
    BY <1>1 DEF RequestsFit
  <2>1. Fits(req[t], issued, live)
    BY <1>p DEF RequestsFit
  <2> QED BY <1>2, <2>1, IdleIsRequest DEF Fits
<1>7. WonIsFresh'
  BY <1>2, IdleIsRequest DEF WonIsFresh, Won
<1>8. Identity'
  <2>1. OneIdentity' /\ SignedInHasToken'
    BY <1>p, <1>1 DEF Identity, OneIdentity, SignedInHasToken
  <2>2. NotLeaving'
    <3> SUFFICES ASSUME ~others, user' # NoUser, NEW t \in Slots,
                        req'[t].kind = "logout", req'[t].cred # NoToken
                 PROVE  req'[t].cred # stored
      BY <1>1 DEF NotLeaving
    <3>1. user # NoUser
      BY <1>p, <1>1 DEF Identity, OneIdentity
    <3>2. req[t].kind = "logout" /\ req[t].cred = req'[t].cred
      BY <1>2, IdleIsRequest
    <3> QED BY <1>p, <3>1, <3>2 DEF Identity, NotLeaving
  <2> QED BY <2>1, <2>2 DEF Identity
<1>9. Forgets'
  BY <1>1 DEF Forgets
<1> QED BY <1>5, <1>6, <1>7, <1>8, <1>9 DEF IInv

-----------------------------------------------------------------------------
\* Another tab.

\* The visitor signs in in another tab ...
LEMMA OtherTabLoginStep ==
  ASSUME IInv, NEW a \in Accounts, OtherTabLogin(a)
  PROVE  IInv'
<1>p. TypeOK /\ RequestsFit /\ WonIsFresh /\ Identity /\ Forgets
  BY DEF IInv
<1>1. PICK n \in Nat : n = Len(issued)
  BY <1>p DEF TypeOK
<1>2. /\ issued' \in Seq(Accounts) /\ Len(issued') = n + 1
      /\ \A k \in 1..n : issued'[k] = issued[k]
  BY <1>p, <1>1, Appended DEF TypeOK, OtherTabLogin
<1>3. /\ live' = live \cup {n + 1} /\ stored' = n + 1 /\ saved' = a
      /\ others' /\ n < MaxTokens /\ TokensAsked = {}
      /\ UNCHANGED <<accounts, user, view, hist, pos, hosted, form, req, left, late>>
  BY <1>1 DEF OtherTabLogin, place
<1>4. /\ live \subseteq 1..n /\ left \subseteq 1..n
      /\ others \in BOOLEAN /\ others' \in BOOLEAN
  BY <1>p, <1>1, <1>3 DEF TypeOK, OtherTabLogin
<1>5. TypeOK'
  <2>1. Len(issued') <= MaxTokens
    BY <1>2, <1>3, SessionAssumption
  <2>2. live' \subseteq 1..Len(issued') /\ left' \subseteq 1..Len(issued')
    BY <1>2, <1>3, <1>4
  <2>3. stored' \in {NoToken} \cup 1..Len(issued')
    BY <1>2, <1>3
  <2> QED BY <1>p, <1>2, <1>3, <1>4, <2>1, <2>2, <2>3 DEF TypeOK
<1>6. RequestsFit'
  <2> SUFFICES ASSUME NEW t \in Slots PROVE Fits(req[t], issued', live')
    BY <1>3 DEF RequestsFit
  <2>1. Fits(req[t], issued, live)
    BY <1>p DEF RequestsFit
  <2> QED BY <2>1, <1>1, <1>2, <1>3 DEF Fits, NoToken
<1>7. WonIsFresh'
  BY <1>p, <1>3 DEF WonIsFresh, Won, TokensAsked
<1>8. Identity'
  BY <1>3 DEF Identity, OneIdentity, SignedInHasToken, NotLeaving
<1>9. Forgets'
  BY <1>3, <1>4 DEF Forgets
<1> QED BY <1>5, <1>6, <1>7, <1>8, <1>9 DEF IInv

\* ... or out.
LEMMA OtherTabLogoutStep ==
  ASSUME IInv, OtherTabLogout
  PROVE  IInv'
<1>p. TypeOK /\ RequestsFit /\ WonIsFresh /\ Identity /\ Forgets
  BY DEF IInv
<1>1. /\ live' \subseteq live /\ stored' = NoToken /\ saved' = NoUser /\ others'
      /\ UNCHANGED <<accounts, issued, user, view, hist, pos, hosted, form, req, left, late>>
  BY DEF OtherTabLogout, place
<1>2. TypeOK'
  BY <1>p, <1>1 DEF TypeOK
<1>3. RequestsFit'
  BY <1>p, <1>1 DEF RequestsFit, Fits
<1>4. WonIsFresh'
  BY <1>p, <1>1 DEF WonIsFresh, Won, RequestsFit, Fits
<1>5. Identity'
  BY <1>1 DEF Identity, OneIdentity, SignedInHasToken, NotLeaving
<1>6. Forgets'
  BY <1>p, <1>1 DEF Forgets, TypeOK, NoToken
<1> QED BY <1>2, <1>3, <1>4, <1>5, <1>6 DEF IInv

-----------------------------------------------------------------------------
\* The server and the network.

\* A step of the server leaves the page as it is.
LEMMA PageKept ==
  ASSUME IInv, UNCHANGED page
  PROVE  /\ PlaceTyped' /\ form' \in Slots \cup {NoSlot}
         /\ UNCHANGED <<storage, user, hosted, left, others, late>>
BY PlaceKept DEF page, IInv, TypeOK

\* An answer that issues no token, nor refuses a live one, moves one request.
LEMMA AnswersMildly ==
  ASSUME IInv, NEW r \in Slots, NEW st \in {"ok", "refused", "failed"}, Answer(r, st),
         req[r].kind = "login" => st # "ok",
         req[r].kind = "call" /\ st = "refused" => req[r].cred \notin live
  PROVE  req' \in [Slots -> Request] /\ OnlyMoved(r) /\ Mild(req[r], req'[r])
<1>1. /\ req' \in [Slots -> Request] /\ OnlyMoved(r)
      /\ \/ req'[r] = Idle /\ req[r].gone
         \/ /\ req'[r].kind = req[r].kind /\ req'[r].cred = req[r].cred
            /\ req'[r].acct = req[r].acct /\ req'[r].stage = st /\ ~req'[r].gone
  BY Answers DEF IInv
<1>2. req[r].kind = "register" => req[r].acct \in Accounts
  BY DEF IInv, RequestsFit, Fits
<1>3. Mild(req[r], req'[r])
  BY <1>1, <1>2, IdleIsRequest DEF Mild
<1> QED BY <1>1, <1>3

\* The server answers a login.
LEMMA ServeLoginStep ==
  ASSUME IInv, NEW r \in Slots, ServeLogin(r)
  PROVE  IInv'
<1> USE DEF storage
<1>p. TypeOK /\ RequestsFit /\ WonIsFresh /\ Identity /\ Forgets
  BY DEF IInv
<1>k. /\ req[r].kind = "login" /\ req[r].stage = "sent" /\ req[r] \in Request
      /\ UNCHANGED accounts /\ UNCHANGED page
  BY <1>p DEF ServeLogin, Sent, TypeOK
<1>1. CASE Answer(r, "failed") /\ UNCHANGED <<issued, live>>
  BY <1>k, <1>1, AnswersMildly, PageKept, Mildly DEF IInv, TypeOK
<1>2. CASE /\ req[r].acct \in accounts /\ Len(issued) < MaxTokens
           /\ issued' = Append(issued, req[r].acct)
           /\ live' = live \cup {Len(issued) + 1}
           /\ req' = [req EXCEPT ![r] =
                IF @.gone THEN Idle
                ELSE [@ EXCEPT !.stage = "ok", !.cred = Len(issued) + 1]]
  <2>1. PICK a \in Accounts : a = req[r].acct
    BY <1>p, <1>2 DEF TypeOK
  <2>2. /\ issued' \in Seq(Accounts) /\ Len(issued') = Len(issued) + 1
        /\ \A k \in 1..Len(issued) : issued'[k] = issued[k]
        /\ issued'[Len(issued) + 1] = a
        /\ Len(issued) \in Nat /\ Len(issued) + 1 \in Tokens
    BY <1>p, <1>2, <2>1, Appended, SessionAssumption DEF TypeOK, Tokens
  <2>3. PICK n \in Tokens : n = Len(issued) + 1
    BY <2>2
  <2>4. /\ req' \in [Slots -> Request] /\ OnlyMoved(r)
        /\ \/ req'[r] = Idle
           \/ /\ req'[r].kind = "login" /\ req'[r].stage = "ok"
              /\ req'[r].cred = n /\ req'[r].acct = a
    <3> DEFINE q == [req[r] EXCEPT !.stage = "ok", !.cred = n]
    <3>1. /\ q \in Request /\ q.kind = "login" /\ q.stage = "ok"
          /\ q.cred = n /\ q.acct = a
      BY <1>k, <2>1 DEF Request
    <3>2. req' = [req EXCEPT ![r] = IF req[r].gone THEN Idle ELSE q]
      BY <1>2, <2>3
    <3> HIDE DEF q
    <3>3. CASE req[r].gone
      BY <3>2, <3>3, <1>p, IdleIsRequest, Moved
    <3>4. CASE ~req[r].gone
      BY <3>1, <3>2, <3>4, <1>p, Moved
    <3> QED BY <3>3, <3>4
  <2>5. /\ PlaceTyped' /\ form' \in Slots \cup {NoSlot}
        /\ UNCHANGED <<accounts, stored, saved, user, hosted, left, others, late>>
    BY <1>k, PageKept
  <2>6. TypeOK'
    <3>1. live' \subseteq 1..Len(issued') /\ left' \subseteq 1..Len(issued')
      BY <1>p, <1>2, <2>2, <2>5 DEF TypeOK
    <3>2. Len(issued') <= MaxTokens /\ stored' \in {NoToken} \cup 1..Len(issued')
      BY <1>p, <1>2, <2>2, <2>5, SessionAssumption DEF TypeOK
    <3> QED BY <1>p, <2>2, <2>4, <2>5, <3>1, <3>2 DEF TypeOK, PlaceTyped
  <2>7. \A t \in Slots : req[t].cred # n
    BY <1>p, <2>2, <2>3 DEF RequestsFit, Fits, NoToken
  <2>8. RequestsFit'
    <3> SUFFICES ASSUME NEW t \in Slots PROVE Fits(req'[t], issued', live')
      BY DEF RequestsFit
    <3>0. Fits(req[t], issued, live)
      BY <1>p DEF RequestsFit
    <3>1. CASE t # r
      <4>1. req'[t] = req[t] /\ req[t].cred # n
        BY <3>1, <2>4, <2>7 DEF OnlyMoved
      <4> QED BY <4>1, <3>0, <1>2, <2>2, <2>3 DEF Fits
    <3>2. CASE t = r /\ req'[r] = Idle
      BY <3>2, IdleIsRequest DEF Fits
    <3>3. CASE t = r /\ req'[r] # Idle
      BY <3>3, <2>2, <2>3, <2>4 DEF Fits, NoToken
    <3> QED BY <3>1, <3>2, <3>3
  <2>9. WonIsFresh'
    <3> SUFFICES ASSUME NEW t \in Slots, Won(t)'
                 PROVE  /\ req'[t].cred # stored /\ req'[t].cred \notin left
                        /\ \A u \in Slots \ {t} : req'[u].cred # req'[t].cred
      BY <2>5 DEF WonIsFresh
    <3>1. CASE t = r
      <4>1. req'[t].cred = n
        BY <3>1, <2>4, IdleIsRequest DEF Won
      <4>2. n # stored /\ n \notin left
        BY <1>p, <2>2, <2>3 DEF TypeOK, NoToken
      <4>3. \A u \in Slots \ {t} : req'[u].cred # n
        BY <3>1, <2>4, <2>7 DEF OnlyMoved
      <4> QED BY <4>1, <4>2, <4>3
    <3>2. CASE t # r
      <4>1. req'[t] = req[t] /\ Won(t)
        BY <3>2, <2>4 DEF OnlyMoved, Won
      <4>2. /\ req[t].cred # stored /\ req[t].cred \notin left
            /\ req[t].cred # NoToken /\ req[t].cred # n
            /\ \A u \in Slots \ {t} : req[u].cred # req[t].cred
        BY <1>p, <4>1, <2>7 DEF WonIsFresh, RequestsFit, Fits, Won
      <4>3. ASSUME NEW u \in Slots \ {t} PROVE req'[u].cred # req[t].cred
        BY <4>2, <4>3, <2>4, IdleIsRequest DEF OnlyMoved
      <4> QED BY <4>1, <4>2, <4>3
    <3> QED BY <3>1, <3>2
  <2>10. Identity'
    <3>1. OneIdentity' /\ SignedInHasToken'
      BY <1>p, <2>2, <2>5 DEF Identity, OneIdentity, SignedInHasToken, TypeOK
    <3>2. NotLeaving'
      BY <1>p, <2>4, <2>5, IdleIsRequest DEF Identity, NotLeaving, OnlyMoved
    <3> QED BY <3>1, <3>2 DEF Identity
  <2>11. Forgets'
    BY <1>p, <1>k, <2>4, <2>5 DEF Forgets, OnlyMoved
  <2> QED BY <2>6, <2>8, <2>9, <2>10, <2>11 DEF IInv
<1> QED BY <1>1, <1>2 DEF ServeLogin

\* The server answers a registration.
LEMMA ServeRegisterStep ==
  ASSUME IInv, NEW r \in Slots, ServeRegister(r)
  PROVE  IInv'
<1>1. req[r].kind = "register" /\ UNCHANGED <<issued, live>> /\ UNCHANGED page
  BY DEF ServeRegister, Sent
<1>2. accounts \subseteq Accounts /\ req[r].acct \in Accounts
  BY <1>1 DEF IInv, TypeOK, RequestsFit, Fits
<1>3. CASE RegistrationOpen /\ req[r].acct \notin accounts
  <2>1. accounts' = accounts \cup {req[r].acct} /\ Answer(r, "ok")
    BY <1>3 DEF ServeRegister
  <2> QED BY <1>1, <1>2, <2>1, AnswersMildly, PageKept, Mildly
<1>4. CASE ~(RegistrationOpen /\ req[r].acct \notin accounts)
  <2>1. accounts' = accounts /\ Answer(r, "failed")
    BY <1>4 DEF ServeRegister
  <2> QED BY <1>1, <1>2, <2>1, AnswersMildly, PageKept, Mildly
<1> QED BY <1>3, <1>4

\* The server answers a logout.
LEMMA ServeLogoutStep ==
  ASSUME IInv, NEW r \in Slots, ServeLogout(r)
  PROVE  IInv'
BY AnswersMildly, PageKept, Mildly DEF ServeLogout, Sent, IInv, TypeOK

\* The server answers a call.
LEMMA ServeCallStep ==
  ASSUME IInv, NEW r \in Slots, ServeCall(r)
  PROVE  IInv'
<1>1. /\ req[r].kind = "call"
      /\ UNCHANGED <<accounts, issued, live>> /\ UNCHANGED page
  BY DEF ServeCall, Sent, server
<1>2. PICK st \in {"ok", "refused", "failed"} :
        st = IF req[r].cred \in live THEN "ok" ELSE "refused"
  OBVIOUS
<1>3. Answer(r, st)
  BY <1>2 DEF ServeCall
<1> QED BY <1>1, <1>2, <1>3, AnswersMildly, PageKept, Mildly DEF IInv, TypeOK

\* A request or its answer is lost.
LEMMA LoseStep ==
  ASSUME IInv, NEW r \in Slots, Lose(r)
  PROVE  IInv'
BY AnswersMildly, PageKept, Mildly DEF Lose, server, IInv, TypeOK

\* A token expires.
LEMMA ExpireStep ==
  ASSUME IInv, NEW k, Expire(k)
  PROVE  IInv'
BY PageKept, Quiet DEF Expire, IInv, TypeOK

-----------------------------------------------------------------------------
\* The page handles an answer.

\* The answer to a login is handled.
LEMMA ReceiveLoginStep ==
  ASSUME IInv, NEW r \in Slots, ReceiveLogin(r)
  PROVE  IInv'
<1>p. TypeOK /\ RequestsFit /\ WonIsFresh /\ Identity /\ Forgets
  BY DEF IInv
<1>1. /\ req' \in [Slots -> Request] /\ OnlyMoved(r) /\ req'[r] = Idle
      /\ req[r].kind = "login" /\ Won(r) /\ req[r] \in Request
  BY <1>p, Ends DEF ReceiveLogin, Answered, Won, TypeOK
<1>2. /\ stored' = req[r].cred /\ saved' = req[r].acct /\ user' = req[r].acct
      /\ UNCHANGED <<accounts, issued, live, hosted, left, others, late>>
  BY DEF ReceiveLogin, server
<1>3. /\ req[r].cred \in 1..Len(issued) /\ req[r].cred # NoToken
      /\ issued[req[r].cred] = req[r].acct
  BY <1>p, <1>1 DEF RequestsFit, Fits, Won
<1>4. req[r].acct \in Accounts
  BY <1>p, <1>3 DEF TypeOK
<1>5. /\ req[r].cred \notin left
      /\ \A t \in Slots \ {r} : req[t].cred # req[r].cred
  BY <1>p, <1>1 DEF WonIsFresh
<1>6. PlaceTyped' /\ form' \in Slots \cup {NoSlot}
  <2>1. PICK v \in Views :
          v = IF view \in {"login", "landing"} THEN "overview" ELSE view
    BY <1>p, SessionAssumption DEF TypeOK
  <2>2. Replace(v)
    BY <2>1 DEF ReceiveLogin
  <2> QED BY <2>2, PlaceKept, ReplaceTyped, FormKept DEF ReceiveLogin
<1>7. TypeOK'
  BY <1>p, <1>1, <1>2, <1>3, <1>4, <1>6 DEF TypeOK, PlaceTyped
<1>8. RequestsFit'
  BY <1>p, <1>1, <1>2, IdleIsRequest DEF RequestsFit, Fits, OnlyMoved
<1>9. WonIsFresh'
  <2> SUFFICES ASSUME NEW t \in Slots, Won(t)'
               PROVE  /\ req'[t].cred # stored' /\ req'[t].cred \notin left
                      /\ \A u \in Slots \ {t} : req'[u].cred # req'[t].cred
    BY <1>2 DEF WonIsFresh
  <2>1. t # r /\ req'[t] = req[t] /\ Won(t)
    BY <1>1, IdleIsRequest DEF Won, OnlyMoved
  <2>2. /\ req[t].cred \notin left /\ req[t].cred # NoToken
        /\ req[t].cred # req[r].cred
        /\ \A u \in Slots \ {t} : req[u].cred # req[t].cred
    BY <1>p, <1>5, <2>1 DEF WonIsFresh, RequestsFit, Fits, Won
  <2>3. ASSUME NEW u \in Slots \ {t} PROVE req'[u].cred # req[t].cred
    BY <1>1, <2>2, <2>3, IdleIsRequest DEF OnlyMoved
  <2> QED BY <1>2, <2>1, <2>2, <2>3
<1>10. Identity'
  <2>1. OneIdentity' /\ SignedInHasToken'
    BY <1>2, <1>3 DEF OneIdentity, SignedInHasToken
  <2>2. NotLeaving'
    BY <1>1, <1>2, <1>5, IdleIsRequest DEF NotLeaving, OnlyMoved
  <2> QED BY <2>1, <2>2 DEF Identity
<1>11. Forgets'
  BY <1>2, <1>5 DEF Forgets
<1> QED BY <1>7, <1>8, <1>9, <1>10, <1>11 DEF IInv

\* Handling an answer, other than a logout's, moves one request.
LEMMA EndsMildly ==
  ASSUME IInv, NEW r \in Slots, Done(r), req[r].kind # "logout"
  PROVE  req' \in [Slots -> Request] /\ OnlyMoved(r) /\ Mild(req[r], req'[r])
BY Ends, IdleIsRequest DEF Mild, IInv

\* A refused login or registration is handled.
LEMMA ReceiveRefusalStep ==
  ASSUME IInv, NEW r \in Slots, ReceiveRefusal(r)
  PROVE  IInv'
<1>1. req' \in [Slots -> Request] /\ OnlyMoved(r) /\ Mild(req[r], req'[r])
  BY EndsMildly DEF ReceiveRefusal, Answered
<1>2. PICK f : f = (IF form = r THEN NoSlot ELSE form)
  OBVIOUS
<1>3. form' \in Slots \cup {NoSlot} /\ PlaceTyped'
  BY <1>2, FormKept, PlaceKept DEF ReceiveRefusal
<1> QED BY <1>1, <1>3, Mildly DEF ReceiveRefusal, server, IInv, TypeOK

\* The answer to a registration is handled.
LEMMA ReceiveRegisterStep ==
  ASSUME IInv, NEW r \in Slots, ReceiveRegister(r)
  PROVE  IInv'
<1> DEFINE q == [req[r] EXCEPT !.kind = "login", !.stage = "sent"]
<1>1. req[r] \in Request /\ req[r].kind = "register"
  BY DEF ReceiveRegister, Answered, IInv, TypeOK
<1>2. q \in Request /\ q.kind = "login" /\ q.stage = "sent" /\ q.cred = req[r].cred
  BY <1>1 DEF Request, Kinds
<1>3. req' = [req EXCEPT ![r] = q]
  BY <1>1 DEF ReceiveRegister, IInv, TypeOK, Request
<1> HIDE DEF q
<1>4. req' \in [Slots -> Request] /\ OnlyMoved(r) /\ req'[r] = q
  BY <1>2, <1>3, Moved DEF IInv
<1>5. Mild(req[r], req'[r])
  BY <1>1, <1>2, <1>4 DEF Mild
<1> QED BY <1>4, <1>5, PageKept, Mildly DEF ReceiveRegister, server, IInv, TypeOK

\* The answers after which nothing is stored.
LEMMA Dropped ==
  ASSUME IInv, NEW r \in Slots, Done(r), stored' = NoToken,
         Identity', PlaceTyped', form' \in Slots \cup {NoSlot},
         saved' \in Accounts \cup {NoUser}, user' \in Accounts \cup {NoUser},
         late' \in BOOLEAN,
         UNCHANGED <<accounts, issued, live, hosted, left, others>>
  PROVE  IInv'
<1>p. TypeOK /\ RequestsFit /\ WonIsFresh /\ Forgets
  BY DEF IInv
<1>1. req' \in [Slots -> Request] /\ OnlyMoved(r) /\ req'[r] = Idle
  BY <1>p, Ends
<1>2. TypeOK'
  BY <1>p, <1>1 DEF TypeOK, PlaceTyped
<1>3. RequestsFit'
  BY <1>p, <1>1, IdleIsRequest DEF RequestsFit, Fits, OnlyMoved
<1>4. WonIsFresh'
  <2> SUFFICES ASSUME NEW t \in Slots, Won(t)'
               PROVE  /\ req'[t].cred # NoToken /\ req'[t].cred \notin left
                      /\ \A u \in Slots \ {t} : req'[u].cred # req'[t].cred
    BY DEF WonIsFresh
  <2>1. t # r /\ req'[t] = req[t] /\ Won(t)
    BY <1>1, IdleIsRequest DEF Won, OnlyMoved
  <2>2. /\ req[t].cred \notin left /\ req[t].cred # NoToken
        /\ \A u \in Slots \ {t} : req[u].cred # req[t].cred
    BY <1>p, <2>1 DEF WonIsFresh, RequestsFit, Fits, Won
  <2>3. ASSUME NEW u \in Slots \ {t} PROVE req'[u].cred # req[t].cred
    BY <1>1, <2>2, <2>3, IdleIsRequest DEF OnlyMoved
  <2> QED BY <2>1, <2>2, <2>3
<1>5. Forgets'
  BY <1>p DEF Forgets, TypeOK, NoToken
<1> QED BY <1>2, <1>3, <1>4, <1>5 DEF IInv

\* The answer to a logout is handled.
LEMMA ReceiveLogoutStep ==
  ASSUME IInv, NEW r \in Slots, ReceiveLogout(r)
  PROVE  IInv'
<1>p. TypeOK /\ Identity
  BY DEF IInv
<1>1. /\ Done(r) /\ stored' = NoToken /\ req[r].kind = "logout"
      /\ late' = (late \/ stored \notin {NoToken, req[r].cred})
      /\ UNCHANGED <<accounts, issued, live, saved, user, view, hist, pos,
                     hosted, form, left, others>>
  BY DEF ReceiveLogout, Answered, server, place
<1>2. Identity'
  <2>1. OneIdentity' /\ NotLeaving'
    BY <1>p, <1>1 DEF Identity, OneIdentity, NotLeaving
  <2>2. SignedInHasToken'
    <3> SUFFICES ASSUME ~others, ~late', user # NoUser PROVE FALSE
      BY <1>1 DEF SignedInHasToken
    <3>1. ~late /\ stored \in {NoToken, req[r].cred}
      BY <1>1
    <3>2. stored # NoToken
      BY <1>p, <3>1 DEF Identity, SignedInHasToken
    <3> QED BY <1>p, <1>1, <3>1, <3>2 DEF Identity, NotLeaving
  <2> QED BY <2>1, <2>2 DEF Identity
<1>3. PlaceTyped' /\ form' \in Slots \cup {NoSlot} /\ late' \in BOOLEAN
  BY <1>p, <1>1 DEF PlaceTyped, TypeOK
<1> QED BY <1>p, <1>1, <1>2, <1>3, Dropped DEF TypeOK

\* The answer to a call is handled.
LEMMA ReceiveCallStep ==
  ASSUME IInv, NEW r \in Slots, ReceiveCall(r)
  PROVE  IInv'
<1>p. TypeOK /\ Identity
  BY DEF IInv
<1>1. /\ Done(r) /\ req[r].kind = "call"
      /\ UNCHANGED <<accounts, issued, live, hosted, left, others, late>>
  BY DEF ReceiveCall, Answered, server
<1>2. CASE /\ req[r].stage = "refused" /\ req[r].cred # NoToken /\ stored = req[r].cred
  <2>1. stored' = NoToken /\ saved' = NoUser /\ user' = NoUser /\ Replace("login")
    BY <1>2 DEF ReceiveCall
  <2>2. Identity'
    BY <2>1 DEF Identity, OneIdentity, SignedInHasToken, NotLeaving
  <2>3. PlaceTyped' /\ form' \in Slots \cup {NoSlot}
    BY <2>1, PlaceKept, ReplaceTyped, FormKept, SessionAssumption DEF ReceiveCall
  <2> QED BY <1>p, <1>1, <2>1, <2>2, <2>3, Dropped DEF TypeOK
<1>3. CASE ~(req[r].stage = "refused" /\ req[r].cred # NoToken /\ stored = req[r].cred)
  <2>1. UNCHANGED <<storage, user, place>>
    BY <1>3 DEF ReceiveCall
  <2>2. PlaceTyped' /\ form' \in Slots \cup {NoSlot}
    BY <2>1, PlaceKept, FormKept DEF ReceiveCall
  <2> QED BY <1>p, <1>1, <2>1, <2>2, EndsMildly, Mildly DEF TypeOK
<1> QED BY <1>2, <1>3

-----------------------------------------------------------------------------
\* IInv holds at first ...
LEMMA InitEstablishes == Init => IInv
<1> SUFFICES ASSUME Init PROVE IInv
  OBVIOUS
<1>0. /\ accounts = Registered /\ issued = <<>> /\ live = {} /\ stored = NoToken
      /\ saved = NoUser /\ user = NoUser /\ view \in Views /\ hist = <<view>>
      /\ pos = 1 /\ hosted = FALSE /\ form = NoSlot
      /\ req = [r \in Slots |-> Idle] /\ left = {} /\ others = FALSE /\ late = FALSE
  BY DEF Init
<1>1. hist \in Seq(Views) /\ Len(hist) = 1 /\ issued \in Seq(Accounts) /\ Len(issued) = 0
  BY <1>0
<1>2. TypeOK
  <2>1. req \in [Slots -> Request]
    BY <1>0, IdleIsRequest
  <2>2. accounts \subseteq Accounts /\ Len(issued) <= MaxTokens
    BY <1>0, <1>1, SessionAssumption
  <2>3. view \in Views /\ pos \in 1..Len(hist)
    BY <1>0, <1>1
  <2>4. live \subseteq 1..Len(issued) /\ left \subseteq 1..Len(issued)
    BY <1>0
  <2>5. hosted \in BOOLEAN /\ others \in BOOLEAN /\ late \in BOOLEAN
    BY <1>0
  <2>6. stored \in {NoToken} \cup 1..Len(issued) /\ form \in Slots \cup {NoSlot}
    BY <1>0
  <2>7. saved \in Accounts \cup {NoUser} /\ user \in Accounts \cup {NoUser}
    BY <1>0
  <2> QED BY <1>1, <2>1, <2>2, <2>3, <2>4, <2>5, <2>6, <2>7 DEF TypeOK
<1>3. RequestsFit /\ WonIsFresh
  BY <1>0, IdleIsRequest DEF RequestsFit, Fits, WonIsFresh, Won
<1>4. Identity /\ Forgets
  BY <1>0 DEF Identity, OneIdentity, SignedInHasToken, NotLeaving, Forgets
<1> QED BY <1>2, <1>3, <1>4 DEF IInv

\* ... and every step keeps it.
LEMMA NextPreserves == IInv /\ [Next]_vars => IInv'
<1> SUFFICES ASSUME IInv, [Next]_vars PROVE IInv'
  OBVIOUS
<1>1. ASSUME UNCHANGED vars PROVE IInv'
  BY <1>1, PlaceKept, Quiet DEF vars, server, storage, place, IInv, TypeOK
<1>2. ASSUME Visit PROVE IInv'
  BY <1>2, NavigateStep, TraverseStep, LogoutStep, CallStep, SubmitStep, ReloadStep
     DEF Visit
<1>3. ASSUME NEW a \in Accounts, OtherTabLogin(a) PROVE IInv'
  BY <1>3, OtherTabLoginStep
<1>4. ASSUME NEW r \in Slots, Serve(r) PROVE IInv'
  BY <1>4, ServeLoginStep, ServeRegisterStep, ServeLogoutStep, ServeCallStep DEF Serve
<1>5. ASSUME NEW r \in Slots, Receive(r) PROVE IInv'
  BY <1>5, ReceiveLoginStep, ReceiveRefusalStep, ReceiveRegisterStep,
     ReceiveLogoutStep, ReceiveCallStep DEF Receive
<1> QED BY <1>1, <1>2, <1>3, <1>4, <1>5, CapabilitiesStep, OtherTabLogoutStep,
           ExpireStep, LoseStep DEF Next

\* The inductive invariant holds in every reachable state.
THEOREM Invariance == Spec => []IInv
BY InitEstablishes, NextPreserves, PTL DEF Spec

\* Every variable keeps its type, whatever requests are in flight.
THEOREM TypeCorrect == Spec => []TypeOK
<1>1. IInv => TypeOK
  BY DEF IInv
<1> QED BY <1>1, Invariance, PTL

\* The tab, the storage and the session token name one account.
THEOREM OneIdentityAlways == Spec => []OneIdentity
<1>1. IInv => OneIdentity
  BY DEF IInv, Identity
<1> QED BY <1>1, Invariance, PTL

\* A tab that shows a user holds a token, but for the answer to a logout that
\* comes after a later login.
THEOREM SignedInHasTokenAlways == Spec => []SignedInHasToken
<1>1. IInv => SignedInHasToken
  BY DEF IInv, Identity
<1> QED BY <1>1, Invariance, PTL

\* A token that was logged out of stays stored only while the answer is to come.
THEOREM LogoutForgetsAlways == Spec => []LogoutForgets
<1>1. IInv => LogoutForgets
  BY DEF IInv, Forgets, LogoutForgets
<1> QED BY <1>1, Invariance, PTL

\* Only a logout gives up a token that the server honours.
LEMMA TokenKept ==
  IInv /\ [Next]_vars => [LogoutAnswered \/ stored \notin live \/ stored' # NoToken]_vars
<1> SUFFICES ASSUME IInv, Next, ~LogoutAnswered, stored \in live
             PROVE  stored' # NoToken
  OBVIOUS
<1>0. /\ stored # NoToken /\ Len(issued) \in Nat
  BY DEF IInv, TypeOK, NoToken
<1>1. CASE UNCHANGED stored
  BY <1>0, <1>1
<1>2. ASSUME NEW r \in Slots, ReceiveLogin(r) PROVE stored' # NoToken
  BY <1>2 DEF ReceiveLogin, Answered, IInv, RequestsFit, Fits
<1>3. ASSUME NEW r \in Slots, ReceiveCall(r) PROVE UNCHANGED stored
  BY <1>3 DEF ReceiveCall, Answered, storage, IInv, RequestsFit, Fits
<1>4. ASSUME NEW a \in Accounts, OtherTabLogin(a) PROVE stored' # NoToken
  BY <1>0, <1>4 DEF OtherTabLogin, NoToken
<1>5. ASSUME Visit \/ CapabilitiesAnswer \/ \E k \in Tokens : Expire(k)
      PROVE  UNCHANGED stored
  BY <1>5 DEF Visit, Navigate, Traverse, Logout, Call, Submit, Reload,
     CapabilitiesAnswer, Expire, page, storage
<1>6. ASSUME NEW r \in Slots,
             Serve(r) \/ Lose(r) \/ ReceiveRefusal(r) \/ ReceiveRegister(r)
      PROVE  UNCHANGED stored
  BY <1>6 DEF Serve, ServeLogin, ServeRegister, ServeLogout, ServeCall, Lose,
     ReceiveRefusal, ReceiveRegister, page, storage
<1> QED BY <1>1, <1>2, <1>3, <1>4, <1>5, <1>6 DEF Next, Receive, LogoutAnswered

\* No late 401 ends a session: every step from a stored token that the server
\* honours to none is the answer to a logout.
THEOREM HonouredTokenKeptAlways == Spec => HonouredTokenKept
BY Invariance, TokenKept, PTL DEF Spec, HonouredTokenKept
=============================================================================
