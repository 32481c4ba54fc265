-------------------------- MODULE JobCreate_proofs --------------------------
(***************************************************************************)
(* What JobCreate guarantees for every number of requests, jobs, accounts  *)
(* and keys: the inductive invariant of the idempotent creation, the       *)
(* safety properties it yields, and the refinement of IdempotentCreate.    *)
(***************************************************************************)
EXTENDS JobCreate, TLAPS

\* Only a request that carries a key looks for it.
LookupKeyed ==
  \A r \in Reqs : pc[r] \in {"lookup", "relookup"} => Keyed(asked[r])

\* A row of idempotency_keys names a job row inserted for it ...
IdemHasRow ==
  \A b \in Bindings :
    idem[b] # NoJob => /\ row[idem[b]] # NoRow
                       /\ row[idem[b]].madeFor = b

\* ... and a job row inserted for a key is the one the key names.
RowHasIdem ==
  \A j \in Jobs :
    row[j] # NoRow /\ Keyed(row[j].madeFor) => idem[row[j].madeFor] = j

\* A handler about to answer holds a job made for its own request.
DispatchOwnJob ==
  \A r \in Reqs :
    pc[r] = "dispatch" => /\ job[r] \in Jobs
                          /\ row[job[r]] # NoRow
                          /\ row[job[r]].madeFor = asked[r]

IInv ==
  /\ TypeOK
  /\ LookupKeyed
  /\ IdemHasRow
  /\ RowHasIdem
  /\ DispatchOwnJob
  /\ AnswerIsOwnJob
  /\ RelookupFinds

----------------------------------------------------------------------------
\* A keyed request's parameters are the columns of a possible key row.
LEMMA KeyedIsBinding ==
  ASSUME NEW p \in Params, Keyed(p)
  PROVE  p \in Bindings
BY NoValues DEF Params, Bindings, Keyed

\* The initial state satisfies the inductive invariant.
LEMMA InitIInv == Init => IInv
BY NoValues DEF Init, IInv, TypeOK, LookupKeyed, IdemHasRow, RowHasIdem,
   DispatchOwnJob, AnswerIsOwnJob, RelookupFinds

\* A handler's first step keeps the invariant.
LEMMA SubmitStep ==
  ASSUME IInv, NEW r \in Reqs, Submit(r) PROVE IInv'
BY DEF Submit, Goto, IInv, TypeOK, LookupKeyed, IdemHasRow, RowHasIdem,
   DispatchOwnJob, AnswerIsOwnJob, RelookupFinds

\* So does a SELECT of the key: what it finds was made for this request.
LEMMA SelectStep ==
  ASSUME IInv, NEW r \in Reqs, Lookup(r) \/ Relookup(r) PROVE IInv'
<1>1. Keyed(asked[r]) /\ asked[r] \in Bindings
  BY KeyedIsBinding DEF IInv, TypeOK, LookupKeyed, Lookup, Relookup, Select
<1>2. idem[asked[r]] # NoJob =>
        /\ idem[asked[r]] \in Jobs
        /\ row[idem[asked[r]]] # NoRow
        /\ row[idem[asked[r]]].madeFor = asked[r]
  BY <1>1 DEF IInv, TypeOK, IdemHasRow
<1>3. TypeOK'
  BY <1>2 DEF IInv, TypeOK, Lookup, Relookup, Select, Goto
<1>4. LookupKeyed' /\ IdemHasRow' /\ RowHasIdem' /\ AnswerIsOwnJob'
  BY DEF IInv, TypeOK, LookupKeyed, IdemHasRow, RowHasIdem, AnswerIsOwnJob,
     Lookup, Relookup, Select, Goto
<1>5. DispatchOwnJob'
  BY <1>2 DEF IInv, TypeOK, DispatchOwnJob, Lookup, Relookup, Select, Goto
<1>6. RelookupFinds'
  BY DEF IInv, TypeOK, RelookupFinds, Lookup, Relookup, Select, Goto
<1> QED BY <1>3, <1>4, <1>5, <1>6 DEF IInv

\* So does the transaction: it is the only step that adds rows, and it adds
\* the job's and the key's together.
LEMMA InsertStep ==
  ASSUME IInv, NEW r \in Reqs, Insert(r) PROVE IInv'
<1> DEFINE p == asked[r]
<1> DEFINE new == [live |-> TRUE, madeFor |-> p, signer |-> r]
<1>1. PICK j \in Jobs :
        /\ row[j] = NoRow
        /\ row' = [row EXCEPT ![j] = new]
        /\ idem' = IF Keyed(p) THEN [idem EXCEPT ![p] = j] ELSE idem
        /\ job' = [job EXCEPT ![r] = j]
  BY DEF Insert
<1>2. /\ pc[r] = "insert" /\ pc' = [pc EXCEPT ![r] = "dispatch"]
      /\ Keyed(p) => idem[p] = NoJob
      /\ asked' = asked /\ users' = users /\ answers' = answers
  BY DEF Insert, UniqueHolds, Goto
<1>3. p \in Params /\ (Keyed(p) => p \in Bindings)
  BY KeyedIsBinding DEF IInv, TypeOK
<1>4. new \in Rows /\ new # NoRow /\ new.madeFor = p
  <2>1. new \in Rows
    BY <1>3 DEF Rows
  <2>2. new.madeFor = p
    OBVIOUS
  <2> QED BY <2>1, <2>2, NoValues
<1> HIDE DEF new, p
<1>5. /\ TypeOK /\ LookupKeyed /\ IdemHasRow /\ RowHasIdem
      /\ DispatchOwnJob /\ AnswerIsOwnJob /\ RelookupFinds
  BY DEF IInv
<1>6. /\ row'[j] = new
      /\ \A i \in Jobs : i # j => row'[i] = row[i]
      /\ \A b \in Bindings : b # p => idem'[b] = idem[b]
      /\ Keyed(p) => idem'[p] = j
      /\ ~Keyed(p) => idem' = idem
  BY <1>1, <1>3, <1>5 DEF TypeOK
<1>7. TypeOK'
  BY <1>1, <1>2, <1>3, <1>4, <1>5 DEF TypeOK
<1>8. LookupKeyed'
  BY <1>2, <1>5 DEF LookupKeyed, TypeOK
<1>9. IdemHasRow'
  <2> SUFFICES ASSUME NEW b \in Bindings, idem'[b] # NoJob
               PROVE  row'[idem'[b]] # NoRow /\ row'[idem'[b]].madeFor = b
    BY DEF IdemHasRow
  <2>1. CASE Keyed(p) /\ b = p
    BY <2>1, <1>4, <1>6
  <2>2. CASE ~(Keyed(p) /\ b = p)
    <3>1. idem'[b] = idem[b]
      BY <2>2, <1>6
    <3>2. idem[b] \in Jobs /\ row[idem[b]] # NoRow /\ row[idem[b]].madeFor = b
      BY <3>1, <1>5 DEF IdemHasRow, TypeOK
    <3>3. idem[b] # j
      BY <3>2, <1>1
    <3> QED BY <3>1, <3>2, <3>3, <1>6
  <2> QED BY <2>1, <2>2
<1>10. RowHasIdem'
  <2> SUFFICES ASSUME NEW i \in Jobs, row'[i] # NoRow, Keyed(row'[i].madeFor)
               PROVE  idem'[row'[i].madeFor] = i
    BY DEF RowHasIdem
  <2>1. CASE i = j
    BY <2>1, <1>4, <1>6
  <2>2. CASE i # j
    <3>1. row'[i] = row[i] /\ row[i] \in Rows
      BY <2>2, <1>5, <1>6 DEF TypeOK
    <3>2. row[i].madeFor \in Bindings
      BY <3>1, KeyedIsBinding DEF Rows
    <3>3. idem[row[i].madeFor] = i
      BY <3>1, <1>5 DEF RowHasIdem
    <3>4. i # NoJob
      BY NoValues
    <3>5. ~(Keyed(p) /\ row[i].madeFor = p)
      BY <1>2, <3>3, <3>4 DEF p
    <3> QED BY <3>1, <3>2, <3>3, <3>5, <1>6
  <2> QED BY <2>1, <2>2
<1>11. DispatchOwnJob'
  <2> SUFFICES ASSUME NEW q \in Reqs, pc'[q] = "dispatch"
               PROVE  /\ job'[q] \in Jobs /\ row'[job'[q]] # NoRow
                      /\ row'[job'[q]].madeFor = asked'[q]
    BY DEF DispatchOwnJob
  <2>1. CASE q = r
    BY <2>1, <1>1, <1>2, <1>4, <1>5, <1>6 DEF TypeOK, p
  <2>2. CASE q # r
    <3>1. pc[q] = "dispatch" /\ job'[q] = job[q]
      BY <2>2, <1>1, <1>2, <1>5 DEF TypeOK
    <3>2. job[q] \in Jobs /\ row[job[q]] # NoRow
          /\ row[job[q]].madeFor = asked[q]
      BY <3>1, <1>5 DEF DispatchOwnJob
    <3>3. job[q] # j
      BY <3>2, <1>1
    <3> QED BY <3>1, <3>2, <3>3, <1>2, <1>6
  <2> QED BY <2>1, <2>2
<1>12. AnswerIsOwnJob'
  <2> SUFFICES ASSUME NEW a \in answers
               PROVE  row'[a.job] # NoRow /\ row'[a.job].madeFor = a.to
    BY <1>2 DEF AnswerIsOwnJob
  <2>1. a.job \in Jobs /\ row[a.job] # NoRow /\ row[a.job].madeFor = a.to
    BY <1>5 DEF AnswerIsOwnJob, TypeOK
  <2> QED BY <2>1, <1>1, <1>6
<1>13. RelookupFinds'
  <2> SUFFICES ASSUME NEW q \in Reqs, pc'[q] = "relookup", asked[q].user \in users
               PROVE  idem'[asked[q]] # NoJob
    BY <1>2 DEF RelookupFinds
  <2>1. pc[q] = "relookup"
    BY <1>2, <1>5 DEF TypeOK
  <2>2. idem[asked[q]] # NoJob /\ asked[q] \in Bindings
    BY <2>1, <1>5, KeyedIsBinding DEF RelookupFinds, LookupKeyed, TypeOK
  <2>3. j # NoJob
    BY NoValues
  <2> QED BY <2>2, <2>3, <1>6
<1> QED BY <1>7, <1>8, <1>9, <1>10, <1>11, <1>12, <1>13 DEF IInv

\* So does a refused transaction: it looks again only with a key, and then
\* either the account is gone or the key's row is there.
LEMMA InsertFailedStep ==
  ASSUME IInv, NEW r \in Reqs, InsertConflict(r) \/ InsertLocked(r) PROVE IInv'
<1>1. /\ TypeOK /\ LookupKeyed /\ IdemHasRow /\ RowHasIdem
      /\ DispatchOwnJob /\ AnswerIsOwnJob /\ RelookupFinds
  BY DEF IInv
<1>2. TypeOK'
  BY <1>1 DEF TypeOK, InsertConflict, InsertLocked, Goto
<1>3. LookupKeyed' /\ IdemHasRow' /\ RowHasIdem' /\ DispatchOwnJob'
      /\ AnswerIsOwnJob'
  BY <1>1 DEF TypeOK, LookupKeyed, IdemHasRow, RowHasIdem, DispatchOwnJob,
     AnswerIsOwnJob, InsertConflict, InsertLocked, Goto
<1>4. RelookupFinds'
  BY <1>1 DEF TypeOK, RelookupFinds, InsertConflict, InsertLocked, Goto,
     ForeignKeyHolds, UniqueHolds
<1> QED BY <1>1, <1>2, <1>3, <1>4 DEF IInv

\* So does the answer, which names the handler's own job.
LEMMA RespondStep ==
  ASSUME IInv, NEW r \in Reqs, Respond(r) PROVE IInv'
<1>1. /\ TypeOK /\ LookupKeyed /\ IdemHasRow /\ RowHasIdem
      /\ DispatchOwnJob /\ AnswerIsOwnJob /\ RelookupFinds
  BY DEF IInv
<1>2. job[r] \in Jobs /\ row[job[r]] # NoRow /\ row[job[r]].madeFor = asked[r]
  BY <1>1 DEF DispatchOwnJob, Respond
<1>3. TypeOK'
  BY <1>1, <1>2 DEF TypeOK, Respond, Goto
<1>4. LookupKeyed' /\ IdemHasRow' /\ RowHasIdem' /\ DispatchOwnJob'
      /\ RelookupFinds'
  BY <1>1 DEF TypeOK, LookupKeyed, IdemHasRow, RowHasIdem, DispatchOwnJob,
     RelookupFinds, Respond, Goto
<1>5. AnswerIsOwnJob'
  BY <1>1, <1>2 DEF AnswerIsOwnJob, Respond
<1> QED BY <1>3, <1>4, <1>5 DEF IInv

\* So does the deletion of a job: the row keeps what it was made for.
LEMMA DeleteJobStep ==
  ASSUME IInv, NEW j \in Jobs, DeleteJob(j) PROVE IInv'
<1>1. /\ TypeOK /\ LookupKeyed /\ IdemHasRow /\ RowHasIdem
      /\ DispatchOwnJob /\ AnswerIsOwnJob /\ RelookupFinds
  BY DEF IInv
<1>2. row[j] \in Rows
  BY <1>1 DEF TypeOK, DeleteJob
<1>3. /\ row' = [row EXCEPT ![j] = [row[j] EXCEPT !.live = FALSE]]
      /\ [row[j] EXCEPT !.live = FALSE] \in Rows
      /\ [row[j] EXCEPT !.live = FALSE].madeFor = row[j].madeFor
  BY <1>2 DEF DeleteJob, Rows
<1>4. \A i \in Jobs : /\ row'[i] # NoRow <=> row[i] # NoRow
                      /\ row[i] # NoRow => row'[i].madeFor = row[i].madeFor
  BY <1>1, <1>2, <1>3, NoValues DEF TypeOK
<1>5. UNCHANGED <<pc, asked, job, users, idem, answers>>
  BY DEF DeleteJob
<1>6. TypeOK'
  BY <1>1, <1>3, <1>5 DEF TypeOK
<1>7. LookupKeyed' /\ RelookupFinds'
  BY <1>1, <1>5 DEF LookupKeyed, RelookupFinds
<1>8. IdemHasRow'
  BY <1>1, <1>4, <1>5 DEF IdemHasRow, TypeOK
<1>9. RowHasIdem'
  BY <1>1, <1>4, <1>5 DEF RowHasIdem
<1>10. DispatchOwnJob' /\ AnswerIsOwnJob'
  BY <1>1, <1>4, <1>5 DEF DispatchOwnJob, AnswerIsOwnJob, TypeOK
<1> QED BY <1>6, <1>7, <1>8, <1>9, <1>10 DEF IInv

\* So do the deletion of an account and the death of the API process.
LEMMA DeleteUserOrCrashStep ==
  ASSUME IInv, (\E u \in Users : DeleteUser(u)) \/ Crash PROVE IInv'
BY DEF DeleteUser, Crash, IInv, TypeOK, LookupKeyed, IdemHasRow, RowHasIdem,
   DispatchOwnJob, AnswerIsOwnJob, RelookupFinds

\* The invariant is inductive.
LEMMA NextIInv == IInv /\ [Next]_vars => IInv'
<1> SUFFICES ASSUME IInv, [Next]_vars PROVE IInv'
  OBVIOUS
<1>1. CASE Next
  BY <1>1, SubmitStep, SelectStep, InsertStep, InsertFailedStep, RespondStep,
     DeleteJobStep, DeleteUserOrCrashStep DEF Next
<1>2. CASE UNCHANGED vars
  BY <1>2 DEF vars, IInv, TypeOK, LookupKeyed, IdemHasRow, RowHasIdem,
     DispatchOwnJob, AnswerIsOwnJob, RelookupFinds
<1> QED BY <1>1, <1>2

\* IInv holds in every reachable state of create_job_with_idempotency.
THEOREM Inductive == Spec => []IInv
BY InitIInv, NextIInv, PTL DEF Spec

----------------------------------------------------------------------------
\* The invariant's two halves of the key relation leave one row per key.
LEMMA IInvOneRow == IInv => OneRowPerKey
BY DEF IInv, RowHasIdem, OneRowPerKey

\* Answers to one key name its one row.
LEMMA IInvAgree == IInv => AnswersAgree
<1> SUFFICES ASSUME IInv, NEW a \in answers, NEW b \in answers,
                    Keyed(a.to), a.to = b.to
             PROVE  a.job = b.job
  BY DEF AnswersAgree
<1>1. a.job \in Jobs /\ row[a.job] # NoRow /\ row[a.job].madeFor = a.to
  BY DEF IInv, TypeOK, AnswerIsOwnJob
<1>2. b.job \in Jobs /\ row[b.job] # NoRow /\ row[b.job].madeFor = b.to
  BY DEF IInv, TypeOK, AnswerIsOwnJob
<1> QED BY <1>1, <1>2 DEF IInv, RowHasIdem

\* The states of the handlers and the tables are what their types say.
THEOREM TypeCorrect == Spec => []TypeOK
BY Inductive, PTL DEF IInv

\* Two answers to one Idempotency-Key never name different jobs.
THEOREM AnswersAlwaysAgree == Spec => []AnswersAgree
BY Inductive, IInvAgree, PTL

\* The race between SELECT and INSERT never leaves two rows for one key.
THEOREM NeverTwoRows == Spec => []OneRowPerKey
BY Inductive, IInvOneRow, PTL

\* No client is told of a job made for another account, key or endpoint.
THEOREM AnswersAlwaysOwn == Spec => []AnswerIsOwnJob
BY Inductive, PTL DEF IInv

\* The second SELECT comes back empty only for a deleted account.
THEOREM RelookupAlwaysFinds == Spec => []RelookupFinds
BY Inductive, PTL DEF IInv

----------------------------------------------------------------------------
\* The state functions of the refinement mapping, and their parts.
absUsed == {j \in Jobs : row[j] # NoRow}
absAnswered == {<<a.to, a.job>> : a \in {x \in answers : Keyed(x.to)}}

\* No row, no key, no answer: the initial states map to initial states.
LEMMA RefineInit == Init => Abstract!AbsInit
BY DEF Init, Abstract!AbsInit

\* A committed transaction binds the key, or allocates a job without one.
LEMMA RefineInsert ==
  ASSUME IInv, NEW r \in Reqs, Insert(r) PROVE Abstract!AbsNext
<1>1. PICK j \in Jobs :
        /\ row[j] = NoRow
        /\ row' = [row EXCEPT ![j] = [live |-> TRUE, madeFor |-> asked[r],
                                      signer |-> r]]
        /\ idem' = IF Keyed(asked[r]) THEN [idem EXCEPT ![asked[r]] = j]
                                      ELSE idem
  BY DEF Insert
<1>2. /\ asked[r] \in Params
      /\ Keyed(asked[r]) => asked[r] \in Bindings /\ idem[asked[r]] = NoJob
      /\ row \in [Jobs -> Rows \cup {NoRow}]
  BY KeyedIsBinding DEF IInv, TypeOK, Insert, UniqueHolds
<1>3. [live |-> TRUE, madeFor |-> asked[r], signer |-> r] # NoRow
  <2>1. [live |-> TRUE, madeFor |-> asked[r], signer |-> r] \in Rows
    BY <1>2 DEF Rows
  <2> QED BY <2>1, NoValues
<1>4. j \notin absUsed /\ absUsed' = absUsed \cup {j}
  BY <1>1, <1>2, <1>3 DEF absUsed
<1>5. absAnswered' = absAnswered
  BY DEF Insert, absAnswered, Keyed
<1>6. CASE Keyed(asked[r])
  <2>1. Abstract!Bind(asked[r], j)
    BY <1>1, <1>2, <1>4, <1>5, <1>6
       DEF Abstract!Bind, absUsed, absAnswered
  <2> QED BY <2>1, <1>2, <1>6 DEF Abstract!AbsNext
<1>7. CASE ~Keyed(asked[r])
  <2>1. Abstract!Allocate(j)
    BY <1>1, <1>4, <1>5, <1>7 DEF Abstract!Allocate, absUsed, absAnswered
  <2> QED BY <2>1 DEF Abstract!AbsNext
<1> QED BY <1>6, <1>7

\* An answer to a keyed request is the abstract answer; any other is unseen.
LEMMA RefineRespond ==
  ASSUME IInv, NEW r \in Reqs, Respond(r)
  PROVE  Abstract!AbsNext \/ UNCHANGED Abstract!absVars
<1> DEFINE a == [to |-> asked[r], job |-> job[r], secret |-> r]
<1>1. answers' = answers \cup {a} /\ idem' = idem /\ row' = row
  BY DEF Respond
<1>2. absUsed' = absUsed
  BY <1>1 DEF absUsed
<1>3. CASE Keyed(asked[r])
  <2>1. /\ asked[r] \in Bindings
        /\ job[r] \in Jobs
        /\ idem[asked[r]] = job[r]
    BY <1>3, KeyedIsBinding
       DEF IInv, TypeOK, DispatchOwnJob, RowHasIdem, Respond
  <2>2. idem[asked[r]] # NoJob
    BY <2>1, NoValues
  <2>3. absAnswered' = absAnswered \cup {<<asked[r], idem[asked[r]]>>}
    <3> DEFINE keyed == {x \in answers : Keyed(x.to)}
    <3>1. a.to = asked[r] /\ a.job = idem[asked[r]]
      BY <2>1
    <3> HIDE DEF a
    <3>2. keyed' = keyed \cup {a}
      BY <1>1, <1>3, <3>1 DEF Keyed
    <3> HIDE DEF keyed
    <3>3. {<<x.to, x.job>> : x \in keyed \cup {a}} =
            {<<x.to, x.job>> : x \in keyed} \cup {<<a.to, a.job>>}
      OBVIOUS
    <3> QED BY <3>1, <3>2, <3>3 DEF absAnswered, keyed
  <2>4. PICK b \in Bindings : b = asked[r]
    BY <2>1
  <2>5. Abstract!Answer(b)
    BY <1>1, <1>2, <2>2, <2>3, <2>4
       DEF Abstract!Answer, absUsed, absAnswered
  <2> QED BY <2>5 DEF Abstract!AbsNext
<1>4. CASE ~Keyed(asked[r])
  <2>1. absAnswered' = absAnswered
    BY <1>1, <1>4 DEF absAnswered, Keyed
  <2> QED BY <1>1, <1>2, <2>1 DEF Abstract!absVars, absUsed, absAnswered
<1> QED BY <1>3, <1>4

\* Deleting a job's row does not take its identifier back.
LEMMA RefineDeleteJob ==
  ASSUME IInv, NEW j \in Jobs, DeleteJob(j)
  PROVE  UNCHANGED Abstract!absVars
<1>1. row \in [Jobs -> Rows \cup {NoRow}] /\ row[j] \in Rows
  BY DEF IInv, TypeOK, DeleteJob
<1>2. /\ row' = [row EXCEPT ![j] = [row[j] EXCEPT !.live = FALSE]]
      /\ [row[j] EXCEPT !.live = FALSE] \in Rows
  BY <1>1 DEF DeleteJob, Rows
<1>3. absUsed' = absUsed
  BY <1>1, <1>2, NoValues DEF absUsed, DeleteJob
<1> QED BY <1>3 DEF DeleteJob, Abstract!absVars, absUsed, Keyed

\* Every step of the handlers is a step of the promise, or none.
LEMMA RefineNext ==
  IInv /\ [Next]_vars => [Abstract!AbsNext]_(Abstract!absVars)
<1> SUFFICES ASSUME IInv, [Next]_vars
             PROVE  Abstract!AbsNext \/ UNCHANGED Abstract!absVars
  OBVIOUS
<1>1. ASSUME UNCHANGED <<row, idem, answers>>
      PROVE  UNCHANGED Abstract!absVars
  BY <1>1 DEF Abstract!absVars, Keyed
<1>2. CASE \E r \in Reqs : Insert(r)
  BY <1>2, RefineInsert
<1>3. CASE \E r \in Reqs : Respond(r)
  BY <1>3, RefineRespond
<1>4. CASE \E j \in Jobs : DeleteJob(j)
  BY <1>4, RefineDeleteJob
<1>5. CASE \E r \in Reqs : \/ Submit(r) \/ Lookup(r) \/ Relookup(r)
                           \/ InsertConflict(r) \/ InsertLocked(r)
  BY <1>1, <1>5 DEF Submit, Lookup, Relookup, Select, InsertConflict,
     InsertLocked
<1>6. CASE (\E u \in Users : DeleteUser(u)) \/ Crash \/ UNCHANGED vars
  BY <1>1, <1>6 DEF DeleteUser, Crash, vars
<1> QED BY <1>2, <1>3, <1>4, <1>5, <1>6 DEF Next

\* create_job_with_idempotency implements IdempotentCreate: under every
\* interleaving of its statements, with deletions and crashes, a key is bound
\* to one job for ever and every answer names it.
THEOREM Refinement == Spec => Abstract!AbsSpec
<1>1. Init => Abstract!AbsInit
  BY RefineInit
<1>2. IInv /\ [Next]_vars => [Abstract!AbsNext]_(Abstract!absVars)
  BY RefineNext
<1> QED BY <1>1, <1>2, Inductive, PTL DEF Spec, Abstract!AbsSpec

\* The same, as the property the runs check.
THEOREM RefinementChecked == Spec => ImplementsAbstract
BY Refinement DEF ImplementsAbstract
=============================================================================
