---------------------------- MODULE RequestProofs ----------------------------
(***************************************************************************)
(* Proofs about the requests of the web server.                            *)
(*                                                                         *)
(* Sessions, for any browsers, requests and users: who is logged in, and   *)
(* for how long.                                                           *)
(*                                                                         *)
(* GraphQL, for any operations, users and roles: what a request may write, *)
(* in which order, and why its data may be null.                           *)
(***************************************************************************)
EXTENDS Sessions, GraphQL, SequenceTheorems, TLAPS

(* Sessions *)

(* Every step leaves the variables in their types. *)
LEMMA StepKeepsTypes == TypeOK /\ [Next]_vars => TypeOK'
<1> SUFFICES ASSUME TypeOK, [Next]_vars
             PROVE  TypeOK'
  OBVIOUS
<1> USE SessionAssumption DEF TypeOK, Activity, At, Step, Fault
<1>1. ASSUME NEW r \in Request, NEW b \in Browser,
             Login(r, b) \/ Logout(r, b) \/ Ask(r, b)
      PROVE  TypeOK'
  <2>1. /\ UNCHANGED <<session, left, cookie, ended, faults>>
        /\ proved' \in [Request -> User \cup {Nobody}]
    BY <1>1 DEF Login, Logout, Ask
  <2>2. \E a \in Activity : request' = [request EXCEPT ![r] = a]
    <3>1. CASE Logout(r, b)
      BY <3>1 DEF Logout
    <3>2. CASE Ask(r, b)
      BY <3>2 DEF Ask
    <3>3. ASSUME NEW u \in User,
                 request' = [request EXCEPT
                    ![r] = [pc |-> "verified", browser |-> b, token |-> r,
                            user |-> u]]
          PROVE  \E a \in Activity : request' = [request EXCEPT ![r] = a]
      BY <3>3
    <3>4. ASSUME request' = [request EXCEPT ![r].pc = "done"]
          PROVE  \E a \in Activity : request' = [request EXCEPT ![r] = a]
      BY <3>4
    <3>5. QED
      BY <1>1, <3>1, <3>2, <3>3, <3>4 DEF Login
  <2>3. QED
    BY <2>1, <2>2
<1>2. ASSUME NEW r \in Request, StoreSession(r)
      PROVE  TypeOK'
  BY <1>2 DEF StoreSession, Store
<1>3. ASSUME NEW r \in Request, AnswerLogin(r) \/ AnswerLogout(r) \/ Answer(r)
      PROVE  TypeOK'
  BY <1>3 DEF AnswerLogin, AnswerLogout, Answer
<1>4. ASSUME NEW r \in Request, DeleteSession(r)
      PROVE  TypeOK'
  BY <1>4 DEF DeleteSession, Delete
<1>5. ASSUME NEW r \in Request, FetchSession(r) \/ LoadUser(r)
      PROVE  TypeOK'
  BY <1>5 DEF FetchSession, LoadUser, Known
<1>6. ASSUME NEW b \in Browser, Forget(b)
      PROVE  TypeOK'
  BY <1>6 DEF Forget
<1>7. CASE Tick
  BY <1>7 DEF Tick
<1>8. CASE UNCHANGED vars
  BY <1>8 DEF vars
<1>9. QED
  BY <1>1, <1>2, <1>3, <1>4, <1>5, <1>6, <1>7, <1>8 DEF Next

(* Every step keeps the keys with those who proved who they are, the tokens
   with those they were issued to, and what has ended ended. *)
LEMMA StepKeepsInvariant == TypeOK /\ IInv /\ [Next]_vars => IInv'
<1> SUFFICES ASSUME TypeOK, IInv, [Next]_vars
             PROVE  IInv'
  OBVIOUS
<1> DEFINE Others(r) == \A q \in Request \ {r} : request'[q] = request[q]
           Kept(r) == /\ request'[r].token = request[r].token
                      /\ request'[r].user = request[r].user
<1> USE SessionAssumption DEF TypeOK, Activity
<1>1. ASSUME NEW r \in Request, NEW b \in Browser, Login(r, b)
      PROVE  IInv'
  <2>1. /\ Others(r)
        /\ request[r].pc = "unsent"
        /\ \/ /\ request'[r].pc = "verified" /\ request'[r].token = r
              /\ \E u \in User : /\ request'[r].user = u
                                  /\ proved' = [proved EXCEPT ![r] = u]
           \/ request'[r].pc = "done" /\ Kept(r) /\ UNCHANGED proved
        /\ UNCHANGED <<session, cookie, ended>>
    BY <1>1 DEF Login, At, Step
  <2>2. ActsAsOwner'
    BY <2>1 DEF IInv, At, ActsAsOwner, KeysAreProved, TokensAreIssued,
               Issued
  <2>3. KeysAreProved'
    BY <2>1 DEF IInv, At, ActsAsOwner, KeysAreProved, TokensAreIssued,
               Issued
  <2>4. TokensAreIssued'
    BY <2>1 DEF IInv, At, ActsAsOwner, KeysAreProved, TokensAreIssued,
               Issued
  <2>5. QED
    BY <2>2, <2>3, <2>4 DEF IInv
<1>2. ASSUME NEW r \in Request, NEW b \in Browser,
             Logout(r, b) \/ Ask(r, b)
      PROVE  IInv'
  <2>1. /\ Others(r)
        /\ request[r].pc = "unsent"
        /\ request'[r].pc \in {"leaving", "asking"}
        /\ request'[r].token = cookie[b] /\ request'[r].user = Nobody
        /\ UNCHANGED <<session, proved, cookie, ended>>
    BY <1>2 DEF Logout, Ask, At
  <2>2. ActsAsOwner'
    BY <2>1 DEF IInv, At, ActsAsOwner, KeysAreProved, TokensAreIssued,
               Issued
  <2>3. KeysAreProved'
    BY <2>1 DEF IInv, At, ActsAsOwner, KeysAreProved, TokensAreIssued,
               Issued
  <2>4. TokensAreIssued'
    BY <2>1 DEF IInv, At, ActsAsOwner, KeysAreProved, TokensAreIssued,
               Issued
  <2>5. QED
    BY <2>2, <2>3, <2>4 DEF IInv
<1>3. ASSUME NEW r \in Request, StoreSession(r)
      PROVE  IInv'
  <2>1. /\ Others(r)
        /\ request[r].pc = "verified"
        /\ request'[r].pc \in {"granted", "done"} /\ Kept(r)
        /\ \/ session' = [session EXCEPT ![r] = request[r].user]
           \/ UNCHANGED session
        /\ UNCHANGED <<proved, cookie, ended>>
    BY <1>3 DEF StoreSession, Store, At, Step
  <2>2. ActsAsOwner'
    BY <2>1 DEF IInv, At, ActsAsOwner, KeysAreProved, TokensAreIssued,
               Issued
  <2>3. KeysAreProved'
    BY <2>1 DEF IInv, At, ActsAsOwner, KeysAreProved, TokensAreIssued,
               Issued
  <2>4. TokensAreIssued'
    BY <2>1 DEF IInv, At, ActsAsOwner, KeysAreProved, TokensAreIssued,
               Issued
  <2>5. QED
    BY <2>2, <2>3, <2>4 DEF IInv
<1>4. ASSUME NEW r \in Request,
             AnswerLogin(r) \/ AnswerLogout(r) \/ Answer(r)
      PROVE  IInv'
  <2>1. /\ Others(r)
        /\ request[r].pc \in {"granted", "left", "serving"}
        /\ request'[r].pc = "done" /\ Kept(r)
        /\ \A b \in Browser : \/ cookie'[b] \in {cookie[b], Nobody}
                             \/ cookie'[b] = r
        /\ UNCHANGED <<session, proved, ended>>
    <3>1. CASE AnswerLogin(r)
      BY <3>1 DEF AnswerLogin, At, Step
    <3>2. CASE AnswerLogout(r)
      BY <3>2 DEF AnswerLogout, At, Step
    <3>3. CASE Answer(r)
      BY <3>3 DEF Answer, At, Step
    <3>4. QED
      BY <1>4, <3>1, <3>2, <3>3
  <2>2. ActsAsOwner'
    BY <2>1 DEF IInv, At, ActsAsOwner, KeysAreProved, TokensAreIssued,
               Issued
  <2>3. KeysAreProved'
    BY <2>1 DEF IInv, At, ActsAsOwner, KeysAreProved, TokensAreIssued,
               Issued
  <2>4. TokensAreIssued'
    BY <2>1 DEF IInv, At, ActsAsOwner, KeysAreProved, TokensAreIssued,
               Issued
  <2>5. QED
    BY <2>2, <2>3, <2>4 DEF IInv
<1>5. ASSUME NEW r \in Request, DeleteSession(r)
      PROVE  IInv'
  <2>1. /\ Others(r)
        /\ request[r].pc = "leaving"
        /\ request'[r].pc = "left" /\ Kept(r)
        /\ \/ UNCHANGED <<session, ended>>
           \/ /\ request[r].token # Nobody
              /\ session' = [session EXCEPT ![request[r].token] = Nobody]
              /\ ended' \in {ended, ended \cup {request[r].token}}
        /\ UNCHANGED <<proved, cookie>>
    BY <1>5 DEF DeleteSession, Delete, At, Step
  <2>2. ActsAsOwner'
    BY <2>1 DEF IInv, At, ActsAsOwner, KeysAreProved, TokensAreIssued,
               Issued
  <2>3. KeysAreProved'
    BY <2>1 DEF IInv, At, ActsAsOwner, KeysAreProved, TokensAreIssued,
               Issued
  <2>4. TokensAreIssued'
    BY <2>1 DEF IInv, At, ActsAsOwner, KeysAreProved, TokensAreIssued,
               Issued
  <2>5. QED
    BY <2>2, <2>3, <2>4 DEF IInv
<1>6. ASSUME NEW r \in Request, FetchSession(r) \/ LoadUser(r)
      PROVE  IInv'
  <2>1. /\ Others(r)
        /\ request[r].pc \in {"asking", "found"}
        /\ request'[r].pc \in {"found", "serving"}
        /\ request'[r].token = request[r].token
        /\ \/ request'[r].user \in {Nobody, request[r].user}
           \/ /\ request[r].token # Nobody
              /\ request'[r].user = session[request[r].token]
        /\ UNCHANGED <<session, proved, cookie, ended>>
    BY <1>6 DEF FetchSession, LoadUser, Known, At, Step
  <2>2. ActsAsOwner'
    BY <2>1 DEF IInv, At, ActsAsOwner, KeysAreProved, TokensAreIssued,
               Issued
  <2>3. KeysAreProved'
    BY <2>1 DEF IInv, At, ActsAsOwner, KeysAreProved, TokensAreIssued,
               Issued
  <2>4. TokensAreIssued'
    BY <2>1 DEF IInv, At, ActsAsOwner, KeysAreProved, TokensAreIssued,
               Issued
  <2>5. QED
    BY <2>2, <2>3, <2>4 DEF IInv
<1>7. ASSUME NEW b \in Browser, Forget(b)
      PROVE  IInv'
  BY <1>7 DEF Forget, IInv, At, ActsAsOwner, KeysAreProved, TokensAreIssued,
              Issued
<1>8. CASE Tick
  <2>1. /\ \A t \in Request : session'[t] \in {session[t], Nobody}
        /\ UNCHANGED <<request, proved, cookie, ended>>
    BY <1>8 DEF Tick
  <2>2. QED
    BY <2>1 DEF IInv, At, ActsAsOwner, KeysAreProved, TokensAreIssued, Issued
<1>9. CASE UNCHANGED vars
  BY <1>9 DEF vars, IInv, At, ActsAsOwner, KeysAreProved, TokensAreIssued,
              Issued
<1>10. QED
  BY <1>1, <1>2, <1>3, <1>4, <1>5, <1>6, <1>7, <1>8, <1>9 DEF Next

(* Types and the inductive invariant. *)
LEMMA SessionInvariants == Spec => [](TypeOK /\ IInv)
<1>1. Init => TypeOK
  <2>1. (CHOOSE b \in Browser : TRUE) \in Browser
    BY SessionAssumption
  <2>2. Unsent \in Activity
    BY <2>1 DEF Unsent, Activity
  <2>3. QED
    BY <2>2, SessionAssumption DEF Init, TypeOK
<1>2. Init => IInv
  <2>1. Unsent.pc = "unsent" /\ Unsent.token = Nobody /\ Unsent.user = Nobody
    BY DEF Unsent
  <2>2. QED
    BY <2>1, SessionAssumption
       DEF Init, At, IInv, ActsAsOwner, KeysAreProved, TokensAreIssued,
           Issued
<1>3. TypeOK /\ IInv /\ [Next]_vars => (TypeOK /\ IInv)'
  BY StepKeepsTypes, StepKeepsInvariant
<1>4. QED
  BY <1>1, <1>2, <1>3, PTL DEF Spec

(* The variables keep their types. *)
THEOREM SessionTypeOK == Spec => []TypeOK
BY SessionInvariants, PTL

(* Whatever logins, logouts, expiries and failures are under way, a request
   acts as the user who gave the password for its token. *)
THEOREM SessionActsAsOwner == Spec => []ActsAsOwner
<1>1. IInv => ActsAsOwner
  BY DEF IInv
<1>2. QED
  BY <1>1, SessionInvariants, PTL

(* A token whose DEL was confirmed has no key again, and no request that was
   not looked up before acts for it. *)
THEOREM SessionEndedStaysEnded == Spec => EndedStaysEnded
<1> DEFINE Stays ==
       \A t \in ended :
          /\ session'[t] = Nobody
          /\ \A r \in Request :
                request'[r].token = t /\ request'[r].user # Nobody
                /\ ~ At(r, "verified") /\ ~ At(r, "granted") =>
                    request[r].user # Nobody
<1>1. TypeOK /\ IInv /\ [Next]_vars => [Stays]_vars
  <2> SUFFICES ASSUME TypeOK, IInv, Next
               PROVE  Stays
    OBVIOUS
  <2>1. \A t \in ended : t \in ended' /\ t \in Request
    BY DEF TypeOK, Next, Login, Logout, Ask, StoreSession, AnswerLogin,
           AnswerLogout, Answer, DeleteSession, FetchSession, LoadUser,
           Forget, Tick
  <2>2. \A t \in ended : session'[t] = Nobody
    BY <2>1, StepKeepsInvariant DEF IInv, TokensAreIssued
  <2> SUFFICES ASSUME NEW t \in ended, NEW r \in Request,
                      request'[r].token = t, request'[r].user # Nobody,
                      request[r].user = Nobody
               PROVE  FALSE
    BY <2>2
  <2> USE SessionAssumption
      DEF TypeOK, Activity, At, Step, IInv, TokensAreIssued, Issued
  <2>3. ASSUME NEW q \in Request, NEW b \in Browser, Login(q, b)
        PROVE  FALSE
    BY <2>1, <2>3 DEF Login
  <2>4. ASSUME NEW q \in Request, NEW b \in Browser,
               Logout(q, b) \/ Ask(q, b)
        PROVE  FALSE
    BY <2>4 DEF Logout, Ask
  <2>5. ASSUME NEW q \in Request, FetchSession(q)
        PROVE  FALSE
    BY <2>1, <2>5 DEF FetchSession, Known
  <2>6. ASSUME NEW q \in Request,
               StoreSession(q) \/ AnswerLogin(q) \/ DeleteSession(q)
               \/ AnswerLogout(q) \/ LoadUser(q) \/ Answer(q)
        PROVE  FALSE
    BY <2>6 DEF StoreSession, AnswerLogin, DeleteSession, AnswerLogout,
                LoadUser, Answer
  <2>7. CASE Tick \/ \E b \in Browser : Forget(b)
    BY <2>7 DEF Tick, Forget
  <2>8. QED
    BY <2>3, <2>4, <2>5, <2>6, <2>7 DEF Next
<1>2. QED
  BY <1>1, SessionInvariants, PTL DEF Spec, EndedStaysEnded

-----------------------------------------------------------------------------
(* GraphQL *)

Kind(r) == IF execution[r].type = "mutation" THEN MutationField ELSE QueryField

(* What is executed are operations the schema has, and nothing before it is
   sent. *)
Operations ==
    \A r \in Request :
       /\ execution[r].fields \in Seq(Kind(r))
       /\ execution[r].pc = "unsent" => execution[r].fields = <<>>

(* A field that wrote has ended, as have those before it, and was permitted;
   what was written for a request was written in the order of its fields. *)
EffectsInOrder ==
    \A k \in 1 .. Len(effects) :
       LET r == effects[k][1]
           i == effects[k][2]
       IN  /\ i \in Positions(r)
           /\ MayChange(execution[r].user, execution[r].fields[i])
           /\ \A j \in 1 .. i : execution[r].results[j] # "pending"
           /\ \A l \in 1 .. k - 1 : effects[l][1] = r => effects[l][2] < i

(* Only the viewer may be null without an error. *)
OnlyViewerIsSilent ==
    \A r \in Request : \A i \in Positions(r) :
       execution[r].results[i] = "silent" => execution[r].fields[i] = "viewer"

(* An answered request has ended all its fields. *)
AnsweredInFull ==
    \A r \in Request :
       execution[r].pc = "answered" =>
          \A i \in Positions(r) : execution[r].results[i] # "pending"

ExecutionInv ==
    /\ ExecutionTypeOK
    /\ Operations
    /\ EffectsInOrder
    /\ OnlyViewerIsSilent
    /\ AnsweredInFull

(* What the execution of a field may do to its request and to the history. *)
FieldEnds(r, i) ==
    \E result \in Outcomes \ {"pending"} :
       /\ result = "silent" => execution[r].fields[i] = "viewer"
       /\ Result(r, i, result)

FieldWrites(r, i) ==
    \/ effects' = effects
    \/ /\ effects' = Append(effects, <<r, i>>)
       /\ execution[r].fields[i] \in MutationField
       /\ MayChange(execution[r].user, execution[r].fields[i])

FieldStep(r, i) ==
    /\ execution[r].pc = "executing"
    /\ MayStart(r, i)
    /\ FieldEnds(r, i)
    /\ FieldWrites(r, i)

(* The three tables about nulls agree for every type: whatever may be nil, the
   object survives. *)
LEMMA ObjectSurvives ==
    ASSUME NEW T \in Type, NEW nulls \in SUBSET Pointers[T]
    PROVE  Marshal(T, nulls) = "value"
<1>1. Pointers[T] \cap Invalid[T] = {}
  <2> USE DEF Pointers, Invalid
  <2>1. CASE T = "CheckEvent"
    BY <2>1 DEF CheckEventPointers, CheckEventInvalid
  <2>2. CASE T = "CurrentUser"
    BY <2>2 DEF CurrentUserPointers, CurrentUserInvalid
  <2>3. CASE T = "Dashboard"
    BY <2>3 DEF DashboardPointers, DashboardInvalid
  <2>4. CASE T = "Incident"
    BY <2>4 DEF IncidentPointers, IncidentInvalid
  <2>5. CASE T = "JobRun"
    BY <2>5 DEF JobRunPointers, JobRunInvalid
  <2>6. CASE T = "MaintenanceRun"
    BY <2>6 DEF MaintenanceRunPointers, MaintenanceRunInvalid
  <2>7. CASE T = "MaintenanceTask"
    BY <2>7 DEF MaintenanceTaskPointers, MaintenanceTaskInvalid
  <2>8. CASE T = "Monitor"
    BY <2>8 DEF MonitorPointers, MonitorInvalid
  <2>9. QED
    BY <2>1, <2>2, <2>3, <2>4, <2>5, <2>6, <2>7, <2>8 DEF Type
<1>2. QED
  BY <1>1 DEF Marshal

(* A resolver's abilities permit what its role may change. *)
LEMMA RequireSuffices ==
    ASSUME ExecutionTypeOK, NEW r \in Request
    PROVE  /\ \/ Require(r, "manage", "monitor")
              \/ Require(r, "manage", "incident")
              \/ Require(r, "run", "job")
              => \A field \in MutationField \ {"runMaintenanceTask"} :
                    MayChange(execution[r].user, field)
           /\ Require(r, "run", "maintenance")
                => MayChange(execution[r].user, "runMaintenanceTask")
BY GraphQLAssumption DEF Require, Can, MayChange, ExecutionTypeOK, Execution

(* Whatever the resolver of a field finds, the field ends once, and it writes
   at most once and only what its user may change. *)
LEMMA FieldsStep ==
    ASSUME ExecutionTypeOK, NEW r \in Request, NEW i \in Positions(r),
           Mutation(r, i) \/ Query(r, i) \/ BadArguments(r, i)
    PROVE  FieldStep(r, i)
<1> USE DEF Outcomes
<1>1. ASSUME NEW result \in Outcomes \ {"pending", "silent"},
             Result(r, i, result)
      PROVE  FieldEnds(r, i)
  BY <1>1 DEF FieldEnds
<1>2. ASSUME NEW T \in Type, Row(r, i, T)
      PROVE  FieldEnds(r, i)
  BY <1>1, <1>2, ObjectSurvives DEF Row
<1>3. ASSUME NEW action, NEW resource,
             Denied(r, i, action, resource) \/ Refused(r, i) \/ Failed(r, i)
      PROVE  FieldEnds(r, i) /\ effects' = effects
  BY <1>1, <1>3 DEF Denied, Refused, Failed, NoEffect, store
<1>4. ASSUME NEW T \in Type, Written(r, i, T)
      PROVE  FieldEnds(r, i) /\ effects' = Append(effects, <<r, i>>)
  BY <1>1, <1>2, <1>4 DEF Written, Effect
<1>5. ASSUME NEW field, Starts(r, i, field)
      PROVE  /\ execution[r].pc = "executing" /\ MayStart(r, i)
             /\ execution[r].fields[i] = field
  BY <1>5 DEF Starts
<1>6. ASSUME Mutation(r, i)
      PROVE  FieldStep(r, i)
  <2>0. ASSUME NEW field \in MutationField, Starts(r, i, field),
               FieldEnds(r, i),
               \/ effects' = effects
               \/ /\ effects' = Append(effects, <<r, i>>)
                  /\ MayChange(execution[r].user, field)
        PROVE  FieldStep(r, i)
    BY <1>5, <2>0 DEF FieldStep, FieldWrites
  <2>1. CASE CreateMonitor(r, i)
    <3>1. /\ Starts(r, i, "createMonitor")
          /\ execution[r].fields[i] = "createMonitor"
          /\ "createMonitor" \in MutationField \ {"runMaintenanceTask"}
      BY <1>5, <2>1 DEF CreateMonitor, MutationField
    <3>2. /\ FieldEnds(r, i)
          /\ \/ effects' = effects
             \/ /\ effects' = Append(effects, <<r, i>>)
                /\ MayChange(execution[r].user, "createMonitor")
      BY <1>1, <1>3, <1>4, <2>1, <3>1, RequireSuffices
         DEF CreateMonitor, NoEffect, store, Type
    <3>3. QED
      BY <2>0, <3>1, <3>2
  <2>2. CASE DeleteMonitor(r, i)
    <3>1. /\ Starts(r, i, "deleteMonitor")
          /\ execution[r].fields[i] = "deleteMonitor"
          /\ "deleteMonitor" \in MutationField \ {"runMaintenanceTask"}
      BY <1>5, <2>2 DEF DeleteMonitor, MutationField
    <3>2. /\ FieldEnds(r, i)
          /\ \/ effects' = effects
             \/ /\ effects' = Append(effects, <<r, i>>)
                /\ MayChange(execution[r].user, "deleteMonitor")
      BY <1>1, <1>3, <2>2, <3>1, RequireSuffices
         DEF DeleteMonitor, NoEffect, store, Effect
    <3>3. QED
      BY <2>0, <3>1, <3>2
  <2>3. CASE EnqueueCheck(r, i)
    <3>1. /\ Starts(r, i, "enqueueCheck")
          /\ execution[r].fields[i] = "enqueueCheck"
          /\ "enqueueCheck" \in MutationField \ {"runMaintenanceTask"}
      BY <1>5, <2>3 DEF EnqueueCheck, MutationField
    <3>2. /\ FieldEnds(r, i)
          /\ \/ effects' = effects
             \/ /\ effects' = Append(effects, <<r, i>>)
                /\ MayChange(execution[r].user, "enqueueCheck")
      BY <1>1, <1>3, <2>3, <3>1, RequireSuffices DEF EnqueueCheck, Effect
    <3>3. QED
      BY <2>0, <3>1, <3>2
  <2>4. CASE OpenIncident(r, i)
    <3>1. /\ Starts(r, i, "openIncident")
          /\ execution[r].fields[i] = "openIncident"
          /\ "openIncident" \in MutationField \ {"runMaintenanceTask"}
      BY <1>5, <2>4 DEF OpenIncident, MutationField
    <3>2. /\ FieldEnds(r, i)
          /\ \/ effects' = effects
             \/ /\ effects' = Append(effects, <<r, i>>)
                /\ MayChange(execution[r].user, "openIncident")
      BY <1>3, <1>4, <2>4, <3>1, RequireSuffices DEF OpenIncident, Type
    <3>3. QED
      BY <2>0, <3>1, <3>2
  <2>5. CASE ResolveIncident(r, i)
    <3>1. /\ Starts(r, i, "resolveIncident")
          /\ execution[r].fields[i] = "resolveIncident"
          /\ "resolveIncident" \in MutationField \ {"runMaintenanceTask"}
      BY <1>5, <2>5 DEF ResolveIncident, MutationField
    <3>2. /\ FieldEnds(r, i)
          /\ \/ effects' = effects
             \/ /\ effects' = Append(effects, <<r, i>>)
                /\ MayChange(execution[r].user, "resolveIncident")
      BY <1>3, <1>4, <2>5, <3>1, RequireSuffices DEF ResolveIncident, Type
    <3>3. QED
      BY <2>0, <3>1, <3>2
  <2>6. CASE RunMaintenanceTask(r, i)
    <3>1. /\ Starts(r, i, "runMaintenanceTask")
          /\ execution[r].fields[i] = "runMaintenanceTask"
          /\ "runMaintenanceTask" \in MutationField
      BY <1>5, <2>6 DEF RunMaintenanceTask, MutationField
    <3>2. /\ FieldEnds(r, i)
          /\ \/ effects' = effects
             \/ /\ effects' = Append(effects, <<r, i>>)
                /\ MayChange(execution[r].user, "runMaintenanceTask")
      BY <1>3, <1>4, <2>6, <3>1, RequireSuffices DEF RunMaintenanceTask, Type
    <3>3. QED
      BY <2>0, <3>1, <3>2
  <2>7. QED
    BY <1>6, <2>1, <2>2, <2>3, <2>4, <2>5, <2>6 DEF Mutation
<1>7. ASSUME Query(r, i)
      PROVE  FieldStep(r, i)
  <2> USE DEF FieldStep, FieldWrites
  <2>1. ASSUME NEW resource, NEW T \in Type, Read(r, i, resource, T)
        PROVE  FieldEnds(r, i) /\ effects' = effects
    BY <1>2, <1>3, <2>1 DEF Read, NoEffect, store
  <2>2. CASE Viewer(r, i)
    BY <1>2, <1>5, <2>2 DEF Viewer, NoEffect, store, Type, FieldEnds
  <2>3. CASE Dashboard(r, i)
    BY <1>5, <2>1, <2>3 DEF Dashboard, Type
  <2>4. CASE Monitors(r, i)
    BY <1>5, <2>1, <2>4 DEF Monitors, Type
  <2>5. CASE CheckEvents(r, i)
    BY <1>2, <1>3, <1>5, <2>5 DEF CheckEvents, NoEffect, store, Type
  <2>6. CASE Incidents(r, i)
    BY <1>5, <2>1, <2>6 DEF Incidents, Type
  <2>7. CASE JobRuns(r, i)
    BY <1>5, <2>1, <2>7 DEF JobRuns, Type
  <2>8. CASE MaintenanceTasks(r, i)
    BY <1>2, <1>3, <1>5, <2>8 DEF MaintenanceTasks, NoEffect, store, Type
  <2>9. CASE MaintenanceRuns(r, i)
    BY <1>5, <2>1, <2>9 DEF MaintenanceRuns, Type
  <2>10. QED
    BY <1>7, <2>2, <2>3, <2>4, <2>5, <2>6, <2>7, <2>8, <2>9 DEF Query
<1>8. ASSUME BadArguments(r, i)
      PROVE  FieldStep(r, i)
  BY <1>3, <1>5, <1>8 DEF BadArguments, FieldStep, FieldWrites
<1>9. QED
  BY <1>6, <1>7, <1>8

(* The end of a field changes its result and nothing else. *)
LEMMA ResultOnly ==
    ASSUME ExecutionTypeOK, Operations, NEW r \in Request,
           NEW i \in Positions(r), NEW result \in Outcomes,
           Result(r, i, result)
    PROVE  /\ execution' \in [Request -> Execution]
           /\ \A q \in Request : DOMAIN execution'[q].results = Positions(q)'
           /\ \A q \in Request \ {r} : execution'[q] = execution[q]
           /\ execution'[r].pc = execution[r].pc
           /\ execution'[r].type = execution[r].type
           /\ execution'[r].fields = execution[r].fields
           /\ execution'[r].user = execution[r].user
           /\ \A j \in Positions(r) :
                 execution'[r].results[j] =
                    IF j = i THEN result ELSE execution[r].results[j]
<1> DEFINE results == execution[r].results
           after == [results EXCEPT ![i] = result]
<1>1. results \in Seq(Outcomes) /\ DOMAIN results = Positions(r)
  BY DEF ExecutionTypeOK, Execution
<1>2. i \in 1 .. Len(results)
  BY <1>1
<1>3. /\ after \in Seq(Outcomes)
      /\ DOMAIN after = Positions(r)
      /\ \A j \in Positions(r) :
            after[j] = IF j = i THEN result ELSE results[j]
  BY <1>1, <1>2, ExceptSeq
<1>4. execution' = [execution EXCEPT ![r] = [@ EXCEPT !.results = after]]
  BY DEF Result
<1> HIDE DEF after
<1>5. /\ execution'[r] = [execution[r] EXCEPT !.results = after]
      /\ execution'[r] \in Execution
      /\ \A q \in Request \ {r} : execution'[q] = execution[q]
      /\ execution' \in [Request -> Execution]
  BY <1>3, <1>4 DEF ExecutionTypeOK, Execution
<1>6. /\ execution'[r].results = after
      /\ execution'[r].pc = execution[r].pc
      /\ execution'[r].type = execution[r].type
      /\ execution'[r].fields = execution[r].fields
      /\ execution'[r].user = execution[r].user
  BY <1>5 DEF ExecutionTypeOK, Execution
<1>7. \A q \in Request : DOMAIN execution'[q].results = Positions(q)'
  BY <1>3, <1>5, <1>6 DEF ExecutionTypeOK, Positions
<1>8. QED
  BY <1>3, <1>5, <1>6, <1>7

Database ==
    /\ {monitor, open, incidents} \subseteq BOOLEAN
    /\ open => monitor /\ incidents

(* An open incident keeps its monitor, in every step. *)
LEMMA DatabaseKept ==
    Database /\ [ExecutionNext]_executionVars => Database'
<1> SUFFICES ASSUME Database, [ExecutionNext]_executionVars
             PROVE  Database'
  OBVIOUS
<1>1. /\ monitor \in BOOLEAN /\ open \in BOOLEAN /\ incidents \in BOOLEAN
      /\ open => monitor /\ incidents
  BY DEF Database
<1>2. ASSUME monitor' \in BOOLEAN, open' \in BOOLEAN, incidents' \in BOOLEAN,
             open' => monitor' /\ incidents'
      PROVE  Database'
  BY <1>2 DEF Database
<1>3. ASSUME UNCHANGED <<monitor, open, incidents>>
      PROVE  Database'
  <2>1. monitor' = monitor /\ open' = open /\ incidents' = incidents
    BY <1>3
  <2>2. QED
    BY <1>1, <1>2, <2>1, Zenon
<1>4. ASSUME NEW r \in Request, NEW i \in Positions(r), Mutation(r, i)
      PROVE  Database'
  <2> USE DEF Denied, Refused, Failed, NoEffect, store
  <2>1. CASE CreateMonitor(r, i)
    <3>1. \/ UNCHANGED <<monitor, open, incidents>>
          \/ monitor' = TRUE /\ open' = open /\ incidents' = incidents
      BY <2>1 DEF CreateMonitor
    <3>2. QED
      BY <1>1, <1>2, <1>3, <3>1, Zenon
  <2>2. CASE DeleteMonitor(r, i)
    <3>1. \/ UNCHANGED <<monitor, open, incidents>>
          \/ monitor' = FALSE /\ open' = FALSE /\ incidents' = incidents
      BY <2>2 DEF DeleteMonitor, RemoveMonitor
    <3>2. QED
      BY <1>1, <1>2, <1>3, <3>1, Zenon
  <2>3. CASE EnqueueCheck(r, i)
    BY <1>3, <2>3 DEF EnqueueCheck
  <2>4. CASE OpenIncident(r, i)
    <3>1. \/ UNCHANGED <<monitor, open, incidents>>
          \/ monitor' = monitor /\ open' = open /\ incidents' = TRUE
          \/ monitor /\ monitor' = monitor /\ open' = TRUE /\ incidents' = TRUE
      BY <2>4 DEF OpenIncident
    <3>2. CASE monitor' = monitor /\ open' = open /\ incidents' = TRUE
      BY <1>1, <1>2, <3>2, Zenon
    <3>3. CASE /\ monitor /\ monitor' = monitor
               /\ open' = TRUE /\ incidents' = TRUE
      BY <1>1, <1>2, <3>3, Zenon
    <3>4. QED
      BY <1>3, <3>1, <3>2, <3>3, Zenon
  <2>5. CASE ResolveIncident(r, i)
    <3>1. \/ UNCHANGED <<monitor, open, incidents>>
          \/ /\ monitor' = monitor /\ incidents' = incidents
             /\ open' = open \/ open' = FALSE
      BY <2>5 DEF ResolveIncident
    <3>2. CASE /\ monitor' = monitor /\ incidents' = incidents
               /\ open' = open
      BY <1>3, <3>2
    <3>3. CASE /\ monitor' = monitor /\ incidents' = incidents
               /\ open' = FALSE
      BY <1>1, <1>2, <3>3, Zenon
    <3>4. QED
      BY <1>3, <3>1, <3>2, <3>3, Zenon
  <2>6. CASE RunMaintenanceTask(r, i)
    BY <1>3, <2>6 DEF RunMaintenanceTask
  <2>7. QED
    BY <1>4, <2>1, <2>2, <2>3, <2>4, <2>5, <2>6 DEF Mutation
<1>5. ASSUME NEW r \in Request, NEW i \in Positions(r), Query(r, i)
      PROVE  UNCHANGED <<monitor, open, incidents>>
  BY <1>5 DEF Query, Viewer, Dashboard, Monitors, CheckEvents, Incidents,
              JobRuns, MaintenanceTasks, MaintenanceRuns, Read,
              Denied, Failed, Refused, NoEffect, store
<1>6. QED
  BY <1>3, <1>4, <1>5
     DEF ExecutionNext, Begin, Leave, Respond, BadArguments, Refused,
         NoEffect, store, executionVars

-----------------------------------------------------------------------------

LEMMA ExecutionStarts ==
    ExecutionInit => ExecutionInv
<1> SUFFICES ASSUME ExecutionInit
             PROVE  ExecutionInv
  OBVIOUS
<1>1. \A r \in Request : /\ execution[r].fields = <<>>
                         /\ execution[r].results = <<>>
  BY DEF ExecutionInit, Unbegun
<1>2. ExecutionTypeOK
  <2>1. Unbegun \in Execution
    BY DEF Unbegun, Execution
  <2>2. execution \in [Request -> Execution]
    BY <2>1 DEF ExecutionInit
  <2>3. \A r \in Request : DOMAIN execution[r].results = Positions(r)
    BY <1>1 DEF Positions
  <2>4. Database
    <3>1. /\ monitor \in BOOLEAN /\ open = FALSE /\ incidents = FALSE
      BY DEF ExecutionInit
    <3>2. open \in BOOLEAN /\ incidents \in BOOLEAN /\ ~ open
      BY <3>1, Zenon
    <3>3. QED
      BY <3>1, <3>2, Zenon DEF Database
  <2>5. effects \in Seq(Request \X (Nat \ {0}))
    BY DEF ExecutionInit
  <2>6. QED
    BY <2>2, <2>3, <2>4, <2>5 DEF ExecutionTypeOK, Database
<1>3. \A r \in Request : Positions(r) = {}
  <2>1. DOMAIN <<>> = {}
    OBVIOUS
  <2>2. QED
    BY <1>1, <2>1, Zenon DEF Positions
<1>4. Operations
  <2>1. \A r \in Request : <<>> \in Seq(Kind(r))
    BY EmptySeq
  <2>2. QED
    BY <1>1, <2>1 DEF Operations
<1>5. OnlyViewerIsSilent /\ AnsweredInFull
  BY <1>3 DEF OnlyViewerIsSilent, AnsweredInFull
<1>6. EffectsInOrder
  BY DEF ExecutionInit, EffectsInOrder
<1>7. QED
  BY <1>2, <1>4, <1>5, <1>6 DEF ExecutionInv

(* A step that writes nothing keeps the invariant if the one request it
   changes is in order. *)
LEMMA NothingWritten ==
    ASSUME ExecutionInv, Database', UNCHANGED effects, NEW r \in Request,
           execution' \in [Request -> Execution],
           \A q \in Request \ {r} : execution'[q] = execution[q],
           DOMAIN execution'[r].results = Positions(r)',
           execution'[r].pc # "unsent",
           \/ /\ execution'[r].type = execution[r].type
              /\ execution'[r].fields = execution[r].fields
              /\ execution'[r].results = execution[r].results
              /\ execution'[r].user = execution[r].user
           \/ /\ Positions(r) = {}
              /\ execution'[r].fields \in Seq(Kind(r)')
              /\ \A i \in Positions(r)' : execution'[r].results[i] = "pending",
           execution'[r].pc = "answered" =>
              \A i \in Positions(r)' : execution'[r].results[i] # "pending"
    PROVE  ExecutionInv'
<1>1. ExecutionTypeOK'
  <2>1. \A q \in Request : DOMAIN execution'[q].results = Positions(q)'
    BY DEF ExecutionInv, ExecutionTypeOK, Positions
  <2>2. QED
    BY <2>1 DEF ExecutionInv, ExecutionTypeOK, Database
<1>2. \A q \in Request \ {r} :
         Positions(q)' = Positions(q) /\ Kind(q)' = Kind(q)
  BY DEF Positions, Kind
<1>3. Operations'
  BY <1>2 DEF ExecutionInv, Operations, Kind
<1>4. OnlyViewerIsSilent'
  BY <1>2 DEF ExecutionInv, OnlyViewerIsSilent, Positions
<1>5. AnsweredInFull'
  BY <1>2 DEF ExecutionInv, AnsweredInFull, Positions
<1>6. EffectsInOrder'
  <2> SUFFICES ASSUME NEW k \in 1 .. Len(effects),
                      NEW q, q = effects[k][1], NEW i, i = effects[k][2]
               PROVE  /\ i \in Positions(q)'
                      /\ MayChange(execution'[q].user, execution'[q].fields[i])
                      /\ \A j \in 1 .. i : execution'[q].results[j] # "pending"
                      /\ \A l \in 1 .. k - 1 :
                            effects[l][1] = q => effects[l][2] < i
    BY DEF EffectsInOrder, MayChange
  <2>1. /\ q \in Request /\ i \in Positions(q)
        /\ MayChange(execution[q].user, execution[q].fields[i])
        /\ \A j \in 1 .. i : execution[q].results[j] # "pending"
        /\ \A l \in 1 .. k - 1 : effects[l][1] = q => effects[l][2] < i
    BY DEF ExecutionInv, ExecutionTypeOK, EffectsInOrder
  <2>2. /\ execution'[q].fields = execution[q].fields
        /\ execution'[q].results = execution[q].results
        /\ execution'[q].user = execution[q].user
    BY <2>1
  <2>3. QED
    BY <2>1, <2>2 DEF Positions
<1>7. QED
  BY <1>1, <1>3, <1>4, <1>5, <1>6 DEF ExecutionInv

(* A field keeps the invariant: what it writes comes after all its request
   wrote before, since of the fields of a mutation it is the first that has
   not ended. *)
LEMMA FieldKept ==
    ASSUME ExecutionInv, Database', NEW r \in Request, NEW i \in Positions(r),
           FieldStep(r, i)
    PROVE  ExecutionInv'
<1>1. PICK result \in Outcomes \ {"pending"} :
         /\ result = "silent" => execution[r].fields[i] = "viewer"
         /\ Result(r, i, result)
  BY DEF FieldStep, FieldEnds
<1>2. /\ ExecutionTypeOK /\ Operations /\ EffectsInOrder
      /\ OnlyViewerIsSilent /\ AnsweredInFull
  BY DEF ExecutionInv
<1>3. /\ execution' \in [Request -> Execution]
      /\ \A q \in Request : DOMAIN execution'[q].results = Positions(q)'
      /\ \A q \in Request \ {r} : execution'[q] = execution[q]
      /\ execution'[r].pc = execution[r].pc
      /\ execution'[r].type = execution[r].type
      /\ execution'[r].fields = execution[r].fields
      /\ execution'[r].user = execution[r].user
      /\ \A j \in Positions(r) :
            execution'[r].results[j] =
               IF j = i THEN result ELSE execution[r].results[j]
  BY <1>1, <1>2, ResultOnly
<1>4. \A q \in Request :
         /\ Positions(q)' = Positions(q) /\ Kind(q)' = Kind(q)
         /\ execution'[q].pc = execution[q].pc
         /\ execution'[q].type = execution[q].type
         /\ execution'[q].fields = execution[q].fields
         /\ execution'[q].user = execution[q].user
         /\ \A j \in Positions(q) :
               execution[q].results[j] # "pending" =>
                  execution'[q].results[j] # "pending"
  BY <1>1, <1>3 DEF Positions, Kind
<1>5. /\ execution[r].pc = "executing"
      /\ execution[r].results[i] = "pending"
      /\ execution[r].type = "mutation" =>
            \A j \in 1 .. i - 1 : execution[r].results[j] # "pending"
  BY DEF FieldStep, MayStart
<1>6. \A q \in Request :
         /\ execution[q].fields \in Seq(Kind(q))
         /\ Positions(q) = 1 .. Len(execution[q].fields)
         /\ Len(execution[q].fields) \in Nat
  BY <1>2 DEF Operations, Positions
<1>7. \/ effects' = effects
      \/ /\ effects' = Append(effects, <<r, i>>)
         /\ MayChange(execution[r].user, execution[r].fields[i])
         /\ \A j \in 1 .. i - 1 : execution[r].results[j] # "pending"
  <2>1. CASE execution[r].fields[i] \in MutationField
    <3>1. execution[r].type = "mutation"
      BY <1>6, <2>1 DEF Kind, MutationField, QueryField
    <3>2. QED
      BY <1>5, <3>1 DEF FieldStep, FieldWrites
  <2>2. CASE execution[r].fields[i] \notin MutationField
    BY <2>2 DEF FieldStep, FieldWrites
  <2>3. QED
    BY <2>1, <2>2
<1>8. /\ effects \in Seq(Request \X (Nat \ {0}))
      /\ <<r, i>> \in Request \X (Nat \ {0})
  BY <1>2, <1>6 DEF ExecutionTypeOK
<1>9. ExecutionTypeOK'
  <2>1. effects' \in Seq(Request \X (Nat \ {0}))
    <3>1. \A S : \A s \in Seq(S), e \in S : Append(s, e) \in Seq(S)
      OBVIOUS
    <3>2. Append(effects, <<r, i>>) \in Seq(Request \X (Nat \ {0}))
      BY <1>8, <3>1, Zenon
    <3>3. QED
      BY <1>7, <1>8, <3>2, Zenon
  <2>2. QED
    BY <1>3, <2>1 DEF ExecutionTypeOK, Database
<1>10. Operations'
  BY <1>2, <1>4 DEF Operations
<1>11. OnlyViewerIsSilent'
  BY <1>1, <1>2, <1>3, <1>4 DEF OnlyViewerIsSilent
<1>12. AnsweredInFull'
  BY <1>2, <1>4 DEF AnsweredInFull
<1>13. EffectsInOrder'
  <2>1. ASSUME NEW k \in 1 .. Len(effects),
               NEW q, q = effects[k][1], NEW p, p = effects[k][2]
        PROVE  /\ p \in Positions(q)'
               /\ MayChange(execution'[q].user, execution'[q].fields[p])
               /\ \A j \in 1 .. p : execution'[q].results[j] # "pending"
               /\ \A l \in 1 .. k - 1 : effects[l][1] = q => effects[l][2] < p
    <3>1. /\ q \in Request /\ p \in Positions(q)
          /\ MayChange(execution[q].user, execution[q].fields[p])
          /\ \A j \in 1 .. p : execution[q].results[j] # "pending"
          /\ \A l \in 1 .. k - 1 : effects[l][1] = q => effects[l][2] < p
      BY <1>2, <2>1 DEF EffectsInOrder, ExecutionTypeOK
    <3>2. 1 .. p \subseteq Positions(q)
      BY <1>6, <3>1
    <3>3. QED
      BY <1>4, <3>1, <3>2
  <2>2. CASE effects' = effects
    BY <2>1, <2>2 DEF EffectsInOrder, MayChange
  <2>3. CASE /\ effects' = Append(effects, <<r, i>>)
             /\ MayChange(execution[r].user, execution[r].fields[i])
             /\ \A j \in 1 .. i - 1 : execution[r].results[j] # "pending"
    <3>1. /\ Len(effects') = Len(effects) + 1
          /\ effects'[Len(effects) + 1] = <<r, i>>
          /\ \A k \in 1 .. Len(effects) : effects'[k] = effects[k]
          /\ Len(effects) \in Nat
      BY <1>8, <2>3
    <3>2. \A k \in 1 .. Len(effects) : effects[k][1] = r => effects[k][2] < i
      <4> SUFFICES ASSUME NEW k \in 1 .. Len(effects), effects[k][1] = r
                   PROVE  effects[k][2] < i
        OBVIOUS
      <4>1. /\ effects[k][2] \in Nat /\ i \in Nat \ {0}
            /\ \A j \in 1 .. effects[k][2] :
                  execution[r].results[j] # "pending"
        BY <1>2, <1>8 DEF EffectsInOrder
      <4>2. QED
        BY <1>5, <4>1
    <3>3. \A j \in 1 .. i : execution'[r].results[j] # "pending"
      <4>1. 1 .. i \subseteq Positions(r) /\ i \in Nat
        BY <1>6
      <4>2. QED
        BY <1>1, <1>3, <2>3, <4>1
    <3>4. ASSUME NEW k \in 1 .. Len(effects'),
                 NEW q, q = effects'[k][1], NEW p, p = effects'[k][2]
          PROVE  /\ p \in Positions(q)'
                 /\ MayChange(execution'[q].user, execution'[q].fields[p])
                 /\ \A j \in 1 .. p : execution'[q].results[j] # "pending"
                 /\ \A l \in 1 .. k - 1 :
                       effects'[l][1] = q => effects'[l][2] < p
      <4>1. CASE k \in 1 .. Len(effects)
        <5>1. q = effects[k][1] /\ p = effects[k][2]
          BY <3>1, <3>4, <4>1
        <5>2. \A l \in 1 .. k - 1 : effects'[l] = effects[l]
          BY <3>1, <4>1
        <5>3. QED
          BY <2>1, <4>1, <5>1, <5>2
      <4>2. CASE k = Len(effects) + 1
        <5>1. q = r /\ p = i
          BY <3>1, <3>4, <4>2
        <5>2. \A l \in 1 .. k - 1 : effects'[l][1] = q => effects'[l][2] < p
          BY <3>1, <3>2, <4>2, <5>1
        <5>3. p \in Positions(q)'
          BY <1>4, <5>1
        <5>4. MayChange(execution'[q].user, execution'[q].fields[p])
          BY <1>4, <2>3, <5>1
        <5>5. QED
          BY <3>3, <5>1, <5>2, <5>3, <5>4
      <4>3. QED
        BY <3>1, <3>4, <4>1, <4>2
    <3>5. QED
      BY <3>4 DEF EffectsInOrder, MayChange
  <2>4. QED
    BY <1>7, <2>2, <2>3
<1>14. QED
  BY <1>9, <1>10, <1>11, <1>12, <1>13 DEF ExecutionInv

LEMMA ExecutionInvariant ==
    ExecutionSpec => []ExecutionInv
<1>1. ExecutionInv /\ [ExecutionNext]_executionVars => ExecutionInv'
  <2> SUFFICES ASSUME ExecutionInv, [ExecutionNext]_executionVars
               PROVE  ExecutionInv'
    OBVIOUS
  <2>1. Database'
    BY DatabaseKept DEF ExecutionInv, ExecutionTypeOK, Database
  <2>2. /\ ExecutionTypeOK
        /\ execution \in [Request -> Execution]
        /\ \A r \in Request : DOMAIN execution[r].results = Positions(r)
    BY DEF ExecutionInv, ExecutionTypeOK
  <2>3. ASSUME NEW r \in Request, Begin(r)
        PROVE  ExecutionInv'
    <3>1. PICK op \in Operation, u \in User \cup {Nobody} :
             execution' = [execution EXCEPT
                ![r] = [pc |-> "executing", type |-> op.type,
                        fields |-> op.fields,
                        results |-> [i \in DOMAIN op.fields |-> "pending"],
                        user |-> u, gone |-> FALSE]]
      BY <2>3 DEF Begin
    <3> DEFINE results == [i \in DOMAIN op.fields |-> "pending"]
               begun == [pc |-> "executing", type |-> op.type,
                         fields |-> op.fields, results |-> results,
                         user |-> u, gone |-> FALSE]
    <3>2. \/ op.type = "mutation" /\ op.fields \in Seq(MutationField)
          \/ op.type = "query" /\ op.fields \in Seq(QueryField)
      BY GraphQLAssumption
    <3>3. results \in Seq(Outcomes) /\ DOMAIN results = DOMAIN op.fields
      <4>1. DOMAIN op.fields = 1 .. Len(op.fields) /\ Len(op.fields) \in Nat
        BY <3>2
      <4>2. \A j \in 1 .. Len(op.fields) : "pending" \in Outcomes
        BY DEF Outcomes
      <4>3. [j \in 1 .. Len(op.fields) |-> "pending"] \in Seq(Outcomes)
        BY <4>1, <4>2
      <4>4. QED
        BY <4>1, <4>3
    <3>4. begun \in Execution
      <4> HIDE DEF results
      <4>1. QED
        BY <3>2, <3>3 DEF Execution
    <3>5. execution'[r] = begun
      BY <2>2, <3>1
    <3>6. /\ execution' \in [Request -> Execution]
          /\ \A q \in Request \ {r} : execution'[q] = execution[q]
      BY <2>2, <3>1, <3>4
    <3>7. /\ execution'[r].pc = "executing"
          /\ execution'[r].type = op.type
          /\ execution'[r].fields = op.fields
          /\ execution'[r].results = results
      BY <3>5
    <3>8. Positions(r) = {}
      BY <2>3 DEF Begin, ExecutionInv, Operations, Positions
    <3>9. execution'[r].fields \in Seq(Kind(r)')
      BY <3>2, <3>7 DEF Kind
    <3>10. /\ DOMAIN execution'[r].results = Positions(r)'
           /\ \A i \in Positions(r)' : execution'[r].results[i] = "pending"
      BY <3>3, <3>7 DEF Positions
    <3>11. UNCHANGED effects
      BY <2>3 DEF Begin, store
    <3>12. QED
      BY <2>1, <3>6, <3>7, <3>8, <3>9, <3>10, <3>11, NothingWritten
  <2>4. ASSUME NEW r \in Request, NEW pc \in {"executing", "answered"},
               NEW gone \in BOOLEAN,
               execution' = [execution EXCEPT ![r].pc = pc, ![r].gone = gone],
               pc = "answered" =>
                  \A i \in Positions(r) : execution[r].results[i] # "pending",
               UNCHANGED store
        PROVE  ExecutionInv'
    <3>1. execution'[r] = [execution[r] EXCEPT !.pc = pc, !.gone = gone]
      BY <2>2, <2>4
    <3>2. /\ execution'[r] \in Execution
          /\ execution'[r].pc = pc
          /\ execution'[r].type = execution[r].type
          /\ execution'[r].fields = execution[r].fields
          /\ execution'[r].results = execution[r].results
          /\ execution'[r].user = execution[r].user
      <4>1. execution[r] \in Execution
        BY <2>2
      <4>2. QED
        BY <3>1, <4>1 DEF Execution
    <3>3. /\ execution' \in [Request -> Execution]
          /\ \A q \in Request \ {r} : execution'[q] = execution[q]
      BY <2>2, <2>4, <3>2
    <3>4. Positions(r)' = Positions(r)
      BY <3>2 DEF Positions
    <3>5. QED
      BY <2>1, <2>2, <2>4, <3>2, <3>3, <3>4, NothingWritten DEF store
  <2>5. ASSUME NEW r \in Request, Leave(r)
        PROVE  ExecutionInv'
    <3>1. execution[r] \in Execution /\ execution[r].pc = "executing"
      BY <2>2, <2>5 DEF Leave
    <3>2. execution' =
             [execution EXCEPT ![r].pc = "executing", ![r].gone = TRUE]
      BY <2>2, <2>5, <3>1 DEF Leave, Execution
    <3>3. QED
      BY <2>4, <2>5, <3>2 DEF Leave
  <2>6. ASSUME NEW r \in Request, Respond(r)
        PROVE  ExecutionInv'
    <3>1. execution[r] \in Execution
      BY <2>2
    <3>2. execution[r].gone \in BOOLEAN
      BY <3>1 DEF Execution
    <3>3. execution' =
             [execution EXCEPT ![r].pc = "answered",
                               ![r].gone = execution[r].gone]
      BY <2>2, <2>6, <3>1 DEF Respond, Execution
    <3>4. QED
      BY <2>4, <2>6, <3>2, <3>3 DEF Respond
  <2>7. ASSUME NEW r \in Request, NEW i \in Positions(r),
               Mutation(r, i) \/ Query(r, i) \/ BadArguments(r, i)
        PROVE  ExecutionInv'
    BY <2>1, <2>2, <2>7, FieldsStep, FieldKept
  <2>8. CASE UNCHANGED executionVars
    BY <2>8 DEF executionVars, ExecutionInv, ExecutionTypeOK, Operations, Kind,
                EffectsInOrder, OnlyViewerIsSilent, AnsweredInFull, Positions,
                MayChange
  <2>9. QED
    BY <2>3, <2>5, <2>6, <2>7, <2>8 DEF ExecutionNext
<1>2. QED
  BY ExecutionStarts, <1>1, PTL DEF ExecutionSpec

-----------------------------------------------------------------------------

(* Requests, database and history of effects have their types, and an open
   incident has its monitor (graph resolvers, the foreign key of
   incidents). *)
THEOREM GraphQLTypeOK ==
    ExecutionSpec => []ExecutionTypeOK
<1>1. ExecutionInv => ExecutionTypeOK
  BY DEF ExecutionInv
<1>2. QED
  BY <1>1, ExecutionInvariant, PTL

(* Whatever the operations, the users and the order of the fields, no request
   writes what its user may not, and a mutation's writes come in the order of
   its fields (ability.Require, _Mutation). *)
THEOREM GraphQLEffectsAreAllowed ==
    ExecutionSpec => []EffectsAreAllowed
<1>1. ExecutionInv => EffectsAreAllowed
  <2> SUFFICES ASSUME ExecutionInv
               PROVE  EffectsAreAllowed
    OBVIOUS
  <2>1. /\ effects \in Seq(Request \X (Nat \ {0}))
        /\ DOMAIN effects = 1 .. Len(effects)
    BY DEF ExecutionInv, ExecutionTypeOK
  <2>2. \A k \in DOMAIN effects : effects[k][2] \in Nat
    BY <2>1
  <2>3. \A p \in Nat : 1 .. p - 1 \subseteq 1 .. p
    OBVIOUS
  <2>4. QED
    BY <2>1, <2>2, <2>3 DEF ExecutionInv, EffectsInOrder, EffectsAreAllowed
<1>2. QED
  BY <1>1, ExecutionInvariant, PTL

(* A response without data has an error that says why (the executors'
   Invalids, the models' pointers and the schema's non-null fields agree). *)
THEOREM GraphQLNullsAreExplained ==
    ExecutionSpec => []NullsAreExplained
<1>1. ExecutionInv => NullsAreExplained
  <2> SUFFICES ASSUME ExecutionInv, NEW r \in Request,
                      execution[r].pc = "answered", DataIsNull(r)
               PROVE  Errors(r) # {}
    BY DEF NullsAreExplained
  <2>1. PICK i \in Positions(r) :
           /\ execution[r].fields[i] \in MutationInvalid \cup QueryInvalid
           /\ execution[r].results[i] # "value"
    BY DEF DataIsNull
  <2>2. execution[r].results[i] \in Outcomes
    BY DEF ExecutionInv, ExecutionTypeOK, Execution
  <2>3. execution[r].results[i] # "pending"
    BY DEF ExecutionInv, AnsweredInFull
  <2>4. execution[r].fields[i] # "viewer"
    BY <2>1 DEF MutationInvalid, MutationField, QueryInvalid
  <2>5. execution[r].results[i] # "silent"
    BY <2>4 DEF ExecutionInv, OnlyViewerIsSilent
  <2>6. i \in Errors(r)
    BY <2>1, <2>2, <2>3, <2>5 DEF Errors, Outcomes
  <2>7. QED
    BY <2>6
<1>2. QED
  BY <1>1, ExecutionInvariant, PTL

=============================================================================
