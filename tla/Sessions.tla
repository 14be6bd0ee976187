------------------------------ MODULE Sessions ------------------------------
(***************************************************************************)
(* Sessions of the browsers (internal/appauth/auth.go).  A login stores a  *)
(* key in Redis under a fresh random token and gives the token to the      *)
(* browser in a cookie; a request with the cookie is looked up twice, the  *)
(* key in Redis and its user in PostgreSQL; a logout deletes the key and   *)
(* takes the cookie back.                                                  *)
(*                                                                         *)
(* A browser sends requests at the same time (tabs), its cookie is read    *)
(* when a request is sent, and an answer may be lost.  A call of Redis or  *)
(* PostgreSQL that reports an error may have had its effect, and has it by *)
(* then: nothing of it arrives later.  The token of a login is named by    *)
(* the login's request: 32 random bytes never repeat.                      *)
(***************************************************************************)
EXTENDS Naturals, Requests

CONSTANTS
    Browser,
    TTL,            \* sessionTTLSeconds, in ticks
    MaxFaults       \* bound: calls that report an error

ASSUME SessionAssumption ==
    /\ Browser # {}
    /\ Nobody \notin Request \cup User
    /\ TTL \in Nat \ {0}
    /\ MaxFaults \in Nat

VARIABLES
    session,        \* Redis: the user of each token's key
    left,           \* Redis: what is left of the key's life
    cookie,         \* each browser's cookie
    request,        \* what the server is doing for each request
    proved,         \* history: who gave the password for the token
    ended,          \* history: tokens whose deletion Redis has confirmed
    faults          \* calls that have reported an error

vars == <<session, left, cookie, request, proved, ended, faults>>

Unsent == [pc |-> "unsent", browser |-> CHOOSE b \in Browser : TRUE,
           token |-> Nobody, user |-> Nobody]

At(r, pc) == request[r].pc = pc

Step(r, pc) == request' = [request EXCEPT ![r].pc = pc]

Fault ==
    /\ faults < MaxFaults
    /\ faults' = faults + 1

Known(t) == t # Nobody /\ session[t] # Nobody

(* Mutant of Store: Set with an expiration of 0, which never expires. *)
StoreForEver(t, u) ==
    /\ session' = [session EXCEPT ![t] = u]
    /\ UNCHANGED left

(* Mutant of Store: all live tokens share one key. *)
StoreForAll(t, u) ==
    /\ session' = [x \in Request |->
                      IF x = t \/ Known(x) THEN u ELSE session[x]]
    /\ left' = [left EXCEPT ![t] = TTL]

(* The key of token t is there, is that of u, and lives a full life. *)
Store(t, u) ==
    /\ session' = [session EXCEPT ![t] = u]
    /\ left' = [left EXCEPT ![t] = TTL]

Delete(t) ==
    /\ session' = [session EXCEPT ![t] = Nobody]
    /\ left' = [left EXCEPT ![t] = 0]

-----------------------------------------------------------------------------

Init ==
    /\ session = [t \in Request |-> Nobody]
    /\ left = [t \in Request |-> 0]
    /\ cookie = [b \in Browser |-> Nobody]
    /\ request = [r \in Request |-> Unsent]
    /\ proved = [t \in Request |-> Nobody]
    /\ ended = {}
    /\ faults = 0

(* The user is found and the password is right; otherwise the answer is a 401
   and nothing has changed. *)
Login(r, b) ==
    /\ At(r, "unsent")
    /\ \/ \E u \in User :
             /\ request' = [request EXCEPT
                   ![r] = [pc |-> "verified", browser |-> b, token |-> r,
                           user |-> u]]
             /\ proved' = [proved EXCEPT ![r] = u]
       \/ Step(r, "done") /\ UNCHANGED proved
    /\ UNCHANGED <<session, left, cookie, ended, faults>>

(* The SET.  An error is answered with a 500 and no cookie, even if the key is
   there. *)
StoreSession(r) ==
    /\ At(r, "verified")
    /\ \/ Store(r, request[r].user) /\ Step(r, "granted") /\ UNCHANGED faults
       \/ /\ Fault
          /\ Store(r, request[r].user) \/ UNCHANGED <<session, left>>
          /\ Step(r, "done")
    /\ UNCHANGED <<cookie, proved, ended>>

(* The cookie replaces the one the browser has, whose session stays. *)
AnswerLogin(r) ==
    /\ At(r, "granted")
    /\ Step(r, "done")
    /\ cookie' \in {cookie, [cookie EXCEPT ![request[r].browser] = r]}
    /\ UNCHANGED <<session, left, proved, ended, faults>>

Logout(r, b) ==
    /\ At(r, "unsent")
    /\ request' = [request EXCEPT
          ![r] = [pc |-> "leaving", browser |-> b, token |-> cookie[b],
                  user |-> Nobody]]
    /\ UNCHANGED <<session, left, cookie, proved, ended, faults>>

(* The DEL, whose error is dropped. *)
DeleteSession(r) ==
    /\ At(r, "leaving")
    /\ Step(r, "left")
    /\ \/ /\ request[r].token = Nobody
          /\ UNCHANGED <<session, left, ended, faults>>
       \/ /\ request[r].token # Nobody
          /\ Delete(request[r].token)
          /\ ended' = ended \cup {request[r].token}
          /\ UNCHANGED faults
       \/ /\ request[r].token # Nobody
          /\ Fault
          /\ Delete(request[r].token) \/ UNCHANGED <<session, left>>
          /\ UNCHANGED ended
    /\ UNCHANGED <<cookie, proved>>

(* The answer takes back whatever cookie the browser has by now. *)
AnswerLogout(r) ==
    /\ At(r, "left")
    /\ Step(r, "done")
    /\ cookie' \in {cookie, [cookie EXCEPT ![request[r].browser] = Nobody]}
    /\ UNCHANGED <<session, left, proved, ended, faults>>

(* A request to the session endpoint or to GraphQL. *)
Ask(r, b) ==
    /\ At(r, "unsent")
    /\ request' = [request EXCEPT
          ![r] = [pc |-> "asking", browser |-> b, token |-> cookie[b],
                  user |-> Nobody]]
    /\ UNCHANGED <<session, left, cookie, proved, ended, faults>>

(* CurrentUser, first call.  Without a cookie, a key or an answer of Redis the
   request is anonymous. *)
FetchSession(r) ==
    /\ At(r, "asking")
    /\ \/ /\ Known(request[r].token)
          /\ request' = [request EXCEPT
                ![r].pc = "found", ![r].user = session[request[r].token]]
          /\ UNCHANGED faults
       \/ /\ ~ Known(request[r].token)
          /\ Step(r, "serving")
          /\ UNCHANGED faults
       \/ /\ request[r].token # Nobody
          /\ Fault
          /\ Step(r, "serving")
    /\ UNCHANGED <<session, left, cookie, proved, ended>>

(* Mutant of LoadUser: every use of a session renews its key. *)
LoadAndRenew(r) ==
    /\ At(r, "found")
    /\ Step(r, "serving")
    /\ Store(request[r].token, request[r].user)
    /\ UNCHANGED <<cookie, proved, ended, faults>>

(* CurrentUser, second call. *)
LoadUser(r) ==
    /\ At(r, "found")
    /\ \/ Step(r, "serving") /\ UNCHANGED faults
       \/ /\ Fault
          /\ request' = [request EXCEPT
                ![r].pc = "serving", ![r].user = Nobody]
    /\ UNCHANGED <<session, left, cookie, proved, ended>>

Answer(r) ==
    /\ At(r, "serving")
    /\ Step(r, "done")
    /\ UNCHANGED <<session, left, cookie, proved, ended, faults>>

(* The cookie's MaxAge is over, or the browser's user removes it. *)
Forget(b) ==
    /\ cookie[b] # Nobody
    /\ cookie' = [cookie EXCEPT ![b] = Nobody]
    /\ UNCHANGED <<session, left, request, proved, ended, faults>>

(* Mutant of Tick: keys that are gone count down as well. *)
TickAll ==
    /\ left' = [t \in Request |-> left[t] - 1]
    /\ session' = [t \in Request |->
                      IF left[t] = 1 THEN Nobody ELSE session[t]]
    /\ UNCHANGED <<cookie, request, proved, ended, faults>>

(* Time passes; keys whose life is over are gone. *)
Tick ==
    /\ \E t \in Request : left[t] > 0
    /\ left' = [t \in Request |-> IF left[t] > 0 THEN left[t] - 1 ELSE 0]
    /\ session' = [t \in Request |->
                      IF left[t] = 1 THEN Nobody ELSE session[t]]
    /\ UNCHANGED <<cookie, request, proved, ended, faults>>

Next ==
    \/ \E r \in Request :
          \/ \E b \in Browser : Login(r, b) \/ Logout(r, b) \/ Ask(r, b)
          \/ StoreSession(r) \/ AnswerLogin(r)
          \/ DeleteSession(r) \/ AnswerLogout(r)
          \/ FetchSession(r) \/ LoadUser(r) \/ Answer(r)
    \/ \E b \in Browser : Forget(b)
    \/ Tick

Spec == Init /\ [][Next]_vars

(* Time passes.  Nothing is assumed of browsers, nor of the server. *)
FairSpec == Spec /\ WF_vars(Tick)

-----------------------------------------------------------------------------

Activity ==
    [pc : {"unsent", "verified", "granted", "leaving", "left", "asking",
           "found", "serving", "done"},
     browser : Browser, token : Request \cup {Nobody},
     user : User \cup {Nobody}]

(* Every variable has its type. *)
TypeOK ==
    /\ session \in [Request -> User \cup {Nobody}]
    /\ left \in [Request -> 0 .. TTL]
    /\ cookie \in [Browser -> Request \cup {Nobody}]
    /\ request \in [Request -> Activity]
    /\ proved \in [Request -> User \cup {Nobody}]
    /\ ended \subseteq Request
    /\ faults \in 0 .. MaxFaults

(* A request acts as the user who gave the password for the token it came
   with, whatever logins, logouts and failures went on meanwhile (Login,
   CurrentUser). *)
ActsAsOwner ==
    \A r \in Request :
        request[r].pc \in {"found", "serving"} /\ request[r].user # Nobody =>
            /\ request[r].token # Nobody
            /\ request[r].user = proved[request[r].token]

(* A key is that of the user who gave the password for its token; so is what a
   login is about to store.  Who asks is not known before the look-up. *)
KeysAreProved ==
    /\ \A t \in Request : session[t] \in {Nobody, proved[t]}
    /\ \A r \in Request :
          /\ At(r, "unsent") => proved[r] = Nobody
          /\ At(r, "asking") => request[r].user = Nobody
          /\ At(r, "verified") =>
                request[r].token = r /\ request[r].user = proved[r]

(* Nothing but its own login knows a token before the key is stored, and the
   key of a token that ended is gone. *)
Issued(t) == ~ At(t, "unsent") /\ ~ At(t, "verified")

TokensAreIssued ==
    /\ \A b \in Browser : cookie[b] # Nobody => Issued(cookie[b])
    /\ \A r \in Request :
          request[r].token # Nobody /\ ~ At(r, "verified") =>
              Issued(request[r].token)
    /\ \A t \in ended : Issued(t) /\ session[t] = Nobody

(* The inductive invariant. *)
IInv == ActsAsOwner /\ KeysAreProved /\ TokensAreIssued

(* Once Redis has confirmed a logout's DEL, the token's key never comes back,
   and no request that has not been looked up by then acts as its user
   (Logout, CurrentUser). *)
EndedStaysEnded ==
    [][\A t \in ended :
          /\ session'[t] = Nobody
          /\ \A r \in Request :
                request'[r].token = t /\ request'[r].user # Nobody
                /\ ~ At(r, "verified") /\ ~ At(r, "granted") =>
                    request[r].user # Nobody]_vars

(* A logout is effective in the end, even if its DEL failed: the key's life
   is finite and no use prolongs it (Logout, sessionTTLSeconds). *)
LogoutTakesEffect ==
    \A t \in Request :
        (\E r \in Request : At(r, "left") /\ request[r].token = t)
            ~> [](session[t] = Nobody)

=============================================================================
