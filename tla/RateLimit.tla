------------------------------ MODULE RateLimit ------------------------------
(***************************************************************************)
(* The rate limit of the web server (RateLimit in                          *)
(* internal/security/security.go): how many requests of one client are let *)
(* through in a minute.  Clients have counters of their own, so one client *)
(* is enough; requests to /up, /readyz and /assets/ are not counted and    *)
(* left out.                                                               *)
(*                                                                         *)
(* A request computes the key of the minute from its own clock, increments *)
(* the key's counter in Redis, and whoever made the counter sets its life  *)
(* in a second call.  There is one counter for all kinds of requests, and  *)
(* each kind has its own limit.  The counter outlives its minute by        *)
(* Life - Minute ticks, and the limit depends on requests not needing      *)
(* longer than that from the key to the increment.                         *)
(*                                                                         *)
(* Redis is external.  What the code relies on: INCR makes a missing       *)
(* counter 1, a key is gone when its life is over, and a call that fails   *)
(* may have taken effect and may be tried again by the client.  It is      *)
(* assumed to keep a counter for its life; one that evicts keys at its     *)
(* memory limit, or restarts without its data, does not.                   *)
(***************************************************************************)
EXTENDS Naturals, FiniteSets

CONSTANTS
    Request,        \* requests of the client
    GlobalLimit,    \* requests per minute
    AuthLimit,      \* and the limit for those to /auth/
    Minute, Life,   \* 60 and 75 seconds, in ticks
    MaxDelay,       \* bound: ticks from a request's key to its increment
    MaxClock,       \* bound: ticks
    MaxFaults       \* bound: calls of Redis that fail

ASSUME RateAssumption ==
    /\ {GlobalLimit, AuthLimit, MaxDelay, MaxClock, MaxFaults} \subseteq Nat
    /\ {Minute, Life} \subseteq Nat \ {0}
    /\ Minute + MaxDelay <= Life

VARIABLES
    clock,      \* the time
    counter,    \* counter[k]: the counter of minute k, 0 if there is none
    expires,    \* expires[k]: when it is removed, 0 for never
    request,    \* request[r]: where r is in the middleware, and what it knows
    faulted,    \* history: the minutes in which a call failed
    faults      \* faults so far

vars == <<clock, counter, expires, request, faulted, faults>>

Key == 0 .. MaxClock \div Minute

Kind == {"auth", "other"}

Limit(kind) == IF kind = "auth" THEN AuthLimit ELSE GlobalLimit

NewRequest ==
    [pc |-> "new", kind |-> "other", key |-> 0, late |-> 0, count |-> 0]

At(r, pc) == request[r].pc = pc

Goto(r, pc) == request' = [request EXCEPT ![r].pc = pc]

(* A call of Redis fails in the minute of r. *)
Fault(r) ==
    /\ faults < MaxFaults
    /\ faults' = faults + 1
    /\ faulted' = faulted \cup {request[r].key}

NoFault == UNCHANGED <<faults, faulted>>

-----------------------------------------------------------------------------

Init ==
    /\ clock = 0
    /\ counter = [k \in Key |-> 0]
    /\ expires = [k \in Key |-> 0]
    /\ request = [r \in Request |-> NewRequest]
    /\ faulted = {}
    /\ faults = 0

(* The path gives the limit, the time the key. *)
Arrive(r) ==
    /\ At(r, "new")
    /\ \E kind \in Kind :
          request' = [request EXCEPT ![r].pc = "keyed",
                                     ![r].kind = kind,
                                     ![r].key = clock \div Minute]
    /\ NoFault
    /\ UNCHANGED <<clock, counter, expires>>

(* Mutant of Increment: GET, and SET with the next number later. *)
ReadThenWrite(r) ==
    LET k == request[r].key
    IN  /\ \/ /\ At(r, "keyed")
              /\ request' = [request EXCEPT ![r].pc = "read",
                                            ![r].count = counter[k] + 1]
              /\ UNCHANGED counter
           \/ /\ At(r, "read")
              /\ counter' = [counter EXCEPT ![k] = request[r].count]
              /\ Goto(r, IF request[r].count = 1 THEN "first" ELSE "counted")
        /\ NoFault
        /\ UNCHANGED <<clock, expires>>

Increment(r) ==
    LET k == request[r].key
    IN  /\ At(r, "keyed")
        /\ counter' = [counter EXCEPT ![k] = @ + 1]
        /\ request' = [request EXCEPT
                          ![r].late = 0,
                          ![r].count = counter'[k],
                          ![r].pc = IF counter'[k] = 1 THEN "first"
                                                       ELSE "counted"]
        /\ NoFault
        /\ UNCHANGED <<clock, expires>>

(* INCR fails, with or without effect.  The client tries it again, or the
   request is answered with an error. *)
IncrementFails(r) ==
    LET k == request[r].key
    IN  /\ At(r, "keyed")
        /\ counter' \in {counter, [counter EXCEPT ![k] = @ + 1]}
        /\ Fault(r)
        /\ \/ UNCHANGED request
           \/ Goto(r, "unavailable")
        /\ UNCHANGED <<clock, expires>>

(* Mutant of Expire: the life is that of the minute from its beginning. *)
ExpireSoon(r) ==
    LET k == request[r].key
    IN  /\ At(r, "first")
        /\ expires' = [expires EXCEPT ![k] = clock + Minute - 1]
        /\ Goto(r, "counted")
        /\ NoFault
        /\ UNCHANGED <<clock, counter>>

(* The counter gets its life, or none if the call fails, which is ignored. *)
Expire(r) ==
    LET k == request[r].key
    IN  /\ At(r, "first")
        /\ \/ expires' = [expires EXCEPT ![k] = clock + Life] /\ NoFault
           \/ UNCHANGED expires /\ Fault(r)
        /\ Goto(r, "counted")
        /\ UNCHANGED <<clock, counter>>

(* Mutant of Decide: one too few is let through. *)
DecideEarly(r) ==
    /\ At(r, "counted")
    /\ Goto(r, IF request[r].count >= Limit(request[r].kind)
               THEN "limited" ELSE "admitted")
    /\ NoFault
    /\ UNCHANGED <<clock, counter, expires>>

Decide(r) ==
    /\ At(r, "counted")
    /\ Goto(r, IF request[r].count > Limit(request[r].kind)
               THEN "limited" ELSE "admitted")
    /\ NoFault
    /\ UNCHANGED <<clock, counter, expires>>

(* Time passes.  By the bound a request increments within MaxDelay ticks; it
   may take its time afterwards. *)
Tick ==
    /\ clock < MaxClock
    /\ \A r \in Request : At(r, "keyed") => request[r].late < MaxDelay
    /\ clock' = clock + 1
    /\ counter' = [k \in Key |-> IF expires[k] = clock' THEN 0 ELSE counter[k]]
    /\ expires' = [k \in Key |-> IF expires[k] = clock' THEN 0 ELSE expires[k]]
    /\ request' = [r \in Request |-> IF At(r, "keyed")
                                     THEN [request[r] EXCEPT !.late = @ + 1]
                                     ELSE request[r]]
    /\ NoFault

-----------------------------------------------------------------------------

Serve(r) ==
    \/ Arrive(r)
    \/ Increment(r)
    \/ IncrementFails(r)
    \/ Expire(r)
    \/ Decide(r)

Next == Tick \/ \E r \in Request : Serve(r)

Spec == Init /\ [][Next]_vars

-----------------------------------------------------------------------------

(* Every variable has its type. *)
TypeOK ==
    /\ clock \in 0 .. MaxClock
    /\ counter \in [Key -> Nat]
    /\ expires \in [Key -> Nat]
    /\ request \in [Request ->
          [pc : {"new", "keyed", "first", "counted", "unavailable", "limited",
                 "admitted"},
           kind : Kind, key : Key, late : 0 .. MaxDelay, count : Nat]]
    /\ faulted \subseteq Key
    /\ faults \in 0 .. MaxFaults

(* The requests of minute k that have been answered in a given way. *)
Answered(k, pc) == {r \in Request : At(r, pc) /\ request[r].key = k}

(* In no minute are more requests of a kind let through than its limit allows,
   although the counter is made, given its life and removed in steps of their
   own, calls fail, and requests come late (RateLimit: INCR and EXPIRE). *)
LimitHolds ==
    \A k \in Key, kind \in Kind :
        Cardinality({r \in Answered(k, "admitted") : request[r].kind = kind})
            <= Limit(kind)

(* A request is turned away only in a minute in which more requests came than
   its limit allows, or one of whose calls failed: earlier minutes do not
   count. *)
LimitedForAReason ==
    \A k \in Key : \A r \in Answered(k, "limited") :
        \/ k \in faulted
        \/ Cardinality({q \in Request : ~ At(q, "new") /\ request[q].key = k})
               > Limit(request[r].kind)

Start(k) == k * Minute

(* No request can increment the counter of minute k any more. *)
Over(k) == clock >= Start(k) + Minute + MaxDelay

Counted(r) == request[r].pc \in {"first", "counted", "limited", "admitted"}

(* Requests have the key of a minute that has begun, and increment it before
   its counter may be removed. *)
InTime ==
    \A r \in Request :
        LET q == request[r]
        IN  /\ ~ At(r, "new") => Start(q.key) <= clock
            /\ At(r, "keyed") => clock < Start(q.key) + Minute + q.late

(* A counter that is to be removed is there until its minute is over. *)
LivesLongEnough ==
    \A k \in Key :
        expires[k] # 0 => expires[k] > clock /\ expires[k] >= Start(k) + Life

(* A request's number is one that the counter has reached, unless the minute
   is over. *)
CounterIsAhead ==
    \A r \in Request : Counted(r) =>
        /\ request[r].count >= 1
        /\ request[r].count <= counter[request[r].key] \/ Over(request[r].key)

(* The requests of a minute have different numbers. *)
NumbersDiffer ==
    \A q, r \in Request :
        /\ Counted(q) /\ Counted(r)
        /\ q # r /\ request[q].key = request[r].key
        => request[q].count # request[r].count

(* Only numbers within the limit are let through. *)
AdmittedWithinLimit ==
    \A r \in Request :
        At(r, "admitted") => request[r].count <= Limit(request[r].kind)

(* The inductive invariant. *)
IInv ==
    InTime /\ LivesLongEnough /\ CounterIsAhead /\ NumbersDiffer
        /\ AdmittedWithinLimit

Incremented(k) == {r \in Request : Counted(r) /\ request[r].key = k}

(* In a minute without a failure neither the counter nor a request's number
   exceeds the requests that have incremented it. *)
CountsRequests ==
    \A k \in Key : k \notin faulted =>
        /\ counter[k] <= Cardinality(Incremented(k))
        /\ \A r \in Incremented(k) :
              request[r].count <= Cardinality(Incremented(k))

(* Only numbers beyond the limit are turned away. *)
LimitedBeyondLimit ==
    \A r \in Request :
        At(r, "limited") => request[r].count > Limit(request[r].kind)

(* What the reason for a limit rests on. *)
ReasonInv == CountsRequests /\ LimitedBeyondLimit

=============================================================================
