---------------------------- MODULE RateLimitProofs ----------------------------
(* Proofs about RateLimit for any number of requests, limits and lengths of a *)
(* minute.  The limit rests on time alone: a counter lives for so long that   *)
(* no request of its minute comes after it is gone, so it never starts again  *)
(* at one, and the requests of a minute get numbers of their own.             *)
EXTENDS RateLimit, FiniteSetTheorems, TLAPS

-----------------------------------------------------------------------------

(* The minute of an instant begins at or before it and ends after it. *)
LEMMA MinuteOfInstant ==
  ASSUME NEW n \in Nat, NEW d \in Nat \ {0}
  PROVE  /\ n \div d \in Nat
         /\ (n \div d) * d <= n
         /\ n < (n \div d) * d + d
  OBVIOUS

(* A later instant is in the same minute or in a later one. *)
LEMMA MinutesInOrder ==
  ASSUME NEW n \in Nat, NEW m \in Nat, NEW d \in Nat \ {0}, n <= m
  PROVE  n \div d <= m \div d
<1> DEFINE a == n \div d
           b == m \div d
<1>1. a \in Nat /\ b \in Nat /\ a * d <= n /\ m < b * d + d
  BY MinuteOfInstant
<1>2. SUFFICES ASSUME b + 1 <= a PROVE FALSE
  <2> HIDE DEF a, b
  <2> QED
    BY <1>1, <1>2
<1> HIDE DEF a, b
<1>3. (b + 1) * d <= a * d
  BY <1>1, <1>2
<1>4. (b + 1) * d = b * d + d
  BY <1>1
<1> QED
  BY <1>1, <1>3, <1>4

-----------------------------------------------------------------------------

(* The constants are numbers, and so is the beginning of a minute. *)
LEMMA Numbers ==
  /\ GlobalLimit \in Nat /\ AuthLimit \in Nat
  /\ MaxDelay \in Nat /\ MaxClock \in Nat /\ MaxFaults \in Nat
  /\ Minute \in Nat \ {0} /\ Life \in Nat \ {0}
  /\ Minute + MaxDelay <= Life
  /\ Key \subseteq Nat
  /\ \A k \in Key : Start(k) \in Nat
<1>1. Minute \in Nat \ {0} /\ MaxClock \in Nat
  BY RateAssumption
<1>2. Key \subseteq Nat
  BY <1>1 DEF Key
<1> QED
  BY <1>1, <1>2, RateAssumption DEF Start

(* The key a request computes is that of a minute that has begun and is not
   over. *)
LEMMA KeyOfNow ==
  ASSUME TypeOK
  PROVE  LET k == clock \div Minute
         IN  k \in Key /\ Start(k) <= clock /\ clock < Start(k) + Minute
<1>1. clock \in Nat /\ MaxClock \in Nat /\ clock <= MaxClock
  BY Numbers DEF TypeOK
<1>2. Minute \in Nat \ {0}
  BY Numbers
<1>3. clock \div Minute <= MaxClock \div Minute
  BY <1>1, <1>2, MinutesInOrder
<1>4. MaxClock \div Minute \in Nat
  BY <1>1, <1>2, MinuteOfInstant
<1>5. /\ clock \div Minute \in Nat
      /\ (clock \div Minute) * Minute <= clock
      /\ clock < (clock \div Minute) * Minute + Minute
  BY <1>1, <1>2, MinuteOfInstant
<1> QED
  BY <1>3, <1>4, <1>5 DEF Key, Start

(* Every step of the middleware and of Redis leaves the variables in their
   types. *)
THEOREM RateTypeOK == Spec => []TypeOK
<1>1. Init => TypeOK
  <2> SUFFICES ASSUME Init PROVE TypeOK
    OBVIOUS
  <2>1. 0 \in Key
    <3>1. MaxClock \div Minute \in Nat
      BY Numbers, MinuteOfInstant
    <3> QED
      BY <3>1 DEF Key
  <2> QED
    BY <2>1, Numbers DEF Init, TypeOK, NewRequest, Kind
<1>2. TypeOK /\ [Next]_vars => TypeOK'
  <2> SUFFICES ASSUME TypeOK, [Next]_vars
               PROVE  TypeOK'
    OBVIOUS
  <2> USE Numbers DEF TypeOK, NoFault, At, Goto
  <2>1. CASE Tick
    BY <2>1 DEF Tick
  <2>2. ASSUME NEW r \in Request, Arrive(r)
        PROVE  TypeOK'
    <3> DEFINE key == clock \div Minute
    <3>1. key \in Key
      BY KeyOfNow
    <3>2. PICK kind \in Kind :
            request' = [request EXCEPT ![r].pc = "keyed", ![r].kind = kind,
                                       ![r].key = key]
      BY <2>2 DEF Arrive
    <3>3. UNCHANGED <<clock, counter, expires, faults, faulted>>
      BY <2>2 DEF Arrive
    <3> HIDE DEF key
    <3> QED
      BY <3>1, <3>2, <3>3
  <2>3. ASSUME NEW r \in Request, Increment(r)
        PROVE  TypeOK'
    BY <2>3 DEF Increment
  <2>4. ASSUME NEW r \in Request, IncrementFails(r)
        PROVE  TypeOK'
    BY <2>4 DEF IncrementFails, Fault
  <2>5. ASSUME NEW r \in Request, Expire(r)
        PROVE  TypeOK'
    BY <2>5 DEF Expire, Fault
  <2>6. ASSUME NEW r \in Request, Decide(r)
        PROVE  TypeOK'
    BY <2>6 DEF Decide
  <2>7. CASE UNCHANGED vars
    BY <2>7 DEF vars
  <2>8. QED
    BY <2>1, <2>2, <2>3, <2>4, <2>5, <2>6, <2>7 DEF Next, Serve
<1>3. QED
  BY <1>1, <1>2, PTL DEF Spec

(* Counters outlive their minutes, and numbers are not given twice.  Only the
   increment and the passing of time need an argument: a request that
   increments is in time, so its counter is ahead of all numbers given; a
   counter that is removed belongs to a minute that is over. *)
THEOREM RateInvariant == Spec => []IInv
<1> DEFINE Q(r) == request[r]
<1>1. Init => IInv
  BY DEF Init, IInv, InTime, LivesLongEnough, CounterIsAhead, NumbersDiffer,
         AdmittedWithinLimit, At, Counted, NewRequest
<1>2. TypeOK /\ TypeOK' /\ IInv /\ [Next]_vars => IInv'
  <2> SUFFICES ASSUME TypeOK, TypeOK', IInv, [Next]_vars
               PROVE  IInv'
    OBVIOUS
  <2> USE Numbers DEF TypeOK, NoFault, Goto
  <2>1. CASE Tick
    <3> USE <2>1 DEF Tick
    <3>1. InTime'
      BY DEF IInv, InTime, At, Start
    <3>2. LivesLongEnough'
      BY DEF IInv, LivesLongEnough, Start
    <3>3. CounterIsAhead'
      BY DEF IInv, CounterIsAhead, LivesLongEnough, Counted, Over, Start, At
    <3>4. NumbersDiffer' /\ AdmittedWithinLimit'
      BY DEF IInv, NumbersDiffer, AdmittedWithinLimit, Counted, At
    <3> QED
      BY <3>1, <3>2, <3>3, <3>4 DEF IInv
  <2>2. ASSUME NEW r \in Request, Arrive(r)
        PROVE  IInv'
    <3> USE <2>2 DEF Arrive
    <3>3. InTime'
      BY KeyOfNow DEF IInv, InTime, At, Start
    <3>4. LivesLongEnough'
      BY DEF IInv, LivesLongEnough, Start
    <3>5. CounterIsAhead' /\ NumbersDiffer' /\ AdmittedWithinLimit'
      BY DEF IInv, CounterIsAhead, NumbersDiffer, AdmittedWithinLimit, Counted,
             Over, Start, At
    <3> QED
      BY <3>3, <3>4, <3>5 DEF IInv
  <2>3. ASSUME NEW r \in Request, Increment(r)
        PROVE  IInv'
    <3> USE <2>3 DEF Increment
    <3>1. ~ Over(Q(r).key)
      BY DEF IInv, InTime, Over, At
    <3>2. /\ Q(r).key \in Key
          /\ counter' = [counter EXCEPT ![Q(r).key] = @ + 1]
          /\ Q(r)' = [Q(r) EXCEPT !.late = 0, !.count = counter'[Q(r).key],
                        !.pc = IF counter'[Q(r).key] = 1 THEN "first"
                                                          ELSE "counted"]
          /\ \A q \in Request : q # r => Q(q)' = Q(q)
          /\ UNCHANGED <<clock, expires>>
      OBVIOUS
    <3>3. InTime'
      BY <3>2 DEF IInv, InTime, At, Start
    <3>4. LivesLongEnough'
      BY <3>2 DEF IInv, LivesLongEnough, Start
    <3>5. CounterIsAhead'
      BY <3>2 DEF IInv, CounterIsAhead, Counted, Over, Start
    <3>6. NumbersDiffer'
      BY <3>1, <3>2 DEF IInv, NumbersDiffer, CounterIsAhead, Counted
    <3>7. AdmittedWithinLimit'
      BY <3>2 DEF IInv, AdmittedWithinLimit, At
    <3> QED
      BY <3>3, <3>4, <3>5, <3>6, <3>7 DEF IInv
  <2>4. ASSUME NEW r \in Request, IncrementFails(r)
        PROVE  IInv'
    BY <2>4 DEF IncrementFails, Fault, IInv, InTime, LivesLongEnough,
       CounterIsAhead, NumbersDiffer, AdmittedWithinLimit, Counted, Over, At,
       Start
  <2>5. ASSUME NEW r \in Request, Expire(r)
        PROVE  IInv'
    BY <2>5 DEF Expire, Fault, IInv, InTime, LivesLongEnough,
       CounterIsAhead, NumbersDiffer, AdmittedWithinLimit, Counted, Over, At,
       Start
  <2>6. ASSUME NEW r \in Request, Decide(r)
        PROVE  IInv'
    BY <2>6 DEF Decide, IInv, InTime, LivesLongEnough, Limit,
       CounterIsAhead, NumbersDiffer, AdmittedWithinLimit, Counted, Over, At,
       Start
  <2>7. CASE UNCHANGED vars
    BY <2>7 DEF vars, IInv, InTime, LivesLongEnough,
       CounterIsAhead, NumbersDiffer, AdmittedWithinLimit, Counted, Over, At,
       Start
  <2>8. QED
    BY <2>1, <2>2, <2>3, <2>4, <2>5, <2>6, <2>7 DEF Next, Serve
<1>3. QED
  BY <1>1, <1>2, RateTypeOK, PTL DEF Spec

(* In no minute are more requests of a kind let through than its limit allows:
   they have different numbers, all of them between one and the limit. *)
THEOREM RateLimitHolds == Spec => []LimitHolds
<1>1. TypeOK /\ IInv => LimitHolds
  <2> SUFFICES ASSUME TypeOK, IInv, NEW k \in Key, NEW kind \in Kind
               PROVE  Cardinality({r \in Answered(k, "admitted") :
                                      request[r].kind = kind}) <= Limit(kind)
    BY DEF LimitHolds
  <2> DEFINE S == {r \in Answered(k, "admitted") : request[r].kind = kind}
             number == [r \in S |-> request[r].count]
  <2>1. Limit(kind) \in Nat
    BY Numbers DEF Limit
  <2>2. \A r \in S : /\ r \in Request /\ Counted(r)
                     /\ request[r].key = k
                     /\ request[r].count \in 1 .. Limit(kind)
    BY <2>1 DEF Answered, At, Counted, IInv, CounterIsAhead,
                AdmittedWithinLimit, TypeOK
  <2>3. \A q, r \in S : q # r => request[q].count # request[r].count
    BY <2>2 DEF IInv, NumbersDiffer
  <2>4. number \in Injection(S, 1 .. Limit(kind))
    BY <2>2, <2>3 DEF Injection, IsInjective
  <2>5. /\ IsFiniteSet(1 .. Limit(kind))
        /\ Cardinality(1 .. Limit(kind)) = Limit(kind)
    BY <2>1, FS_Interval
  <2>6. Cardinality(S) <= Cardinality(1 .. Limit(kind))
    <3> HIDE DEF S, number
    <3> QED
      BY <2>4, <2>5, FS_Injection
  <2> QED
    BY <2>5, <2>6
<1>2. QED
  BY <1>1, RateTypeOK, RateInvariant, PTL

-----------------------------------------------------------------------------

(* The requests that have incremented a counter are finitely many, and one
   more when r has done so. *)
LEMMA OneMore ==
  ASSUME IsFiniteSet(Request), TypeOK, NEW r \in Request, Increment(r),
         NEW k \in Key, request[r].key = k
  PROVE  /\ Cardinality(Incremented(k))' = Cardinality(Incremented(k)) + 1
         /\ \A j \in Key : j # k => Incremented(j)' = Incremented(j)
<1> USE Numbers DEF TypeOK, Increment, Incremented, Counted, At
<1>1. r \notin Incremented(k)
  OBVIOUS
<1>2. Incremented(k)' = Incremented(k) \cup {r}
  OBVIOUS
<1>3. IsFiniteSet(Incremented(k))
  BY FS_Subset
<1>4. \A j \in Key : j # k => Incremented(j)' = Incremented(j)
  OBVIOUS
<1> QED
  BY <1>1, <1>2, <1>3, <1>4, FS_AddElement

(* What does not increment leaves the requests that have done so alone. *)
LEMMA SameRequests ==
  ASSUME TypeOK,
         \A r \in Request :
            /\ Counted(r)' <=> Counted(r)
            /\ Counted(r) => request'[r].key = request[r].key
                             /\ request'[r].count = request[r].count
  PROVE  \A k \in Key :
            /\ Incremented(k)' = Incremented(k)
            /\ \A r \in Incremented(k) : request'[r].count = request[r].count
BY DEF Incremented, Counted

(* The counter of a minute without a failure counts its requests. *)
THEOREM RateCountsRequests ==
  ASSUME IsFiniteSet(Request)
  PROVE  Spec => []ReasonInv
<1>1. Init => ReasonInv
  <2> SUFFICES ASSUME Init PROVE ReasonInv
    OBVIOUS
  <2>1. \A k \in Key : Incremented(k) = {}
    BY DEF Init, Incremented, Counted, NewRequest
  <2> QED
    BY <2>1, FS_EmptySet DEF Init, ReasonInv, CountsRequests,
       LimitedBeyondLimit, At, NewRequest
<1>2. TypeOK /\ TypeOK' /\ ReasonInv /\ [Next]_vars => ReasonInv'
  <2> SUFFICES ASSUME TypeOK, TypeOK', ReasonInv, [Next]_vars
               PROVE  ReasonInv'
    OBVIOUS
  <2>0. \A k \in Key : Cardinality(Incremented(k)) \in Nat
    BY FS_Subset, FS_CardinalityType DEF Incremented
  <2>1. CASE Tick
    <3>1. \A k \in Key : /\ Incremented(k)' = Incremented(k)
                         /\ \A r \in Incremented(k) :
                               request'[r].count = request[r].count
      BY <2>1, SameRequests DEF Tick, TypeOK, Counted, At
    <3>2. \A k \in Key : counter'[k] \in {0, counter[k]}
      BY <2>1 DEF Tick, TypeOK
    <3>3. CountsRequests'
      BY <2>0, <2>1, <3>1, <3>2 DEF Tick, NoFault, ReasonInv, CountsRequests
    <3>4. LimitedBeyondLimit'
      BY <2>1 DEF Tick, ReasonInv, LimitedBeyondLimit, At, TypeOK
    <3> QED
      BY <3>3, <3>4 DEF ReasonInv
  <2>2. ASSUME NEW r \in Request, Increment(r)
        PROVE  ReasonInv'
    <3>0. PICK k \in Key : request[r].key = k
      BY DEF TypeOK
    <3>1. /\ Cardinality(Incremented(k))' = Cardinality(Incremented(k)) + 1
          /\ \A j \in Key : j # k => Incremented(j)' = Incremented(j)
      BY <2>2, <3>0, OneMore
    <3>2. /\ counter'[k] = counter[k] + 1
          /\ \A j \in Key : j # k => counter'[j] = counter[j]
          /\ request'[r].count = counter'[k] /\ request'[r].key = k
          /\ \A q \in Request : q # r => request'[q] = request[q]
          /\ faulted' = faulted
          /\ counter \in [Key -> Nat]
      BY <2>2, <3>0 DEF Increment, NoFault, TypeOK
    <3>3. CountsRequests'
      <4> SUFFICES ASSUME NEW j \in Key, j \notin faulted
                   PROVE  /\ counter'[j] <= Cardinality(Incremented(j))'
                          /\ \A q \in Incremented(j)' :
                               request'[q].count <= Cardinality(Incremented(j))'
        BY <3>2 DEF CountsRequests
      <4>1. CASE j = k
        <5>1. counter'[j] <= Cardinality(Incremented(j))'
          BY <2>0, <3>1, <3>2, <4>1 DEF ReasonInv, CountsRequests
        <5>2. ASSUME NEW q \in Incremented(j)', q # r
              PROVE  request'[q].count <= Cardinality(Incremented(j))'
          <6>1. q \in Incremented(j)
            BY <3>2, <5>2 DEF Incremented, Counted
          <6>2. request[q].count \in Nat /\ request'[q] = request[q]
            BY <3>2, <5>2 DEF Incremented, TypeOK
          <6> QED
            BY <2>0, <3>1, <4>1, <6>1, <6>2 DEF ReasonInv, CountsRequests
        <5> QED
          BY <3>2, <4>1, <5>1, <5>2
      <4>2. CASE j # k
        <5>1. Incremented(j)' = Incremented(j)
          BY <3>1, <4>2
        <5>2. \A q \in Incremented(j) : request'[q] = request[q]
          BY <3>0, <3>2, <4>2 DEF Incremented
        <5> QED
          BY <3>2, <4>2, <5>1, <5>2 DEF ReasonInv, CountsRequests
      <4> QED
        BY <4>1, <4>2
    <3>4. LimitedBeyondLimit'
      BY <2>2 DEF Increment, ReasonInv, LimitedBeyondLimit, At, TypeOK
    <3> QED
      BY <3>3, <3>4 DEF ReasonInv
  <2>3. ASSUME NEW r \in Request, IncrementFails(r)
        PROVE  ReasonInv'
    <3>1. \A k \in Key : /\ Incremented(k)' = Incremented(k)
                         /\ \A q \in Incremented(k) :
                               request'[q].count = request[q].count
      BY <2>3, SameRequests DEF IncrementFails, Goto, TypeOK, Counted, At
    <3>2. /\ faulted' = faulted \cup {request[r].key}
          /\ \A k \in Key : k # request[r].key => counter'[k] = counter[k]
      BY <2>3 DEF IncrementFails, Fault, TypeOK
    <3>3. CountsRequests'
      BY <3>1, <3>2 DEF ReasonInv, CountsRequests
    <3>4. LimitedBeyondLimit'
      BY <2>3 DEF IncrementFails, Goto, ReasonInv, LimitedBeyondLimit, At,
                  TypeOK
    <3> QED
      BY <3>3, <3>4 DEF ReasonInv
  <2>4. ASSUME NEW r \in Request, Arrive(r) \/ Expire(r) \/ Decide(r)
        PROVE  ReasonInv'
    <3>1. \A k \in Key : /\ Incremented(k)' = Incremented(k)
                         /\ \A q \in Incremented(k) :
                               request'[q].count = request[q].count
      <4>1. CASE Arrive(r)
        <5>1. /\ request[r].pc = "new" /\ request'[r].pc = "keyed"
              /\ \A q \in Request : q # r => request'[q] = request[q]
          BY <4>1 DEF Arrive, TypeOK, At
        <5> QED
          BY <5>1, SameRequests DEF Counted
      <4>2. CASE Expire(r)
        BY <4>2, SameRequests DEF Expire, Goto, TypeOK, Counted, At
      <4>3. CASE Decide(r)
        BY <4>3, SameRequests DEF Decide, Goto, TypeOK, Counted, At
      <4> QED
        BY <2>4, <4>1, <4>2, <4>3
    <3>2. faulted \subseteq faulted' /\ counter' = counter
      BY <2>4 DEF Arrive, Expire, Decide, Fault, NoFault
    <3>3. CountsRequests'
      BY <3>1, <3>2 DEF ReasonInv, CountsRequests
    <3>4. LimitedBeyondLimit'
      <4>1. \A q \in Request : q # r => request'[q] = request[q]
        BY <2>4 DEF Arrive, Expire, Decide, Goto, TypeOK
      <4>2. request'[r].pc = "limited" =>
               request'[r].count > Limit(request'[r].kind)
        <5>1. CASE Arrive(r)
          <6>1. request'[r].pc = "keyed"
            BY <5>1 DEF Arrive, TypeOK
          <6> QED
            BY <6>1
        <5>2. CASE Expire(r)
          BY <5>2 DEF Expire, Goto, TypeOK
        <5>3. CASE Decide(r)
          BY <5>3 DEF Decide, Goto, TypeOK
        <5> QED
          BY <2>4, <5>1, <5>2, <5>3
      <4> QED
        BY <4>1, <4>2 DEF ReasonInv, LimitedBeyondLimit, At
    <3> QED
      BY <3>3, <3>4 DEF ReasonInv
  <2>5. CASE UNCHANGED vars
    BY <2>5 DEF vars, ReasonInv, CountsRequests, LimitedBeyondLimit,
       Incremented, Counted, At
  <2> QED
    BY <2>1, <2>2, <2>3, <2>4, <2>5 DEF Next, Serve
<1>3. QED
  BY <1>1, <1>2, RateTypeOK, PTL DEF Spec

(* A request is turned away only when its own minute had more requests than
   the limit allows, or a failed call: a number beyond the limit counts that
   many requests. *)
THEOREM RateLimitedForAReason ==
  ASSUME IsFiniteSet(Request)
  PROVE  Spec => []LimitedForAReason
<1>1. TypeOK /\ ReasonInv => LimitedForAReason
  <2> SUFFICES ASSUME TypeOK, ReasonInv, NEW k \in Key,
                      NEW r \in Answered(k, "limited"), k \notin faulted
               PROVE  Cardinality({q \in Request :
                                      ~ At(q, "new") /\ request[q].key = k})
                         > Limit(request[r].kind)
    BY DEF LimitedForAReason
  <2> DEFINE Came == {q \in Request : ~ At(q, "new") /\ request[q].key = k}
  <2>1. /\ r \in Incremented(k) /\ r \in Request
        /\ request[r].count > Limit(request[r].kind)
        /\ request[r].count \in Nat
    BY DEF Answered, Incremented, Counted, At, ReasonInv, LimitedBeyondLimit,
           TypeOK
  <2>2. request[r].count <= Cardinality(Incremented(k))
    BY <2>1 DEF ReasonInv, CountsRequests
  <2>3. Limit(request[r].kind) \in Nat
    BY Numbers DEF Limit
  <2>4. Incremented(k) \subseteq Came
    BY DEF Incremented, Counted, At
  <2>5. IsFiniteSet(Came)
    BY FS_Subset
  <2>6. /\ Cardinality(Incremented(k)) <= Cardinality(Came)
        /\ Cardinality(Came) \in Nat
        /\ Cardinality(Incremented(k)) \in Nat
    BY <2>4, <2>5, FS_Subset, FS_CardinalityType
  <2> HIDE DEF Came
  <2>7. Cardinality(Came) > Limit(request[r].kind)
    BY <2>1, <2>2, <2>3, <2>6
  <2> QED
    BY <2>7 DEF Came
<1>2. QED
  BY <1>1, RateTypeOK, RateCountsRequests, PTL

=============================================================================
