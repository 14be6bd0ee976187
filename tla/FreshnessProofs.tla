--------------------------- MODULE FreshnessProofs ---------------------------
(***************************************************************************)
(* Proofs about what is out of date, and for how long.                     *)
(*                                                                         *)
(* DashboardCache, for any number of requests and writers, any time to     *)
(* live and any bounds: how old an answer from the cache may be.           *)
(*                                                                         *)
(* DueChecks, for any monitors, schedulers, workers and limit: whose turn  *)
(* it is to be checked.                                                    *)
(***************************************************************************)
EXTENDS DashboardCache, DueChecks, SequenceTheorems, FiniteSetTheorems, TLAPS

(* Dashboard cache *)

(* A summary stays one when it becomes outdated and when it ages. *)
LEMMA SummaryType ==
    ASSUME NEW s \in Summary
    PROVE  /\ Outdated(s) \in Summary
           /\ Older(s) \in Summary
           /\ Outdated(s).age = s.age
           /\ Older(s).age <= s.age + 1
<1>1. MaxAge \in Nat
  BY CacheAssumption DEF MaxAge
<1>2. s.age \in 0 .. MaxAge
  BY DEF Summary
<1>3. Outdated(s) \in Summary /\ Outdated(s).age = s.age
  BY DEF Outdated, Summary
<1>4. CASE s.current \/ s.age = MaxAge
  BY <1>1, <1>2, <1>3, <1>4 DEF Older
<1>5. CASE ~ (s.current \/ s.age = MaxAge)
  <2>1. Older(s) = [s EXCEPT !.age = s.age + 1]
    BY <1>5 DEF Older
  <2>2. s.age + 1 \in 0 .. MaxAge
    BY <1>1, <1>2, <1>5
  <2>3. Older(s) \in Summary /\ Older(s).age = s.age + 1
    BY <2>1, <2>2 DEF Summary
  <2>4. QED
    BY <1>1, <1>2, <1>3, <2>3
<1>6. QED
  BY <1>4, <1>5

(* Every step leaves the variables in their types. *)
THEOREM CacheTypeOK == Spec => []TypeOK
<1> USE DEF TypeOK, Found, Busy
<1>1. Init => TypeOK
  BY CacheAssumption DEF Init
<1>2. TypeOK /\ [Next]_vars => TypeOK'
  <2> SUFFICES ASSUME TypeOK, [Next]_vars
               PROVE  TypeOK'
    OBVIOUS
  <2>e. \/ entry = NoEntry /\ ~ Found
        \/ entry \in Entry /\ Found
    BY DEF Entry, NoEntry
  <2>q. \A r \in Reader : \/ request[r] = NoRequest /\ ~ Busy(r)
                          \/ request[r] \in Request /\ Busy(r)
    BY DEF Request, NoRequest
  <2>1. ASSUME NEW r \in Reader, ReadDatabase(r)
        PROVE  TypeOK'
    <3>1. [current |-> TRUE, age |-> 0, epoch |-> cleared] \in Summary
      BY CacheAssumption DEF Summary, MaxAge
    <3>2. Pending([current |-> TRUE, age |-> 0, epoch |-> cleared], 0) \in Request
      BY <3>1, CacheAssumption DEF Pending, Request
    <3>3. QED
      BY <2>1, <3>2 DEF ReadDatabase
  <2>2. ASSUME NEW r \in Reader, SetEntry(r)
        PROVE  TypeOK'
    <3>1. Cached(request[r].summary, TTL) \in Entry
      BY <2>2, <2>q, CacheAssumption DEF SetEntry, Cached, Entry, Request
    <3>2. entry' \in {NoEntry} \cup Entry
      BY <2>2, <3>1 DEF SetEntry
    <3>3. request' \in [Reader -> {NoRequest} \cup Request]
      BY <2>2 DEF SetEntry
    <3>4. QED
      BY <2>2, <3>2, <3>3 DEF SetEntry
  <2>3. ASSUME NEW w \in Writer, Commit(w)
        PROVE  TypeOK'
    <3>1. entry' \in {NoEntry} \cup Entry
      BY <2>3, <2>e, SummaryType DEF Commit, Cached, Entry
    <3>2. \A r \in Reader : Busy(r) =>
             Pending(Outdated(request[r].summary), request[r].elapsed) \in Request
      BY <2>q, SummaryType DEF Pending, Request
    <3>3. request' \in [Reader -> {NoRequest} \cup Request]
      BY <2>3, <2>q, <3>2 DEF Commit
    <3>4. commits' \in 0 .. MaxCommits
      BY <2>3, CacheAssumption DEF Commit
    <3>5. QED
      BY <2>3, <3>1, <3>3, <3>4 DEF Commit
  <2>4. ASSUME NEW w \in Writer, DeleteEntry(w)
        PROVE  TypeOK'
    BY <2>4 DEF DeleteEntry
  <2>5. CASE Clear
    BY <2>5, CacheAssumption DEF Clear
  <2>6. CASE Tick
    <3>1. entry' \in {NoEntry} \cup Entry
      <4>1. CASE Found /\ ~ Expires
        <5>1. /\ entry.ttl \in 1 .. TTL /\ entry.ttl # 1
              /\ entry.summary \in Summary
          BY <2>e, <4>1 DEF Expires, Entry
        <5>2. entry.ttl # 0 /\ entry.ttl - 1 \in 1 .. TTL
          BY <5>1, CacheAssumption
        <5>3. entry' = Cached(Older(entry.summary), entry.ttl - 1)
          BY <2>6, <4>1, <5>2 DEF Tick
        <5>4. QED
          BY <5>1, <5>2, <5>3, SummaryType DEF Cached, Entry
      <4>2. CASE ~ (Found /\ ~ Expires)
        BY <2>6, <4>2 DEF Tick
      <4>3. QED
        BY <4>1, <4>2
    <3>2. ASSUME NEW r \in Reader, Busy(r)
          PROVE  Pending(Older(request[r].summary), request[r].elapsed + 1) \in Request
      <4>1. /\ request[r].summary \in Summary
            /\ request[r].elapsed \in 0 .. MaxFill
            /\ request[r].elapsed < MaxFill
        BY <2>6, <2>q, <3>2 DEF Tick, Request
      <4>2. request[r].elapsed + 1 \in 0 .. MaxFill
        BY <4>1, CacheAssumption
      <4>3. QED
        BY <4>1, <4>2, SummaryType DEF Pending, Request
    <3>3. request' \in [Reader -> {NoRequest} \cup Request]
      BY <2>6, <2>q, <3>2 DEF Tick
    <3>4. QED
      BY <2>6, <3>1, <3>3 DEF Tick
  <2>7. CASE UNCHANGED vars
    BY <2>7 DEF vars
  <2>8. QED
    BY <2>1, <2>2, <2>3, <2>4, <2>5, <2>6, <2>7 DEF Next
<1>3. QED
  BY <1>1, <1>2, PTL DEF Spec

(* A summary has been outdated for no longer than it has been on its way and
   in the cache. *)
THEOREM CacheInvariant == Spec => []IInv
<1> USE DEF IInv, Found, Busy
<1>1. Init => IInv
  BY DEF Init, NoEntry, NoRequest
<1>2. TypeOK /\ IInv /\ [Next]_vars => IInv'
  <2> SUFFICES ASSUME TypeOK, IInv, [Next]_vars
               PROVE  IInv'
    OBVIOUS
  <2>e. Found => /\ entry.summary \in Summary
                       /\ entry.summary.age \in Nat
                       /\ entry.ttl \in 1 .. TTL
    BY CacheAssumption DEF TypeOK, Entry, NoEntry, Summary, MaxAge
  <2>q. \A r \in Reader : Busy(r) =>
           /\ request[r].summary \in Summary
           /\ request[r].summary.age \in Nat
           /\ request[r].elapsed \in 0 .. MaxFill
    BY CacheAssumption DEF TypeOK, Request, NoRequest, Summary, MaxAge
  <2> USE DEF Pending, Cached, NoEntry, NoRequest
  <2>1. ASSUME NEW r \in Reader, ReadDatabase(r)
        PROVE  IInv'
    BY <2>1 DEF ReadDatabase, TypeOK
  <2>2. ASSUME NEW r \in Reader, SetEntry(r)
        PROVE  IInv'
    <3>1. request[r].summary.age + TTL <= MaxAge
      BY <2>2, <2>q, CacheAssumption DEF SetEntry, MaxAge
    <3>2. Found' => entry'.summary.age + entry'.ttl <= MaxAge
      BY <2>2, <3>1 DEF SetEntry
    <3>3. QED
      BY <2>2, <3>2 DEF SetEntry, TypeOK
  <2>3. ASSUME NEW w \in Writer, Commit(w)
        PROVE  IInv'
    <3>1. Found' => entry'.summary.age + entry'.ttl <= MaxAge
      BY <2>3, <2>e, SummaryType DEF Commit
    <3>2. \A r \in Reader : Busy(r)' =>
             request'[r].summary.age <= request'[r].elapsed
      BY <2>3, <2>q, SummaryType DEF Commit
    <3>3. QED
      BY <3>1, <3>2
  <2>4. ASSUME NEW w \in Writer, DeleteEntry(w)
        PROVE  IInv'
    BY <2>4 DEF DeleteEntry
  <2>5. CASE Clear
    BY <2>5 DEF Clear
  <2>6. CASE Tick
    <3>1. Found' => entry'.summary.age + entry'.ttl <= MaxAge
      <4>1. CASE Found /\ ~ Expires
        <5>1. entry' = Cached(Older(entry.summary), entry.ttl - 1)
          BY <2>6, <2>e, <4>1 DEF Tick
        <5>2. Older(entry.summary) \in Summary /\
              Older(entry.summary).age <= entry.summary.age + 1
          BY <2>e, <4>1, SummaryType
        <5>3. Older(entry.summary).age \in Nat
          BY <5>2, CacheAssumption DEF Summary, MaxAge
        <5>4. Older(entry.summary).age + (entry.ttl - 1) <= MaxAge
          BY <2>e, <4>1, <5>2, <5>3, CacheAssumption DEF MaxAge
        <5>5. QED
          BY <5>1, <5>4
      <4>2. CASE ~ (Found /\ ~ Expires)
        BY <2>6, <4>2 DEF Tick
      <4>3. QED
        BY <4>1, <4>2
    <3>2. ASSUME NEW r \in Reader, Busy(r)'
          PROVE  request'[r].summary.age <= request'[r].elapsed
      <4>1. /\ Busy(r)
            /\ request'[r] = Pending(Older(request[r].summary), request[r].elapsed + 1)
        BY <2>6, <3>2 DEF Tick
      <4>2. /\ Older(request[r].summary) \in Summary
            /\ Older(request[r].summary).age <= request[r].summary.age + 1
        BY <2>q, <4>1, SummaryType
      <4>3. Older(request[r].summary).age \in Nat
        BY <4>2, CacheAssumption DEF Summary, MaxAge
      <4>4. Older(request[r].summary).age <= request[r].elapsed + 1
        BY <2>q, <4>1, <4>2, <4>3, CacheAssumption
      <4>5. QED
        BY <4>1, <4>4
    <3>3. QED
      BY <3>1, <3>2
  <2>7. CASE UNCHANGED vars
    BY <2>7 DEF vars
  <2>8. QED
    BY <2>1, <2>2, <2>3, <2>4, <2>5, <2>6, <2>7 DEF Next
<1>3. QED
  BY <1>1, <1>2, CacheTypeOK, PTL DEF Spec

(* Whatever is lost or overtaken, what the cache answers was true less than one
   time to live and one fill ago. *)
THEOREM CacheStalenessIsBounded == Spec => []StalenessIsBounded
<1>1. TypeOK /\ IInv => StalenessIsBounded
  <2> SUFFICES ASSUME TypeOK, IInv, Found
               PROVE  entry.summary.age < MaxAge
    BY DEF StalenessIsBounded
  <2>1. entry.ttl \in 1 .. TTL /\ entry.summary.age \in 0 .. MaxAge
    BY DEF TypeOK, Entry, NoEntry, Summary, Found
  <2>2. QED
    BY <2>1, CacheAssumption DEF IInv, MaxAge
<1>2. QED
  BY <1>1, CacheTypeOK, CacheInvariant, PTL

-----------------------------------------------------------------------------
(* Due checks *)

(* In s an a comes before a b. *)
InTurn(s, a, b) ==
    \E i, j \in DOMAIN s : i < j /\ s[i] = a /\ s[j] = b

(* Where a sequence has each element once, removing one keeps the others in
   their order. *)
LEMMA RemoveOne ==
    ASSUME NEW S, NEW s \in Seq(S), IsInjective(s), NEW k \in DOMAIN s
    PROVE  LET t == RemoveAt(s, k)
           IN  /\ t \in Seq(S)
               /\ IsInjective(t)
               /\ ToSet(t) = ToSet(s) \ {s[k]}
               /\ \A a, b : InTurn(t, a, b) => InTurn(s, a, b)
<1> DEFINE t == RemoveAt(s, k)
           head == SubSeq(s, 1, k - 1)
           tail == SubSeq(s, k + 1, Len(s))
<1>1. /\ Len(s) \in Nat /\ DOMAIN s = 1 .. Len(s)
      /\ k \in 1 .. Len(s)
      /\ \A i \in 1 .. Len(s) : s[i] \in S
  OBVIOUS
<1>2. /\ head \in Seq(S) /\ Len(head) = k - 1
      /\ \A i \in 1 .. k - 1 : head[i] = s[i]
  BY <1>1, SubSeqProperties
<1>3. /\ tail \in Seq(S) /\ Len(tail) = Len(s) - k
      /\ \A i \in 1 .. Len(s) - k : tail[i] = s[k + i]
  BY <1>1, SubSeqProperties
<1>4. /\ t \in Seq(S)
      /\ DOMAIN t = 1 .. Len(s) - 1
      /\ \A i \in 1 .. Len(s) - 1 : t[i] = IF i < k THEN s[i] ELSE s[i + 1]
  <2>1. t = head \o tail
    BY DEF RemoveAt
  <2> HIDE DEF head, tail, t
  <2>2. /\ t \in Seq(S) /\ Len(t) = Len(head) + Len(tail)
        /\ \A i \in 1 .. Len(head) + Len(tail) :
              t[i] = IF i <= Len(head) THEN head[i] ELSE tail[i - Len(head)]
    BY <1>2, <1>3, <2>1, ConcatProperties
  <2>3. DOMAIN t = 1 .. Len(s) - 1
    BY <1>1, <1>2, <1>3, <2>2
  <2>4. ASSUME NEW i \in 1 .. Len(s) - 1
        PROVE  t[i] = IF i < k THEN s[i] ELSE s[i + 1]
    <3>1. CASE i < k
      BY <1>1, <1>2, <1>3, <2>2, <3>1
    <3>2. CASE i >= k
      <4>1. /\ t[i] = tail[i - (k - 1)]
            /\ i - (k - 1) \in 1 .. Len(s) - k
            /\ k + (i - (k - 1)) = i + 1
        BY <1>1, <1>2, <1>3, <2>2, <3>2
      <4>2. QED
        BY <1>1, <1>3, <3>2, <4>1
    <3>3. QED
      BY <1>1, <3>1, <3>2
  <2>5. QED
    BY <2>2, <2>3, <2>4
<1> HIDE DEF t, head, tail
<1> DEFINE from(i) == IF i < k THEN i ELSE i + 1
<1>5. \A i \in DOMAIN t : from(i) \in DOMAIN s \ {k} /\ t[i] = s[from(i)]
  BY <1>1, <1>4
<1>6. \A i, j \in DOMAIN t : /\ i < j => from(i) < from(j)
                             /\ from(i) = from(j) => i = j
  BY <1>1, <1>4
<1>7. \A i \in DOMAIN s \ {k} : \E j \in DOMAIN t : from(j) = i
  <2>1. \A i \in DOMAIN s \ {k} :
           LET j == IF i < k THEN i ELSE i - 1
           IN  j \in DOMAIN t /\ from(j) = i
    BY <1>1, <1>4
  <2>2. QED
    BY <2>1
<1> HIDE DEF from
<1>8. IsInjective(t)
  BY <1>5, <1>6 DEF IsInjective
<1>9. ToSet(t) = ToSet(s) \ {s[k]}
  <2>1. \A i \in DOMAIN s \ {k} : s[i] # s[k]
    BY DEF IsInjective
  <2>2. QED
    BY <1>5, <1>7, <2>1 DEF ToSet
<1>10. \A a, b : InTurn(t, a, b) => InTurn(s, a, b)
  BY <1>5, <1>6 DEF InTurn
<1>11. QED
  BY <1>4, <1>8, <1>9, <1>10 DEF t

(* So does inserting one it does not have. *)
LEMMA InsertOne ==
    ASSUME NEW S, NEW s \in Seq(S), IsInjective(s), NEW k \in 1 .. Len(s) + 1,
           NEW e \in S, e \notin ToSet(s)
    PROVE  LET t == InsertAt(s, k, e)
           IN  /\ t \in Seq(S)
               /\ IsInjective(t)
               /\ ToSet(t) = ToSet(s) \cup {e}
               /\ \A a, b : InTurn(t, a, b) => InTurn(s, a, b) \/ e \in {a, b}
<1> DEFINE t == InsertAt(s, k, e)
           head == SubSeq(s, 1, k - 1)
           tail == SubSeq(s, k, Len(s))
<1>1. /\ Len(s) \in Nat /\ DOMAIN s = 1 .. Len(s)
      /\ \A i \in 1 .. Len(s) : s[i] \in S
  OBVIOUS
<1>2. /\ head \in Seq(S) /\ Len(head) = k - 1
      /\ \A i \in 1 .. k - 1 : head[i] = s[i]
  BY <1>1, SubSeqProperties
<1>3. /\ tail \in Seq(S) /\ Len(tail) = Len(s) - k + 1
      /\ \A i \in 1 .. Len(s) - k + 1 : tail[i] = s[k + i - 1]
  BY <1>1, SubSeqProperties
<1>4. /\ t \in Seq(S)
      /\ DOMAIN t = 1 .. Len(s) + 1
      /\ \A i \in 1 .. Len(s) + 1 :
            t[i] = IF i < k THEN s[i] ELSE IF i = k THEN e ELSE s[i - 1]
  <2>1. t = head \o <<e>> \o tail
    BY DEF InsertAt
  <2> HIDE DEF head, tail, t
  <2>2. /\ <<e>> \in Seq(S) /\ Len(<<e>>) = 1 /\ <<e>>[1] = e
    OBVIOUS
  <2>3. /\ head \o <<e>> \in Seq(S) /\ Len(head \o <<e>>) = k
        /\ \A i \in 1 .. k :
              (head \o <<e>>)[i] = IF i < k THEN s[i] ELSE e
    BY <1>1, <1>2, <2>2, ConcatProperties
  <2>4. /\ t \in Seq(S) /\ Len(t) = k + Len(tail)
        /\ \A i \in 1 .. k + Len(tail) :
              t[i] = IF i <= k THEN (head \o <<e>>)[i] ELSE tail[i - k]
    <3> DEFINE front == head \o <<e>>
    <3>1. front \in Seq(S) /\ Len(front) = k /\ t = front \o tail
      BY <2>1, <2>3
    <3> HIDE DEF front
    <3>2. /\ t \in Seq(S) /\ Len(t) = Len(front) + Len(tail)
          /\ \A i \in 1 .. Len(front) + Len(tail) :
                t[i] = IF i <= Len(front) THEN front[i]
                                          ELSE tail[i - Len(front)]
      BY <1>3, <3>1, ConcatProperties
    <3>3. QED
      BY <3>1, <3>2 DEF front
  <2>5. DOMAIN t = 1 .. Len(s) + 1
    BY <1>1, <1>3, <2>4
  <2>6. ASSUME NEW i \in 1 .. Len(s) + 1
        PROVE  t[i] = IF i < k THEN s[i] ELSE IF i = k THEN e ELSE s[i - 1]
    <3>1. CASE i <= k
      <4>1. i \in 1 .. k /\ i \in 1 .. k + Len(tail)
        BY <1>1, <1>3, <3>1
      <4>2. t[i] = (head \o <<e>>)[i]
        BY <2>4, <3>1, <4>1
      <4>3. t[i] = IF i < k THEN s[i] ELSE e
        BY <2>3, <4>1, <4>2
      <4>4. QED
        BY <3>1, <4>3
    <3>2. CASE i > k
      <4>1. /\ t[i] = tail[i - k]
            /\ i - k \in 1 .. Len(s) - k + 1
            /\ k + (i - k) - 1 = i - 1
        BY <1>1, <1>3, <2>4, <3>2
      <4>2. QED
        BY <1>1, <1>3, <3>2, <4>1
    <3>3. QED
      BY <1>1, <3>1, <3>2
  <2>7. QED
    BY <2>4, <2>5, <2>6
<1> HIDE DEF t, head, tail
<1> DEFINE to(i) == IF i < k THEN i ELSE i + 1
<1>5. \A i \in DOMAIN s : to(i) \in DOMAIN t \ {k} /\ t[to(i)] = s[i]
  BY <1>1, <1>4
<1>6. \A i, j \in DOMAIN s : to(i) < to(j) => i < j
  BY <1>1
<1>7. \A j \in DOMAIN t \ {k} : \E i \in DOMAIN s : to(i) = j
  <2>1. \A j \in DOMAIN t \ {k} :
           LET i == IF j < k THEN j ELSE j - 1
           IN  i \in DOMAIN s /\ to(i) = j
    BY <1>1, <1>4
  <2>2. QED
    BY <2>1
<1>8. k \in DOMAIN t /\ t[k] = e
  BY <1>1, <1>4
<1> HIDE DEF to
<1>9. IsInjective(t)
  BY <1>5, <1>7, <1>8 DEF IsInjective, ToSet
<1>10. ToSet(t) = ToSet(s) \cup {e}
  BY <1>5, <1>7, <1>8 DEF ToSet
<1>11. \A a, b : InTurn(t, a, b) => InTurn(s, a, b) \/ e \in {a, b}
  BY <1>5, <1>6, <1>7, <1>8 DEF InTurn
<1>12. QED
  BY <1>4, <1>9, <1>10, <1>11 DEF t

(* And the end of a sequence is behind all others. *)
LEMMA AppendOne ==
    ASSUME NEW S, NEW s \in Seq(S), IsInjective(s),
           NEW e \in S, e \notin ToSet(s)
    PROVE  LET t == Append(s, e)
           IN  /\ t \in Seq(S)
               /\ IsInjective(t)
               /\ ToSet(t) = ToSet(s) \cup {e}
               /\ \A a, b : InTurn(t, a, b) => InTurn(s, a, b) \/ b = e
<1> DEFINE t == Append(s, e)
<1>1. /\ Len(s) \in Nat /\ DOMAIN s = 1 .. Len(s)
      /\ t \in Seq(S) /\ DOMAIN t = 1 .. Len(s) + 1
      /\ \A i \in 1 .. Len(s) : t[i] = s[i]
      /\ t[Len(s) + 1] = e
  BY AppendProperties
<1> HIDE DEF t
<1>2. \A i \in DOMAIN t : i = Len(s) + 1 \/ i \in DOMAIN s
  BY <1>1
<1>3. IsInjective(t)
  BY <1>1, <1>2 DEF IsInjective, ToSet
<1>4. ToSet(t) = ToSet(s) \cup {e}
  BY <1>1, <1>2 DEF ToSet
<1>5. \A a, b : InTurn(t, a, b) => InTurn(s, a, b) \/ b = e
  BY <1>1, <1>2 DEF InTurn
<1>6. QED
  BY <1>1, <1>3, <1>4, <1>5 DEF t

(* No two take turns at being before the other. *)
LEMMA OneTurn ==
    ASSUME NEW S, NEW s \in Seq(S), IsInjective(s), NEW a, NEW b,
           InTurn(s, a, b)
    PROVE  ~ InTurn(s, b, a)
BY DEF InTurn, IsInjective


(* The rotation without a monitor, which it has at most once. *)
LEMMA WithoutOne ==
    ASSUME ScheduleTypeOK, NEW m \in Monitor
    PROVE  /\ Without(m) \in Seq(Monitor)
           /\ IsInjective(Without(m))
           /\ ToSet(Without(m)) = ToSet(rotation) \ {m}
           /\ \A a, b : InTurn(Without(m), a, b) => Before(a, b)
<1>1. /\ rotation \in Seq(Monitor) /\ IsInjective(rotation)
      /\ \A a, b : InTurn(rotation, a, b) => Before(a, b)
  BY DEF ScheduleTypeOK, InTurn, Before
<1>2. CASE m \in ToSet(rotation)
  <2> DEFINE k == CHOOSE i \in DOMAIN rotation : rotation[i] = m
  <2>1. k \in DOMAIN rotation /\ rotation[k] = m
    BY <1>2 DEF ToSet
  <2>2. Without(m) = RemoveAt(rotation, k)
    BY <1>2 DEF Without
  <2> HIDE DEF k
  <2>3. QED
    BY <1>1, <2>1, <2>2, RemoveOne
<1>3. CASE m \notin ToSet(rotation)
  BY <1>1, <1>3 DEF Without
<1>4. QED
  BY <1>2, <1>3

(* A tick lists no more than Limit monitors, all of them due. *)
LEMMA ListsDue ==
    ASSUME ScheduleTypeOK, NEW listed \in DueMonitors
    PROVE  listed \in Seq(Monitor) /\ Len(listed) <= Limit
<1>1. PICK n \in 0 .. Limit : listed \in [1 .. n -> due]
  BY DEF DueMonitors
<1>2. n \in Nat /\ n <= Limit
  BY <1>1, DueAssumption
<1>3. due \subseteq Monitor
  BY DEF ScheduleTypeOK, ToSet
<1>4. listed \in [1 .. n -> Monitor]
  BY <1>1, <1>3
<1>5. listed \in Seq(Monitor) /\ Len(listed) = n
  BY <1>2, <1>4
<1>6. QED
  BY <1>2, <1>5

(* What a step does to the rotation: nothing, a monitor leaves it, or is put
   into it that was not enabled, or a check is recorded. *)
Turns(m) ==
    \/ /\ rotation' = Without(m)
       /\ status' = [status EXCEPT ![m] = "deleted"]
       /\ due' = due \ {m}
    \/ /\ status[m] # "enabled"
       /\ status' = [status EXCEPT ![m] = "enabled"]
       /\ \E i \in 1 .. Len(rotation) + 1 :
             rotation' = InsertAt(rotation, i, m)
       /\ due' \in {due, due \cup {m}}
    \/ /\ status[m] = "enabled"
       /\ rotation' = Append(Without(m), m)
       /\ UNCHANGED status
       /\ due' = due \ {m}

Rotation(s, d, st) ==
    /\ s \in Seq(Monitor)
    /\ IsInjective(s)
    /\ ToSet(s) = {m \in Monitor : st[m] = "enabled"}
    /\ d \subseteq ToSet(s)

LEMMA TurnsKeepRotation ==
    ASSUME ScheduleTypeOK, NEW m \in Monitor, Turns(m)
    PROVE  /\ status' \in [Monitor ->
                             {"unused", "enabled", "disabled", "deleted"}]
           /\ Rotation(rotation', due', status')
           /\ \A a, b \in Monitor :
                 a \in due' /\ Before(a, b) => ~ Before(b, a)'
<1>1. /\ rotation \in Seq(Monitor) /\ IsInjective(rotation)
      /\ ToSet(rotation) = {n \in Monitor : status[n] = "enabled"}
      /\ due \subseteq ToSet(rotation)
      /\ status \in [Monitor -> {"unused", "enabled", "disabled", "deleted"}]
  BY DEF ScheduleTypeOK
<1>2. /\ \A a, b : Before(a, b) <=> InTurn(rotation, a, b)
      /\ \A a, b : Before(a, b)' <=> InTurn(rotation', a, b)
      /\ \A a, b : Before(a, b) => {a, b} \subseteq ToSet(rotation)
      /\ \A a, b : Before(a, b) => ~ Before(b, a)
  <2>1. /\ \A a, b : Before(a, b) <=> InTurn(rotation, a, b)
        /\ \A a, b : Before(a, b)' <=> InTurn(rotation', a, b)
        /\ \A a, b : Before(a, b) => {a, b} \subseteq ToSet(rotation)
    BY DEF Before, InTurn, ToSet
  <2>2. QED
    BY <1>1, <2>1, OneTurn
<1>3. CASE /\ rotation' = Without(m)
           /\ status' = [status EXCEPT ![m] = "deleted"]
           /\ due' = due \ {m}
  <2>1. Rotation(rotation', due', status')
    BY <1>1, <1>3, WithoutOne DEF Rotation
  <2>2. QED
    BY <1>1, <1>2, <1>3, <2>1, WithoutOne
<1>4. CASE /\ status[m] # "enabled"
           /\ status' = [status EXCEPT ![m] = "enabled"]
           /\ \E i \in 1 .. Len(rotation) + 1 :
                 rotation' = InsertAt(rotation, i, m)
           /\ due' \in {due, due \cup {m}}
  <2>1. m \notin ToSet(rotation)
    BY <1>1, <1>4
  <2>2. /\ rotation' \in Seq(Monitor) /\ IsInjective(rotation')
        /\ ToSet(rotation') = ToSet(rotation) \cup {m}
        /\ \A a, b : InTurn(rotation', a, b) =>
                       InTurn(rotation, a, b) \/ m \in {a, b}
    BY <1>1, <1>4, <2>1, InsertOne
  <2>3. Rotation(rotation', due', status')
    BY <1>1, <1>4, <2>2 DEF Rotation
  <2>4. QED
    BY <1>1, <1>2, <1>4, <2>1, <2>2, <2>3
<1>5. CASE /\ status[m] = "enabled"
           /\ rotation' = Append(Without(m), m)
           /\ UNCHANGED status
           /\ due' = due \ {m}
  <2>1. /\ Without(m) \in Seq(Monitor)
        /\ IsInjective(Without(m))
        /\ ToSet(Without(m)) = ToSet(rotation) \ {m}
        /\ \A a, b : InTurn(Without(m), a, b) => Before(a, b)
    BY WithoutOne
  <2>2. /\ rotation' \in Seq(Monitor) /\ IsInjective(rotation')
        /\ ToSet(rotation') = (ToSet(rotation) \ {m}) \cup {m}
        /\ \A a, b : InTurn(rotation', a, b) =>
                       InTurn(Without(m), a, b) \/ b = m
    BY <1>5, <2>1, AppendOne
  <2>3. Rotation(rotation', due', status')
    BY <1>1, <1>5, <2>2 DEF Rotation
  <2>4. QED
    BY <1>1, <1>2, <1>5, <2>1, <2>2, <2>3
<1>6. QED
  BY <1>3, <1>4, <1>5 DEF Turns

(* What a step does besides. *)
LEMMA StepTurns ==
    ASSUME ScheduleTypeOK, [ScheduleNext]_scheduleVars
    PROVE  \/ \E m \in Monitor : Turns(m)
           \/ UNCHANGED <<status, rotation, due>>
           \/ \E m \in Monitor :
                 /\ status[m] # "enabled" /\ UNCHANGED rotation
                 /\ \/ /\ status' = [status EXCEPT ![m] = "disabled"]
                       /\ UNCHANGED due
                    \/ UNCHANGED status /\ due' = due \ {m}
           \/ \E m \in Monitor :
                 /\ status[m] = "enabled" /\ UNCHANGED <<status, rotation>>
                 /\ due' = due \cup {m}
<1> USE DEF Turns
<1>1. ASSUME NEW m \in Monitor, CreateMonitor(m)
      PROVE  \/ Turns(m)
             \/ /\ status[m] # "enabled" /\ UNCHANGED <<rotation, due>>
                /\ status' = [status EXCEPT ![m] = "disabled"]
  <2>1. 1 \in 1 .. Len(rotation) + 1
    BY DEF ScheduleTypeOK
  <2>2. QED
    BY <1>1, <2>1 DEF CreateMonitor
<1>2. ASSUME NEW m \in Monitor, DeleteMonitor(m)
      PROVE  Turns(m)
  BY <1>2 DEF DeleteMonitor
<1>3. ASSUME NEW m \in Monitor, Seed(m)
      PROVE  Turns(m)
  BY <1>3 DEF Seed
<1>4. ASSUME NEW m \in Monitor, Elapse(m)
      PROVE  /\ status[m] = "enabled" /\ UNCHANGED <<status, rotation>>
             /\ due' = due \cup {m}
  BY <1>4 DEF Elapse
<1>5. ASSUME NEW m \in Monitor, NEW w \in Worker, Record(w, m)
      PROVE  \/ Turns(m)
             \/ /\ status[m] # "enabled" /\ UNCHANGED <<status, rotation>>
                /\ due' = due \ {m}
  BY <1>5 DEF Record
<1>6. QED
  BY <1>1, <1>2, <1>3, <1>4, <1>5
     DEF ScheduleNext, scheduleVars, Schedule, Work, EnqueueCheck, Fire,
         EnqueueNext, EnqueueFails, Dequeue, CheckFails

(* Every step leaves the rotation the enabled monitors, each once. *)
LEMMA StepKeepsRotation ==
    ASSUME ScheduleTypeOK, [ScheduleNext]_scheduleVars
    PROVE  /\ status' \in [Monitor ->
                             {"unused", "enabled", "disabled", "deleted"}]
           /\ Rotation(rotation', due', status')
           /\ \A a, b \in Monitor :
                 a \in due \cap due' /\ Before(a, b) => ~ Before(b, a)'
<1>1. /\ rotation \in Seq(Monitor) /\ IsInjective(rotation)
      /\ ToSet(rotation) = {n \in Monitor : status[n] = "enabled"}
      /\ due \subseteq ToSet(rotation)
      /\ status \in [Monitor -> {"unused", "enabled", "disabled", "deleted"}]
  BY DEF ScheduleTypeOK
<1>2. ASSUME UNCHANGED rotation
      PROVE  \A a, b \in Monitor : Before(a, b) => ~ Before(b, a)'
  <2>1. \A a, b : Before(a, b) <=> InTurn(rotation, a, b)
    BY DEF Before, InTurn
  <2>2. \A a, b : Before(a, b)' <=> InTurn(rotation, a, b)
    BY <1>2 DEF Before, InTurn
  <2>3. QED
    BY <1>1, <2>1, <2>2, OneTurn
<1>3. CASE \E m \in Monitor : Turns(m)
  BY <1>3, TurnsKeepRotation
<1>4. CASE UNCHANGED <<status, rotation, due>>
  BY <1>1, <1>2, <1>4 DEF Rotation
<1>5. ASSUME NEW m \in Monitor,
             /\ status[m] # "enabled" /\ UNCHANGED rotation
             /\ \/ /\ status' = [status EXCEPT ![m] = "disabled"]
                   /\ UNCHANGED due
                \/ UNCHANGED status /\ due' = due \ {m}
      PROVE  /\ status' \in [Monitor ->
                               {"unused", "enabled", "disabled", "deleted"}]
             /\ Rotation(rotation', due', status')
  BY <1>1, <1>5 DEF Rotation
<1>6. ASSUME NEW m \in Monitor,
             /\ status[m] = "enabled" /\ UNCHANGED <<status, rotation>>
             /\ due' = due \cup {m}
      PROVE  /\ status' \in [Monitor ->
                               {"unused", "enabled", "disabled", "deleted"}]
             /\ Rotation(rotation', due', status')
  BY <1>1, <1>6 DEF Rotation
<1>7. QED
  BY <1>2, <1>3, <1>4, <1>5, <1>6, StepTurns

(* And the batches, the queue and the checks what they are. *)
LEMMA StepKeepsQueue ==
    ASSUME ScheduleTypeOK, [ScheduleNext]_scheduleVars
    PROVE  /\ batch' \in [Scheduler -> Seq(Monitor)]
           /\ \A s \in Scheduler : Len(batch'[s]) <= Limit
           /\ queue' \in Seq(Monitor)
           /\ checking' \in [Worker -> SUBSET Monitor]
           /\ \A w \in Worker : Cardinality(checking'[w]) <= 1
           /\ requests' \in 0 .. MaxRequests
           /\ faults' \in 0 .. MaxFaults
<1> DEFINE Kept == /\ batch' \in [Scheduler -> Seq(Monitor)]
                   /\ \A s \in Scheduler : Len(batch'[s]) <= Limit
                   /\ queue' \in Seq(Monitor)
                   /\ checking' \in [Worker -> SUBSET Monitor]
                   /\ \A w \in Worker : Cardinality(checking'[w]) <= 1
                   /\ requests' \in 0 .. MaxRequests
                   /\ faults' \in 0 .. MaxFaults
<1>1. /\ batch \in [Scheduler -> Seq(Monitor)]
      /\ \A s \in Scheduler : Len(batch[s]) <= Limit
      /\ queue \in Seq(Monitor)
      /\ checking \in [Worker -> SUBSET Monitor]
      /\ \A w \in Worker : Cardinality(checking[w]) <= 1
      /\ requests \in 0 .. MaxRequests
      /\ faults \in 0 .. MaxFaults
      /\ Limit \in Nat /\ MaxRequests \in Nat /\ MaxFaults \in Nat
  BY DueAssumption DEF ScheduleTypeOK
<1>2. ASSUME NEW q \in Seq(Monitor), q # <<>>
      PROVE  /\ Head(q) \in Monitor
             /\ Tail(q) \in Seq(Monitor)
             /\ Len(Tail(q)) = Len(q) - 1
             /\ Len(q) \in Nat
  BY <1>2, HeadTailProperties
<1>3. ASSUME NEW q \in Seq(Monitor), NEW m \in Monitor
      PROVE  Append(q, m) \in Seq(Monitor)
  OBVIOUS
<1>4. Cardinality({}) = 0
  BY FS_EmptySet
<1>5. Fault => faults' \in 0 .. MaxFaults
  BY <1>1 DEF Fault
<1>6. ASSUME NEW s \in Scheduler, Fire(s)
      PROVE  Kept
  <2>1. PICK listed \in DueMonitors : batch' = [batch EXCEPT ![s] = listed]
    BY <1>6 DEF Fire
  <2>2. listed \in Seq(Monitor) /\ Len(listed) <= Limit
    BY ListsDue
  <2>3. /\ batch' \in [Scheduler -> Seq(Monitor)]
        /\ \A t \in Scheduler : Len(batch'[t]) <= Limit
    BY <1>1, <2>1, <2>2
  <2>4. QED
    BY <1>1, <1>6, <2>3 DEF Fire
<1>7. ASSUME NEW s \in Scheduler, EnqueueNext(s)
      PROVE  Kept
  <2>1. /\ batch[s] \in Seq(Monitor) /\ batch[s] # <<>>
        /\ queue' = Append(queue, Head(batch[s]))
        /\ batch' = [batch EXCEPT ![s] = Tail(batch[s])]
        /\ UNCHANGED <<checking, requests, faults>>
    BY <1>1, <1>7 DEF EnqueueNext
  <2>2. queue' \in Seq(Monitor)
    BY <1>1, <1>2, <1>3, <2>1
  <2>3. Tail(batch[s]) \in Seq(Monitor) /\ Len(Tail(batch[s])) <= Limit
    BY <1>1, <1>2, <2>1
  <2>4. /\ batch' \in [Scheduler -> Seq(Monitor)]
        /\ \A t \in Scheduler : Len(batch'[t]) <= Limit
    BY <1>1, <2>1, <2>3
  <2>5. QED
    BY <1>1, <2>1, <2>2, <2>4
<1>8. ASSUME NEW s \in Scheduler, EnqueueFails(s)
      PROVE  Kept
  <2>1. /\ batch[s] \in Seq(Monitor) /\ batch[s] # <<>>
        /\ queue' \in {queue, Append(queue, Head(batch[s]))}
        /\ batch' = [batch EXCEPT ![s] = <<>>]
        /\ UNCHANGED <<checking, requests>>
        /\ faults' \in 0 .. MaxFaults
    BY <1>1, <1>5, <1>8 DEF EnqueueFails
  <2>2. queue' \in Seq(Monitor)
    BY <1>1, <1>2, <1>3, <2>1
  <2>3. <<>> \in Seq(Monitor) /\ Len(<<>>) <= Limit
    BY <1>1, EmptySeq
  <2>4. /\ batch' \in [Scheduler -> Seq(Monitor)]
        /\ \A t \in Scheduler : Len(batch'[t]) <= Limit
    BY <1>1, <2>1, <2>3
  <2>5. QED
    BY <1>1, <2>1, <2>2, <2>4
<1>9. ASSUME NEW m \in Monitor, EnqueueCheck(m)
      PROVE  Kept
  BY <1>1, <1>3, <1>9 DEF EnqueueCheck
<1>10. ASSUME NEW w \in Worker, Dequeue(w)
       PROVE  Kept
  <2>1. /\ queue' = Tail(queue) /\ queue # <<>>
        /\ checking' = [checking EXCEPT ![w] = {Head(queue)}]
        /\ UNCHANGED <<batch, requests, faults>>
    BY <1>10 DEF Dequeue
  <2>2. queue' \in Seq(Monitor) /\ Head(queue) \in Monitor
    BY <1>1, <1>2, <2>1
  <2>3. /\ checking' \in [Worker -> SUBSET Monitor]
        /\ \A v \in Worker : checking'[v] \in {checking[v], {Head(queue)}}
    BY <1>1, <2>1, <2>2
  <2>4. ASSUME NEW v \in Worker
        PROVE  Cardinality(checking'[v]) <= 1
    <3>1. Cardinality({Head(queue)}) = 1
      BY FS_Singleton
    <3>2. checking'[v] = checking[v] \/ checking'[v] = {Head(queue)}
      BY <2>3
    <3>3. CASE checking'[v] = checking[v]
      BY <1>1, <3>3
    <3>4. CASE checking'[v] = {Head(queue)}
      <4>1. Cardinality(checking'[v]) = 1
        BY <3>1, <3>4, Zenon
      <4>2. QED
        BY <4>1
    <3>5. QED
      BY <3>2, <3>3, <3>4
  <2>5. QED
    BY <1>1, <2>1, <2>2, <2>3, <2>4
<1>11. ASSUME NEW w \in Worker, NEW m \in Monitor,
              Record(w, m) \/ CheckFails(w, m)
       PROVE  Kept
  <2>1. /\ checking' = [checking EXCEPT ![w] = {}]
        /\ queue' \in {queue, Append(queue, m)}
        /\ faults' \in 0 .. MaxFaults
        /\ UNCHANGED <<batch, requests>>
    BY <1>1, <1>5, <1>11 DEF Record, CheckFails
  <2>2. /\ checking' \in [Worker -> SUBSET Monitor]
        /\ \A v \in Worker : Cardinality(checking'[v]) <= 1
    BY <1>1, <1>4, <2>1
  <2>3. queue' \in Seq(Monitor)
    BY <1>1, <1>3, <2>1
  <2>4. QED
    BY <1>1, <2>1, <2>2, <2>3
<1>12. ASSUME UNCHANGED <<batch, queue, checking, requests, faults>>
       PROVE  Kept
  BY <1>1, <1>12
<1> HIDE DEF Kept
<1>13. Kept
  BY <1>6, <1>7, <1>8, <1>9, <1>10, <1>11, <1>12
     DEF ScheduleNext, scheduleVars, Schedule, Work, CreateMonitor,
         DeleteMonitor, Seed, Elapse
<1>14. QED
  BY <1>13 DEF Kept

(* Whatever monitors come, go and are enabled, the rotation has the enabled
   ones, each once, and only of those any is due; a tick lists no more than its
   limit (DueMonitors, InsertCheckEvent, Seed). *)
THEOREM DueTypeOK ==
    ScheduleSpec => []ScheduleTypeOK
<1>1. ScheduleInit => ScheduleTypeOK
  <2> SUFFICES ASSUME ScheduleInit
               PROVE  ScheduleTypeOK
    OBVIOUS
  <2>1. /\ <<>> \in Seq(Monitor) /\ Len(<<>>) = 0
        /\ IsInjective(<<>>) /\ ToSet(<<>>) = {}
    BY EmptySeq DEF IsInjective, ToSet
  <2>2. Cardinality({}) = 0
    BY FS_EmptySet
  <2>3. QED
    BY <2>1, <2>2, DueAssumption DEF ScheduleInit, ScheduleTypeOK
<1>2. ScheduleTypeOK /\ [ScheduleNext]_scheduleVars => ScheduleTypeOK'
  BY StepKeepsRotation, StepKeepsQueue DEF ScheduleTypeOK, Rotation
<1>3. QED
  BY <1>1, <1>2, PTL DEF ScheduleSpec

(* A due monitor keeps its turn, for any number of monitors, schedulers and
   workers (the order of DueMonitors, InsertCheckEvent). *)
THEOREM DueTurnsAreKept ==
    ScheduleSpec => TurnsAreKept
<1>1. ScheduleTypeOK /\ [ScheduleNext]_scheduleVars =>
         [\A m, n \in Monitor :
            m \in due \cap due' /\ Before(m, n)
               => ~ Before(n, m)']_scheduleVars
  BY StepKeepsRotation
<1>2. QED
  BY <1>1, DueTypeOK, PTL DEF ScheduleSpec, TurnsAreKept

=============================================================================
