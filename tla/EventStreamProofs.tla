-------------------------- MODULE EventStreamProofs --------------------------
(* Proofs about EventStream for any publishers, streams, capacity and      *)
(* numbers of events and faults.                                           *)
(*                                                                         *)
(* An event for which no call has failed passes through the wire, the      *)
(* channel of a stream and the hands of its client, in this order and      *)
(* never back.  So IInv says that each of the three is in order, that what *)
(* is ahead was published before what is behind, and that whatever is      *)
(* under way was published before what its publisher publishes next.       *)
EXTENDS EventStream, SequenceTheorems, TLAPS

(* A sequence of events is in order, except for those of F. *)
Ordered(q, F) ==
    \A i, j \in 1 .. Len(q) :
        i < j /\ q[i].from = q[j].from /\ q[i] \notin F /\ q[j] \notin F
          => q[i].number < q[j].number

(* What is in q was published before what is in r. *)
Before(q, r, F) ==
    \A i \in 1 .. Len(q), j \in 1 .. Len(r) :
        q[i].from = r[j].from /\ q[i] \notin F /\ r[j] \notin F
          => q[i].number < r[j].number

(* What is in q was published before what the publishers publish next. *)
Past(q, F, n) ==
    \A i \in 1 .. Len(q) : q[i] \notin F => q[i].number < n[q[i].from]

(* The publisher of an event under way has not run out of numbers. *)
Numbered == \A p \in Publisher : call[p] # "idle" => next[p] <= MaxEvents

(* What comes from elsewhere than the first call for an event is known to
   have failed. *)
FaultsKnown ==
    /\ stray \subseteq faulted
    /\ \A p \in Publisher : call[p] = "failed" => Current(p) \in faulted

AllInOrder ==
    /\ Ordered(wire, faulted)
    /\ Past(wire, faulted, next)
    /\ \A s \in Stream :
          /\ Ordered(channel[s], faulted)
          /\ Ordered(written[s], faulted)
          /\ Before(written[s], channel[s], faulted)
          /\ Before(written[s], wire, faulted)
          /\ Before(channel[s], wire, faulted)
          /\ Past(channel[s], faulted, next)
          /\ Past(written[s], faulted, next)

IInv == TypeOK /\ Numbered /\ FaultsKnown /\ AllInOrder

-----------------------------------------------------------------------------
(* Of sequences of events. *)

LEMMA AppendEvent ==
    ASSUME NEW q \in Seq(Event), NEW r \in Seq(Event), NEW e \in Event,
           NEW F, NEW n
    PROVE  /\ Append(q, e) \in Seq(Event)
           /\ Len(Append(q, e)) = Len(q) + 1
           /\ Ordered(q, F) /\ Before(q, <<e>>, F) => Ordered(Append(q, e), F)
           /\ Before(r, q, F) /\ Before(r, <<e>>, F)
                => Before(r, Append(q, e), F)
           /\ Before(q, r, F) /\ Before(<<e>>, r, F)
                => Before(Append(q, e), r, F)
           /\ Past(q, F, n) /\ Past(<<e>>, F, n) => Past(Append(q, e), F, n)
<1>1. /\ Append(q, e) \in Seq(Event)
      /\ Len(Append(q, e)) = Len(q) + 1
      /\ \A i \in 1 .. Len(q) : Append(q, e)[i] = q[i]
      /\ Append(q, e)[Len(q) + 1] = e
  BY AppendProperties
<1>2. /\ \A i \in 1 .. Len(q) + 1 : i \in 1 .. Len(q) \/ i = Len(q) + 1
      /\ Len(q) \in Nat /\ Len(r) \in Nat
      /\ Len(<<e>>) = 1 /\ <<e>>[1] = e
  OBVIOUS
<1>3. Ordered(q, F) /\ Before(q, <<e>>, F) => Ordered(Append(q, e), F)
  BY <1>1, <1>2 DEF Ordered, Before
<1>4. Before(r, q, F) /\ Before(r, <<e>>, F) => Before(r, Append(q, e), F)
  BY <1>1, <1>2 DEF Before
<1>5. Before(q, r, F) /\ Before(<<e>>, r, F) => Before(Append(q, e), r, F)
  BY <1>1, <1>2 DEF Before
<1>6. Past(q, F, n) /\ Past(<<e>>, F, n) => Past(Append(q, e), F, n)
  BY <1>1, <1>2 DEF Past
<1>7. QED
  BY <1>1, <1>3, <1>4, <1>5, <1>6

(* Taking the head: it was published before what stays. *)
LEMMA TakeEvent ==
    ASSUME NEW q \in Seq(Event), q # <<>>, NEW r \in Seq(Event), NEW F, NEW n
    PROVE  /\ Head(q) \in Event
           /\ Tail(q) \in Seq(Event)
           /\ Len(Tail(q)) = Len(q) - 1
           /\ Ordered(q, F) => /\ Ordered(Tail(q), F)
                               /\ Before(<<Head(q)>>, Tail(q), F)
           /\ Before(r, q, F) => /\ Before(r, Tail(q), F)
                                 /\ Before(r, <<Head(q)>>, F)
           /\ Before(q, r, F) => /\ Before(Tail(q), r, F)
                                 /\ Before(<<Head(q)>>, r, F)
           /\ Past(q, F, n) => Past(Tail(q), F, n) /\ Past(<<Head(q)>>, F, n)
<1> DEFINE e == Head(q)
<1>1. /\ e \in Event
      /\ Tail(q) \in Seq(Event)
      /\ Len(Tail(q)) = Len(q) - 1
      /\ \A i \in 1 .. Len(Tail(q)) : Tail(q)[i] = q[i + 1]
  BY HeadTailProperties
<1>2. /\ Len(q) \in Nat \ {0} /\ Len(r) \in Nat
      /\ e = q[1] /\ Len(<<e>>) = 1 /\ <<e>>[1] = e
      /\ \A i \in 1 .. Len(Tail(q)) : i + 1 \in 1 .. Len(q)
  BY <1>1, EmptySeq
<1> HIDE DEF e
<1>3. ASSUME Ordered(q, F)
      PROVE  Ordered(Tail(q), F) /\ Before(<<e>>, Tail(q), F)
  <2>1. Ordered(Tail(q), F)
    <3> SUFFICES ASSUME NEW i \in 1 .. Len(Tail(q)), NEW j \in 1 .. Len(Tail(q)),
                        i < j, q[i + 1].from = q[j + 1].from,
                        q[i + 1] \notin F, q[j + 1] \notin F
                 PROVE  q[i + 1].number < q[j + 1].number
      BY <1>1 DEF Ordered
    <3>1. i + 1 < j + 1
      BY <1>1, <1>2
    <3>2. QED
      BY <1>2, <1>3, <3>1 DEF Ordered
  <2>2. Before(<<e>>, Tail(q), F)
    <3>1. \A j \in 1 .. Len(Tail(q)) : 1 < j + 1 /\ 1 \in 1 .. Len(q)
      BY <1>1, <1>2
    <3>2. QED
      BY <1>1, <1>2, <1>3, <3>1 DEF Ordered, Before
  <2>3. QED
    BY <2>1, <2>2
<1>4. 1 \in 1 .. Len(q)
  BY <1>2
<1>5. Before(r, q, F) => Before(r, Tail(q), F)
  BY <1>1, <1>2 DEF Before
<1>6. Before(r, q, F) => Before(r, <<e>>, F)
  BY <1>2, <1>4 DEF Before
<1>7. Before(q, r, F) => Before(Tail(q), r, F)
  BY <1>1, <1>2 DEF Before
<1>8. Before(q, r, F) => Before(<<e>>, r, F)
  BY <1>2, <1>4 DEF Before
<1>9. Past(q, F, n) => Past(Tail(q), F, n) /\ Past(<<e>>, F, n)
  BY <1>1, <1>2, <1>4 DEF Past
<1>10. QED
  BY <1>1, <1>3, <1>5, <1>6, <1>7, <1>8, <1>9 DEF e

(* Losing all that follows the first k. *)
LEMMA KeepEvents ==
    ASSUME NEW q \in Seq(Event), NEW k \in 0 .. Len(q), NEW r \in Seq(Event),
           NEW F, NEW n
    PROVE  /\ SubSeq(q, 1, k) \in Seq(Event)
           /\ Ordered(q, F) => Ordered(SubSeq(q, 1, k), F)
           /\ Before(r, q, F) => Before(r, SubSeq(q, 1, k), F)
           /\ Past(q, F, n) => Past(SubSeq(q, 1, k), F, n)
<1>1. /\ SubSeq(q, 1, k) \in Seq(Event)
      /\ Len(SubSeq(q, 1, k)) = k
      /\ \A i \in 1 .. k : SubSeq(q, 1, k)[i] = q[i]
  BY SubSeqProperties
<1>2. 1 .. k \subseteq 1 .. Len(q)
  OBVIOUS
<1>3. QED
  BY <1>1, <1>2 DEF Ordered, Before, Past

LEMMA ConcatEvents ==
    ASSUME NEW q \in Seq(Event), NEW r \in Seq(Event), NEW F,
           Ordered(q, F), Ordered(r, F), Before(q, r, F)
    PROVE  Ordered(q \o r, F)
<1>1. /\ Len(q \o r) = Len(q) + Len(r)
      /\ \A k \in 1 .. Len(q) + Len(r) :
            (q \o r)[k] = IF k <= Len(q) THEN q[k] ELSE r[k - Len(q)]
      /\ Len(q) \in Nat /\ Len(r) \in Nat
  BY ConcatProperties
<1> DEFINE seen == q \o r
<1> HIDE DEF seen
<1>2. SUFFICES ASSUME NEW i \in 1 .. Len(seen), NEW j \in 1 .. Len(seen),
                      i < j, seen[i].from = seen[j].from,
                      seen[i] \notin F, seen[j] \notin F
               PROVE  seen[i].number < seen[j].number
  BY DEF Ordered, seen
<1>3. CASE j <= Len(q)
  <2>1. /\ i \in 1 .. Len(q) /\ j \in 1 .. Len(q)
        /\ seen[i] = q[i] /\ seen[j] = q[j]
    BY <1>1, <1>2, <1>3 DEF seen
  <2>2. QED
    BY <1>2, <2>1 DEF Ordered
<1>4. CASE i <= Len(q) /\ j > Len(q)
  <2>1. /\ i \in 1 .. Len(q) /\ j - Len(q) \in 1 .. Len(r)
        /\ seen[i] = q[i] /\ seen[j] = r[j - Len(q)]
    BY <1>1, <1>2, <1>4 DEF seen
  <2>2. QED
    BY <1>2, <2>1 DEF Before
<1>5. CASE i > Len(q)
  <2>1. /\ i - Len(q) \in 1 .. Len(r) /\ j - Len(q) \in 1 .. Len(r)
        /\ i - Len(q) < j - Len(q)
        /\ seen[i] = r[i - Len(q)] /\ seen[j] = r[j - Len(q)]
    BY <1>1, <1>2, <1>5 DEF seen
  <2>2. QED
    BY <1>2, <2>1 DEF Ordered
<1>6. QED
  BY <1>1, <1>2, <1>3, <1>4, <1>5 DEF seen

(* Nothing is in order, and before everything. *)
LEMMA NoEvents ==
    ASSUME NEW r, NEW F, NEW n
    PROVE  /\ Ordered(<<>>, F) /\ Past(<<>>, F, n)
           /\ Before(<<>>, r, F) /\ Before(r, <<>>, F)
BY DEF Ordered, Past, Before

(* An event that has failed is no concern of theirs. *)
LEMMA FaultedEvent ==
    ASSUME NEW q, NEW F, NEW e \in F, NEW n
    PROVE  Before(q, <<e>>, F) /\ Before(<<e>>, q, F) /\ Past(<<e>>, F, n)
BY DEF Before, Past

(* More events have failed, and more have been published. *)
LEMMA LaterOn ==
    ASSUME NEW q \in Seq(Event), NEW r \in Seq(Event), NEW F, NEW G,
           F \subseteq G,
           NEW n \in [Publisher -> Nat], NEW m \in [Publisher -> Nat],
           \A p \in Publisher : n[p] <= m[p]
    PROVE  /\ Ordered(q, F) => Ordered(q, G)
           /\ Before(q, r, F) => Before(q, r, G)
           /\ Past(q, F, n) => Past(q, G, m)
<1>1. Ordered(q, F) => Ordered(q, G)
  BY DEF Ordered
<1>2. Before(q, r, F) => Before(q, r, G)
  BY DEF Before
<1>3. ASSUME Past(q, F, n), NEW i \in 1 .. Len(q), q[i] \notin G
      PROVE  q[i].number < m[q[i].from]
  <2>1. q[i] \in Event
    BY ElementOfSeq
  <2>2. q[i].from \in Publisher /\ q[i].number \in 1 .. MaxEvents
    BY <2>1 DEF Event
  <2>3. q[i].number < n[q[i].from]
    BY <1>3 DEF Past
  <2>4. QED
    BY <2>2, <2>3, StreamAssumption
<1>4. QED
  BY <1>1, <1>2, <1>3 DEF Past

-----------------------------------------------------------------------------

(* Publish keeps the channels in their type and within their capacity. *)
LEMMA PublishKeepsType ==
    ASSUME TypeOK, NEW e \in Event, Publish(e)
    PROVE  /\ channel' \in [Stream -> Seq(Event)]
           /\ \A s \in Stream : Len(channel'[s]) <= Capacity
<1>1. ASSUME NEW s \in Stream
      PROVE  /\ Append(channel[s], e) \in Seq(Event)
             /\ Len(Append(channel[s], e)) = Len(channel[s]) + 1
             /\ Len(channel[s]) \in Nat
             /\ channel[s] \in Seq(Event)
  <2>1. channel[s] \in Seq(Event)
    BY DEF TypeOK
  <2>2. QED
    BY <2>1, AppendProperties
<1>2. QED
  BY <1>1, StreamAssumption DEF TypeOK, Publish, Full

(* Every variable has its type, no channel holds more than it has room for,
   and no publisher is under way with an event beyond the last. *)
THEOREM StreamTypeOK == Spec => [](TypeOK /\ Numbered)
<1> USE DEF Numbered
<1>1. Init => TypeOK /\ Numbered
  BY StreamAssumption, EmptySeq DEF Init, TypeOK
<1>2. TypeOK /\ Numbered /\ [Next]_vars => (TypeOK /\ Numbered)'
  <2> SUFFICES ASSUME TypeOK, Numbered, [Next]_vars
               PROVE  (TypeOK /\ Numbered)'
    OBVIOUS
  <2>1. ASSUME NEW p \in Publisher, call[p] # "idle"
        PROVE  Current(p) \in Event /\ next[p] + 1 \in 1 .. MaxEvents + 1
    BY <2>1, StreamAssumption DEF TypeOK, Current, Event
  <2>2. ASSUME NEW e \in Event, Take(e)
        PROVE  wire' \in Seq(Event)
    BY <2>2, AppendProperties DEF TypeOK, Take
  <2>3. ASSUME NEW p \in Publisher, Begin(p)
        PROVE  (TypeOK /\ Numbered)'
    BY <2>3 DEF Begin, TypeOK, busVars
  <2>4. ASSUME NEW p \in Publisher, Accept(p)
        PROVE  (TypeOK /\ Numbered)'
    <3>1. wire' \in Seq(Event)
      BY <2>1, <2>2, <2>4 DEF Accept
    <3>2. QED
      BY <2>1, <2>4, <3>1 DEF Accept, Return, TypeOK, busVars
  <2>5. ASSUME NEW p \in Publisher, Fail(p)
        PROVE  (TypeOK /\ Numbered)'
    <3>1. faults' \in 0 .. MaxFaults
      BY <2>5, StreamAssumption DEF Fail, Fault, TypeOK
    <3>2. faulted' \subseteq Event /\ stray' \subseteq Event
      BY <2>1, <2>5 DEF Fail, TypeOK
    <3>3. /\ call' \in [Publisher -> {"idle", "calling", "failed"}]
          /\ next' = next
          /\ Numbered'
      BY <2>5 DEF Fail, TypeOK
    <3>4. QED
      BY <2>5, <3>1, <3>2, <3>3 DEF Fail, TypeOK, busVars
  <2>6. ASSUME NEW p \in Publisher, FallBack(p)
        PROVE  (TypeOK /\ Numbered)'
    <3>1. /\ channel' \in [Stream -> Seq(Event)]
          /\ \A s \in Stream : Len(channel'[s]) <= Capacity
      BY <2>1, <2>6, PublishKeepsType DEF FallBack, TypeOK
    <3>2. QED
      BY <2>1, <2>6, <3>1 DEF FallBack, Return, TypeOK
  <2>7. ASSUME NEW e \in stray, Stray(e)
        PROVE  (TypeOK /\ Numbered)'
    <3>1. wire' \in Seq(Event)
      BY <2>2, <2>7 DEF Stray, TypeOK
    <3>2. QED
      BY <2>7, <3>1 DEF Stray, TypeOK, busVars
  <2>8. CASE Forward
    <3>1. Head(wire) \in Event /\ Tail(wire) \in Seq(Event)
      BY <2>8, HeadTailProperties DEF Forward, TypeOK
    <3>2. /\ channel' \in [Stream -> Seq(Event)]
          /\ \A s \in Stream : Len(channel'[s]) <= Capacity
      BY <2>8, <3>1, PublishKeepsType DEF Forward
    <3>3. QED
      BY <2>8, <3>1, <3>2 DEF Forward, TypeOK
  <2>9. CASE Disconnect
    <3>1. wire' \in Seq(Event)
      BY <2>9, KeepEvents DEF Disconnect, TypeOK
    <3>2. QED
      BY <2>9, <3>1, StreamAssumption DEF Disconnect, Fault, TypeOK, busVars
  <2>10. CASE Reconnect
    BY <2>10 DEF Reconnect, TypeOK, busVars
  <2>11. CASE StopBridge
    BY <2>11, EmptySeq DEF StopBridge, TypeOK, busVars
  <2>12. ASSUME NEW s \in Stream, Subscribe(s)
         PROVE  (TypeOK /\ Numbered)'
    BY <2>12 DEF Subscribe, TypeOK
  <2>13. ASSUME NEW s \in Stream, Write(s)
         PROVE  (TypeOK /\ Numbered)'
    <3>1. channel[s] \in Seq(Event) /\ written[s] \in Seq(Event)
      BY DEF TypeOK
    <3>2. /\ Head(channel[s]) \in Event
          /\ Tail(channel[s]) \in Seq(Event)
          /\ Len(Tail(channel[s])) = Len(channel[s]) - 1
      BY <2>13, <3>1, HeadTailProperties DEF Write
    <3>3. Append(written[s], Head(channel[s])) \in Seq(Event)
      BY <3>1, <3>2, AppendProperties
    <3>4. Len(channel[s]) \in Nat
      BY <3>1
    <3>5. QED
      BY <2>13, <3>2, <3>3, <3>4, StreamAssumption DEF Write, TypeOK
  <2>14. ASSUME NEW s \in Stream, Leave(s)
         PROVE  (TypeOK /\ Numbered)'
    BY <2>14 DEF Leave, TypeOK
  <2>15. ASSUME NEW s \in Stream, Unsubscribe(s)
         PROVE  (TypeOK /\ Numbered)'
    BY <2>15, EmptySeq, StreamAssumption DEF Unsubscribe, TypeOK
  <2>16. CASE UNCHANGED vars
    BY <2>16 DEF vars, TypeOK
  <2>17. QED
    BY <2>3, <2>4, <2>5, <2>6, <2>7, <2>8, <2>9, <2>10, <2>11, <2>12, <2>13,
       <2>14, <2>15, <2>16 DEF Next, PublishEvent
<1>3. QED
  BY <1>1, <1>2, PTL DEF Spec

(* A channel is closed by the last thing its handler does. *)
ClosedAtTheEnd == \A s \in closed : handler[s] = "gone"

(* No one sends on a closed channel, closes one twice or reads from one. *)
THEOREM StreamChannels == Spec => []ChannelsAreOpen
<1> USE DEF ChannelsAreOpen, ClosedAtTheEnd
<1>1. Init => ChannelsAreOpen /\ ClosedAtTheEnd
  BY DEF Init
<1>2. TypeOK /\ ChannelsAreOpen /\ ClosedAtTheEnd /\ [Next]_vars
        => (ChannelsAreOpen /\ ClosedAtTheEnd)'
  <2> SUFFICES ASSUME TypeOK, ChannelsAreOpen, ClosedAtTheEnd, [Next]_vars
               PROVE  (ChannelsAreOpen /\ ClosedAtTheEnd)'
    OBVIOUS
  <2>1. ASSUME NEW s \in Stream, Subscribe(s)
        PROVE  (ChannelsAreOpen /\ ClosedAtTheEnd)'
    BY <2>1 DEF Subscribe, TypeOK
  <2>2. ASSUME NEW s \in Stream, Leave(s)
        PROVE  (ChannelsAreOpen /\ ClosedAtTheEnd)'
    BY <2>2 DEF Leave, TypeOK
  <2>3. ASSUME NEW s \in Stream, Unsubscribe(s)
        PROVE  (ChannelsAreOpen /\ ClosedAtTheEnd)'
    BY <2>3 DEF Unsubscribe, TypeOK
  <2>4. CASE UNCHANGED <<handler, subscribers, closed>>
    BY <2>4
  <2>5. QED
    BY <2>1, <2>2, <2>3, <2>4
       DEF Next, PublishEvent, Begin, Accept, Fail, FallBack, Stray, Forward,
           Disconnect, Reconnect, StopBridge, Write, vars, busVars
<1>3. QED
  BY <1>1, <1>2, StreamTypeOK, PTL DEF Spec

-----------------------------------------------------------------------------

(* What did not come by the first call for an event is known to have failed. *)
LEMMA StreamFaultsKnown == Spec => []FaultsKnown
<1> USE DEF FaultsKnown, Current
<1>1. Init => FaultsKnown
  BY DEF Init
<1>2. TypeOK /\ FaultsKnown /\ [Next]_vars => FaultsKnown'
  <2> SUFFICES ASSUME TypeOK, FaultsKnown, [Next]_vars
               PROVE  FaultsKnown'
    OBVIOUS
  <2>1. ASSUME NEW p \in Publisher, Begin(p)
        PROVE  FaultsKnown'
    BY <2>1 DEF Begin, TypeOK
  <2>2. ASSUME NEW p \in Publisher, Return(p), UNCHANGED <<stray, faulted>>
        PROVE  FaultsKnown'
    BY <2>2 DEF Return, TypeOK
  <2>3. ASSUME NEW p \in Publisher, Fail(p)
        PROVE  FaultsKnown'
    BY <2>3 DEF Fail, TypeOK
  <2>4. ASSUME NEW e \in stray, Stray(e)
        PROVE  FaultsKnown'
    BY <2>4 DEF Stray
  <2>5. CASE UNCHANGED <<next, call, stray, faulted>>
    BY <2>5
  <2>6. QED
    BY <2>1, <2>2, <2>3, <2>4, <2>5
       DEF Next, PublishEvent, Accept, FallBack, Forward, Disconnect,
           Reconnect, StopBridge, Subscribe, Write, Leave, Unsubscribe, vars,
           busVars
<1>3. QED
  BY <1>1, <1>2, StreamTypeOK, PTL DEF Spec

(* The bus puts an event into a channel that comes after what the stream had
   and before what is still on the wire. *)
LEMMA PublishInOrder ==
    ASSUME TypeOK, AllInOrder, NEW e \in Event, Publish(e),
           Past(<<e>>, faulted, next),
           \A s \in Stream : /\ Before(channel[s], <<e>>, faulted)
                             /\ Before(written[s], <<e>>, faulted),
           NEW w \in Seq(Event),
           Before(<<e>>, w, faulted),
           \A s \in Stream : Before(channel[s], w, faulted)
    PROVE  \A s \in Stream :
              /\ Ordered(channel'[s], faulted)
              /\ Before(written[s], channel'[s], faulted)
              /\ Before(channel'[s], w, faulted)
              /\ Past(channel'[s], faulted, next)
<1> SUFFICES ASSUME NEW s \in Stream
             PROVE  /\ Ordered(channel'[s], faulted)
                    /\ Before(written[s], channel'[s], faulted)
                    /\ Before(channel'[s], w, faulted)
                    /\ Past(channel'[s], faulted, next)
  OBVIOUS
<1>1. channel[s] \in Seq(Event) /\ written[s] \in Seq(Event)
  BY DEF TypeOK
<1>2. CASE channel'[s] = channel[s]
  BY <1>2 DEF AllInOrder
<1>3. CASE channel'[s] = Append(channel[s], e)
  <2>1. Ordered(channel'[s], faulted) /\ Past(channel'[s], faulted, next)
    BY <1>1, <1>3, AppendEvent DEF AllInOrder
  <2>2. Before(written[s], channel'[s], faulted)
    BY <1>1, <1>3, AppendEvent DEF AllInOrder
  <2>3. Before(channel'[s], w, faulted)
    BY <1>1, <1>3, AppendEvent
  <2>4. QED
    BY <2>1, <2>2, <2>3
<1>4. QED
  BY <1>2, <1>3 DEF Publish

(* Redis takes an event that comes after all that is under way. *)
LEMMA TakeInOrder ==
    ASSUME TypeOK, AllInOrder, NEW e \in Event, Take(e),
           Before(wire, <<e>>, faulted),
           \A s \in Stream : /\ Before(channel[s], <<e>>, faulted)
                             /\ Before(written[s], <<e>>, faulted)
    PROVE  /\ Ordered(wire', faulted)
           /\ \A s \in Stream : /\ Before(written[s], wire', faulted)
                                /\ Before(channel[s], wire', faulted)
<1>1. CASE wire' = wire
  BY <1>1 DEF AllInOrder
<1>2. CASE wire' = Append(wire, e)
  <2>1. wire \in Seq(Event)
    BY DEF TypeOK
  <2>2. Ordered(wire', faulted)
    BY <1>2, <2>1, AppendEvent DEF AllInOrder
  <2>3. ASSUME NEW s \in Stream
        PROVE  /\ Before(written[s], wire', faulted)
               /\ Before(channel[s], wire', faulted)
    <3>1. channel[s] \in Seq(Event) /\ written[s] \in Seq(Event)
      BY DEF TypeOK
    <3>2. QED
      BY <1>2, <2>1, <3>1, AppendEvent DEF AllInOrder
  <2>4. QED
    BY <2>2, <2>3
<1>3. QED
  BY <1>1, <1>2 DEF Take

(* While the sequences stay, failures and publications do not disturb them. *)
LEMMA StaysInOrder ==
    ASSUME TypeOK, TypeOK', AllInOrder, faulted \subseteq faulted',
           \A p \in Publisher : next[p] <= next'[p],
           UNCHANGED <<wire, channel, written>>
    PROVE  AllInOrder'
<1>1. /\ next \in [Publisher -> Nat] /\ next' \in [Publisher -> Nat]
      /\ wire \in Seq(Event)
      /\ \A s \in Stream : channel[s] \in Seq(Event) /\ written[s] \in Seq(Event)
  BY StreamAssumption DEF TypeOK
<1>2. ASSUME NEW q \in Seq(Event), NEW r \in Seq(Event)
      PROVE  /\ Ordered(q, faulted) => Ordered(q, faulted')
             /\ Before(q, r, faulted) => Before(q, r, faulted')
             /\ Past(q, faulted, next) => Past(q, faulted', next')
  BY <1>1, LaterOn
<1>3. Ordered(wire, faulted') /\ Past(wire, faulted', next')
  BY <1>1, <1>2 DEF AllInOrder
<1>4. ASSUME NEW s \in Stream
      PROVE  /\ Ordered(channel[s], faulted') /\ Ordered(written[s], faulted')
             /\ Before(written[s], channel[s], faulted')
             /\ Before(written[s], wire, faulted')
             /\ Before(channel[s], wire, faulted')
             /\ Past(channel[s], faulted', next')
             /\ Past(written[s], faulted', next')
  BY <1>1, <1>2 DEF AllInOrder
<1>5. QED
  BY <1>3, <1>4 DEF AllInOrder

(* What is under way was published before the event under way. *)
LEMMA CurrentIsLast ==
    ASSUME TypeOK, NEW p \in Publisher, NEW q, Past(q, faulted, next)
    PROVE  Before(q, <<Current(p)>>, faulted)
BY DEF Before, Past, Current

(* A client sees the events of a publisher in their order and each once,
   unless a call failed for them. *)
THEOREM StreamOrder == Spec => []StreamsInOrder
<1>1. Init => AllInOrder
  BY NoEvents DEF Init, AllInOrder
<1>2. IInv /\ TypeOK' /\ [Next]_vars => AllInOrder'
  <2> SUFFICES ASSUME TypeOK, Numbered, FaultsKnown, AllInOrder, TypeOK',
                      [Next]_vars
               PROVE  AllInOrder'
    BY DEF IInv
  <2>1. ASSUME NEW s \in Stream
        PROVE  channel[s] \in Seq(Event) /\ written[s] \in Seq(Event)
    BY DEF TypeOK
  <2>2. wire \in Seq(Event) /\ wire' \in Seq(Event)
    BY DEF TypeOK
  <2>3. ASSUME NEW p \in Publisher, call[p] # "idle"
        PROVE  Current(p) \in Event
    BY <2>3, StreamAssumption DEF TypeOK, Numbered, Current, Event
  <2>4. ASSUME NEW p \in Publisher, Return(p)
        PROVE  /\ \A r \in Publisher : next[r] <= next'[r]
               /\ next'[p] = next[p] + 1
    BY <2>4, StreamAssumption DEF Return, TypeOK
  <2>5. ASSUME NEW p \in Publisher, Accept(p)
        PROVE  AllInOrder'
    <3> DEFINE e == Current(p)
    <3>1. /\ e \in Event
          /\ Before(wire, <<e>>, faulted)
          /\ \A s \in Stream : /\ Before(channel[s], <<e>>, faulted)
                               /\ Before(written[s], <<e>>, faulted)
      BY <2>3, <2>5, CurrentIsLast DEF Accept, AllInOrder
    <3>2. /\ Ordered(wire', faulted)
          /\ \A s \in Stream : /\ Before(written[s], wire', faulted)
                               /\ Before(channel[s], wire', faulted)
      BY <2>5, <3>1, TakeInOrder DEF Accept
    <3>3. /\ next \in [Publisher -> Nat] /\ next' \in [Publisher -> Nat]
          /\ \A r \in Publisher : next[r] <= next'[r]
      BY <2>4, <2>5, StreamAssumption DEF Accept, TypeOK
    <3>4. ASSUME NEW q \in Seq(Event), Past(q, faulted, next)
          PROVE  Past(q, faulted, next')
      BY <3>3, <3>4, LaterOn
    <3>5. Past(<<e>>, faulted, next')
      <4>1. e.number < next'[e.from]
        BY <2>4, <2>5, StreamAssumption DEF Accept, Current, TypeOK
      <4>2. QED
        BY <4>1 DEF Past
    <3>6. Past(wire', faulted, next')
      BY <2>2, <2>5, <3>1, <3>4, <3>5, AppendEvent
         DEF Accept, Take, AllInOrder
    <3>7. QED
      BY <2>1, <2>5, <3>2, <3>4, <3>6 DEF Accept, AllInOrder, busVars
  <2>6. ASSUME NEW p \in Publisher, Begin(p) \/ Fail(p)
        PROVE  AllInOrder'
    <3>1. /\ faulted \subseteq faulted' /\ next' = next
          /\ UNCHANGED <<wire, channel, written>>
      BY <2>6 DEF Begin, Fail, busVars
    <3>2. \A r \in Publisher : next[r] <= next'[r]
      BY <3>1, StreamAssumption DEF TypeOK
    <3>3. QED
      BY <3>1, <3>2, StaysInOrder
  <2>7. ASSUME NEW p \in Publisher, FallBack(p)
        PROVE  AllInOrder'
    <3> DEFINE e == Current(p)
    <3>1. e \in Event /\ e \in faulted
      BY <2>3, <2>7 DEF FallBack, FaultsKnown
    <3>2. ASSUME Publish(e)
          PROVE  \A s \in Stream :
                    /\ Ordered(channel'[s], faulted)
                    /\ Before(written[s], channel'[s], faulted)
                    /\ Before(channel'[s], wire, faulted)
                    /\ Past(channel'[s], faulted, next)
      <4>1. /\ Past(<<e>>, faulted, next) /\ Before(<<e>>, wire, faulted)
            /\ \A s \in Stream : /\ Before(channel[s], <<e>>, faulted)
                                 /\ Before(written[s], <<e>>, faulted)
        BY <3>1, FaultedEvent
      <4>2. \A s \in Stream : Before(channel[s], wire, faulted)
        BY DEF AllInOrder
      <4> HIDE DEF e
      <4>3. QED
        BY <2>2, <3>1, <3>2, <4>1, <4>2, PublishInOrder
    <3>3. \A s \in Stream :
             /\ Ordered(channel'[s], faulted)
             /\ Before(written[s], channel'[s], faulted)
             /\ Before(channel'[s], wire, faulted)
             /\ Past(channel'[s], faulted, next)
      BY <2>7, <3>2 DEF FallBack, AllInOrder
    <3>4. /\ next \in [Publisher -> Nat] /\ next' \in [Publisher -> Nat]
          /\ \A r \in Publisher : next[r] <= next'[r]
      BY <2>4, <2>7, StreamAssumption DEF FallBack, TypeOK
    <3>5. ASSUME NEW q \in Seq(Event), Past(q, faulted, next)
          PROVE  Past(q, faulted, next')
      BY <3>4, <3>5, LaterOn
    <3>6. \A s \in Stream : channel'[s] \in Seq(Event)
      BY DEF TypeOK
    <3>7. QED
      BY <2>1, <2>2, <2>7, <3>3, <3>5, <3>6 DEF FallBack, AllInOrder
  <2>8. ASSUME NEW e \in stray, Stray(e)
        PROVE  AllInOrder'
    <3>1. e \in Event /\ e \in faulted
      BY <2>8 DEF FaultsKnown, TypeOK
    <3>2. \A q : Before(q, <<e>>, faulted) /\ Past(<<e>>, faulted, next)
      BY <3>1, FaultedEvent
    <3>3. CASE Take(e)
      <4>1. /\ Ordered(wire', faulted)
            /\ \A s \in Stream : /\ Before(written[s], wire', faulted)
                                 /\ Before(channel[s], wire', faulted)
        BY <3>1, <3>2, <3>3, TakeInOrder
      <4>2. Past(wire', faulted, next)
        BY <2>2, <3>1, <3>2, <3>3, AppendEvent DEF Take, AllInOrder
      <4>3. QED
        BY <2>8, <4>1, <4>2 DEF Stray, AllInOrder, busVars
    <3>4. CASE wire' = wire
      BY <2>8, <3>4 DEF Stray, AllInOrder, busVars
    <3>5. QED
      BY <2>8, <3>3, <3>4 DEF Stray
  <2>9. CASE Forward
    <3> DEFINE e == Head(wire)
    <3>1. wire # <<>> /\ wire' = Tail(wire) /\ Publish(e)
      BY <2>9 DEF Forward
    <3>2. /\ e \in Event
          /\ Ordered(wire', faulted) /\ Before(<<e>>, wire', faulted)
          /\ Past(wire', faulted, next) /\ Past(<<e>>, faulted, next)
      BY <2>2, <3>1, TakeEvent DEF AllInOrder
    <3>3. ASSUME NEW q \in Seq(Event), Before(q, wire, faulted)
          PROVE  Before(q, wire', faulted) /\ Before(q, <<e>>, faulted)
      BY <2>2, <3>1, <3>3, TakeEvent
    <3>4. \A s \in Stream :
             /\ Before(channel[s], <<e>>, faulted)
             /\ Before(written[s], <<e>>, faulted)
             /\ Before(channel[s], wire', faulted)
             /\ Before(written[s], wire', faulted)
      BY <2>1, <3>3 DEF AllInOrder
    <3> HIDE DEF e
    <3>5. \A s \in Stream :
             /\ Ordered(channel'[s], faulted)
             /\ Before(written[s], channel'[s], faulted)
             /\ Before(channel'[s], wire', faulted)
             /\ Past(channel'[s], faulted, next)
      BY <2>2, <3>1, <3>2, <3>4, PublishInOrder
    <3>6. QED
      BY <2>9, <3>2, <3>4, <3>5 DEF Forward, AllInOrder
  <2>10. CASE Disconnect
    <3>1. PICK k \in 0 .. Len(wire) : wire' = SubSeq(wire, 1, k)
      BY <2>10 DEF Disconnect
    <3>2. Ordered(wire', faulted) /\ Past(wire', faulted, next)
      BY <2>2, <3>1, KeepEvents DEF AllInOrder
    <3>3. ASSUME NEW q \in Seq(Event), Before(q, wire, faulted)
          PROVE  Before(q, wire', faulted)
      BY <2>2, <3>1, <3>3, KeepEvents
    <3>4. QED
      BY <2>1, <2>10, <3>2, <3>3 DEF Disconnect, AllInOrder, busVars
  <2>11. CASE StopBridge
    BY <2>11, NoEvents DEF StopBridge, AllInOrder, busVars
  <2>12. ASSUME NEW s \in Stream, Write(s)
         PROVE  AllInOrder'
    <3> DEFINE e == Head(channel[s])
    <3>1. /\ channel[s] # <<>>
          /\ written' = [written EXCEPT ![s] = Append(written[s], e)]
          /\ channel' = [channel EXCEPT ![s] = Tail(channel[s])]
          /\ UNCHANGED <<wire, faulted, next>>
      BY <2>12 DEF Write
    <3>2. /\ e \in Event
          /\ channel'[s] = Tail(channel[s])
          /\ written'[s] = Append(written[s], e)
          /\ channel'[s] \in Seq(Event)
      BY <2>1, <3>1, TakeEvent DEF TypeOK
    <3>3. /\ Ordered(channel'[s], faulted)
          /\ Before(<<e>>, channel'[s], faulted)
          /\ Before(<<e>>, wire, faulted) /\ Before(channel'[s], wire, faulted)
          /\ Past(channel'[s], faulted, next) /\ Past(<<e>>, faulted, next)
          /\ Before(written[s], <<e>>, faulted)
          /\ Before(written[s], channel'[s], faulted)
      BY <2>1, <2>2, <3>1, <3>2, TakeEvent DEF AllInOrder
    <3> HIDE DEF e
    <3>4. /\ Ordered(written'[s], faulted)
          /\ Before(written'[s], channel'[s], faulted)
          /\ Before(written'[s], wire, faulted)
          /\ Past(written'[s], faulted, next)
      <4> DEFINE q == written[s]
                 r == channel'[s]
      <4>1. /\ q \in Seq(Event) /\ r \in Seq(Event) /\ written'[s] = Append(q, e)
            /\ Ordered(q, faulted) /\ Before(q, wire, faulted)
            /\ Past(q, faulted, next)
            /\ Before(q, <<e>>, faulted) /\ Before(q, r, faulted)
            /\ Before(<<e>>, r, faulted)
        BY <2>1, <3>2, <3>3 DEF AllInOrder
      <4> HIDE DEF q, r
      <4>2. Ordered(Append(q, e), faulted) /\ Past(Append(q, e), faulted, next)
        BY <3>2, <3>3, <4>1, AppendEvent
      <4>3. Before(Append(q, e), r, faulted)
        BY <3>2, <4>1, AppendEvent
      <4>4. Before(Append(q, e), wire, faulted)
        BY <2>2, <3>2, <3>3, <4>1, AppendEvent
      <4>5. QED
        BY <4>1, <4>2, <4>3, <4>4 DEF r
    <3>5. \A t \in Stream \ {s} : /\ channel'[t] = channel[t]
                                  /\ written'[t] = written[t]
      BY <3>1 DEF TypeOK
    <3>6. QED
      BY <3>1, <3>3, <3>4, <3>5 DEF AllInOrder
  <2>13. ASSUME NEW s \in Stream, Unsubscribe(s)
         PROVE  AllInOrder'
    <3>1. /\ channel'[s] = <<>>
          /\ \A t \in Stream \ {s} : channel'[t] = channel[t]
          /\ UNCHANGED <<written, wire, faulted, next>>
      BY <2>13 DEF Unsubscribe, TypeOK
    <3>2. QED
      BY <3>1, NoEvents DEF AllInOrder
  <2>14. CASE UNCHANGED <<wire, channel, written, faulted, next>>
    BY <2>14 DEF AllInOrder
  <2>15. QED
    BY <2>5, <2>6, <2>7, <2>8, <2>9, <2>10, <2>11, <2>12, <2>13, <2>14
       DEF Next, PublishEvent, Reconnect, Subscribe, Leave, vars, busVars
<1>3. IInv => StreamsInOrder
  <2> SUFFICES ASSUME TypeOK, AllInOrder, NEW s \in Stream
               PROVE  Ordered(written[s] \o channel[s], faulted)
    BY DEF IInv, StreamsInOrder, Ordered
  <2>1. written[s] \in Seq(Event) /\ channel[s] \in Seq(Event)
    BY DEF TypeOK
  <2>2. QED
    BY <2>1, ConcatEvents DEF AllInOrder
<1>4. QED
  BY <1>1, <1>2, <1>3, StreamTypeOK, StreamFaultsKnown, PTL DEF Spec, IInv

=============================================================================
