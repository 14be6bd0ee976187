----------------------------- MODULE EventStream -----------------------------
(***************************************************************************)
(* Events on their way to the consoles: PublishEvent sends one through     *)
(* Redis, the bridge of a server process takes it from there to the bus in *)
(* memory (ForwardRedis), the bus to the channel of each event stream, and *)
(* the handler of the stream writes it to the client.                      *)
(*                                                                         *)
(* Redis and its client are external.  What the code relies on: a message  *)
(* goes to whoever is subscribed when Redis takes it, in the order in      *)
(* which Redis took them; a subscription is renewed by itself, and what    *)
(* was under way meanwhile is lost; a call that fails may have sent the    *)
(* message, may be tried again by the client, and a copy it left behind    *)
(* may reach Redis later.                                                  *)
(*                                                                         *)
(* There is one server process; publishers are its own goroutines or live  *)
(* in another process.  The mutex of the bus makes each of its methods one *)
(* step.                                                                   *)
(***************************************************************************)
EXTENDS Naturals, FiniteSets, Sequences, SequencesExt

CONSTANTS
    Publisher,      \* goroutines that publish, each one event after another
    Local,          \* those in the server's process
    Stream,         \* requests for /api/events, each with one subscription
    Capacity,       \* of a stream's channel: 16
    MaxEvents,      \* bound: events of a publisher
    MaxFaults       \* bound: calls of Redis that fail
                    \* and subscriptions that break

ASSUME StreamAssumption ==
    /\ Local \subseteq Publisher
    /\ Capacity \in Nat \ {0}
    /\ MaxEvents \in Nat
    /\ MaxFaults \in Nat

VARIABLES
    next,           \* next[p]: the event p publishes next or is publishing
    call,           \* call[p]: where p is in PublishEvent
    stray,          \* copies that failed calls left on their way to Redis
    faulted,        \* history: events a call has failed for
    bridge,         \* whether the bridge runs and is subscribed
    wire,           \* messages Redis has sent to the bridge
    handler,        \* handler[s]: the state of stream s
    subscribers,    \* the streams the bus knows
    channel,        \* channel[s]: what the bus has put in the stream's channel
    closed,         \* the streams whose channel is closed
    written,        \* history: what the clients were sent
    faults          \* faults so far

vars == <<next, call, stray, faulted, bridge, wire, handler, subscribers,
          channel, closed, written, faults>>

busVars == <<handler, subscribers, channel, closed, written>>

Event == [from : Publisher, number : 1 .. MaxEvents]

Current(p) == [from |-> p, number |-> next[p]]

Fault ==
    /\ faults < MaxFaults
    /\ faults' = faults + 1

-----------------------------------------------------------------------------

Init ==
    /\ next = [p \in Publisher |-> 1]
    /\ call = [p \in Publisher |-> "idle"]
    /\ stray = {}
    /\ faulted = {}
    /\ bridge = "subscribed"
    /\ wire = <<>>
    /\ handler = [s \in Stream |-> "none"]
    /\ subscribers = {}
    /\ channel = [s \in Stream |-> <<>>]
    /\ closed = {}
    /\ written = [s \in Stream |-> <<>>]
    /\ faults = 0

(***************************************************************************)
(* Bus                                                                     *)
(***************************************************************************)

Subscribe(s) ==
    /\ handler[s] = "none"
    /\ handler' = [handler EXCEPT ![s] = "streaming"]
    /\ subscribers' = subscribers \cup {s}
    /\ UNCHANGED <<channel, closed, written, next, call, stray, faulted,
                   bridge, wire, faults>>

(* Mutant of Unsubscribe: the channel is closed and stays known. *)
CloseOnly(s) ==
    /\ handler[s] = "leaving"
    /\ handler' = [handler EXCEPT ![s] = "gone"]
    /\ closed' = closed \cup {s}
    /\ UNCHANGED <<subscribers, channel, written, next, call, stray, faulted,
                   bridge, wire, faults>>

(* The handler's deferred call.  What is left in the channel is never read. *)
Unsubscribe(s) ==
    /\ handler[s] = "leaving"
    /\ handler' = [handler EXCEPT ![s] = "gone"]
    /\ IF s \in subscribers
       THEN /\ subscribers' = subscribers \ {s}
            /\ closed' = closed \cup {s}
       ELSE UNCHANGED <<subscribers, closed>>
    /\ channel' = [channel EXCEPT ![s] = <<>>]
    /\ UNCHANGED <<written, next, call, stray, faulted, bridge, wire, faults>>

Full(s) == Len(channel[s]) = Capacity

(* Mutants of Publish: it waits for room in every channel; it puts one event
   too many; the first full channel ends it. *)
PublishWaiting(e) ==
    /\ \A s \in subscribers : ~ Full(s)
    /\ channel' = [s \in Stream |-> IF s \in subscribers
                                    THEN Append(channel[s], e) ELSE channel[s]]

PublishTooMany(e) ==
    channel' = [s \in Stream |->
                  IF s \in subscribers /\ Len(channel[s]) <= Capacity
                  THEN Append(channel[s], e) ELSE channel[s]]

(* Every channel with room gets the event, a full one goes without. *)
Publish(e) ==
    channel' = [s \in Stream |-> IF s \in subscribers /\ ~ Full(s)
                                 THEN Append(channel[s], e) ELSE channel[s]]

(***************************************************************************)
(* PublishEvent                                                            *)
(***************************************************************************)

Begin(p) ==
    /\ call[p] = "idle"
    /\ next[p] <= MaxEvents
    /\ call' = [call EXCEPT ![p] = "calling"]
    /\ UNCHANGED <<next, stray, faulted, bridge, wire, busVars, faults>>

(* PublishEvent returns. *)
Return(p) ==
    /\ call' = [call EXCEPT ![p] = "idle"]
    /\ next' = [next EXCEPT ![p] = @ + 1]

(* Redis takes a message and sends it to the bridge if that is subscribed. *)
Take(e) == wire' = IF bridge = "subscribed" THEN Append(wire, e) ELSE wire

Accept(p) ==
    /\ call[p] = "calling"
    /\ Take(Current(p))
    /\ Return(p)
    /\ UNCHANGED <<stray, faulted, bridge, busVars, faults>>

(* An attempt of the client fails; it makes another one or gives up. *)
Fail(p) ==
    /\ call[p] = "calling"
    /\ Fault
    /\ faulted' = faulted \cup {Current(p)}
    /\ stray' \in {stray, stray \cup {Current(p)}}
    /\ \/ UNCHANGED call
       \/ call' = [call EXCEPT ![p] = "failed"]
    /\ UNCHANGED <<next, bridge, wire, busVars>>

(* The event goes to the bus of the publisher's own process; only the
   server's has streams. *)
FallBack(p) ==
    /\ call[p] = "failed"
    /\ IF p \in Local THEN Publish(Current(p)) ELSE UNCHANGED channel
    /\ Return(p)
    /\ UNCHANGED <<stray, faulted, bridge, wire, handler, subscribers, closed,
                   written, faults>>

(* A copy left behind reaches Redis, or nobody. *)
Stray(e) ==
    /\ stray' = stray \ {e}
    /\ \/ Take(e)
       \/ UNCHANGED wire
    /\ UNCHANGED <<next, call, faulted, bridge, busVars, faults>>

(***************************************************************************)
(* ForwardRedis                                                            *)
(***************************************************************************)

(* Mutant of Forward: each message in a goroutine of its own. *)
ForwardAny ==
    /\ bridge # "stopped"
    /\ \E i \in 1 .. Len(wire) :
          /\ wire' = RemoveAt(wire, i)
          /\ Publish(wire[i])
    /\ UNCHANGED <<next, call, stray, faulted, bridge, handler, subscribers,
                   closed, written, faults>>

Forward ==
    /\ bridge # "stopped"
    /\ wire # <<>>
    /\ wire' = Tail(wire)
    /\ Publish(Head(wire))
    /\ UNCHANGED <<next, call, stray, faulted, bridge, handler, subscribers,
                   closed, written, faults>>

(* The subscription breaks, and with it goes what had not yet arrived. *)
Disconnect ==
    /\ bridge = "subscribed"
    /\ Fault
    /\ bridge' = "broken"
    /\ \E n \in 0 .. Len(wire) : wire' = SubSeq(wire, 1, n)
    /\ UNCHANGED <<next, call, stray, faulted, busVars>>

Reconnect ==
    /\ bridge = "broken"
    /\ bridge' = "subscribed"
    /\ UNCHANGED <<next, call, stray, faulted, wire, busVars, faults>>

(* The context of the process is done; the streams may go on for a while. *)
StopBridge ==
    /\ bridge # "stopped"
    /\ bridge' = "stopped"
    /\ wire' = <<>>
    /\ UNCHANGED <<next, call, stray, faulted, busVars, faults>>

(***************************************************************************)
(* The handler of /api/events                                              *)
(***************************************************************************)

Write(s) ==
    /\ handler[s] = "streaming"
    /\ channel[s] # <<>>
    /\ written' = [written EXCEPT ![s] = Append(@, Head(channel[s]))]
    /\ channel' = [channel EXCEPT ![s] = Tail(@)]
    /\ UNCHANGED <<handler, subscribers, closed, next, call, stray, faulted,
                   bridge, wire, faults>>

(* The request's context is done; select may as well have taken an event. *)
Leave(s) ==
    /\ handler[s] = "streaming"
    /\ handler' = [handler EXCEPT ![s] = "leaving"]
    /\ UNCHANGED <<subscribers, channel, closed, written, next, call, stray,
                   faulted, bridge, wire, faults>>

-----------------------------------------------------------------------------

PublishEvent(p) == Accept(p) \/ Fail(p) \/ FallBack(p)

Next ==
    \/ \E p \in Publisher : Begin(p) \/ PublishEvent(p)
    \/ \E e \in stray : Stray(e)
    \/ Forward \/ Disconnect \/ Reconnect \/ StopBridge
    \/ \E s \in Stream : Subscribe(s) \/ Write(s) \/ Leave(s) \/ Unsubscribe(s)

Spec == Init /\ [][Next]_vars

(* Calls of Redis return, and the bridge forwards what it has.  Nothing is
   assumed of the clients: a handler may be stuck in a write for ever. *)
FairSpec ==
    /\ Spec
    /\ \A p \in Publisher : WF_vars(PublishEvent(p))
    /\ WF_vars(Forward)

-----------------------------------------------------------------------------

(* Every variable has its type; no channel holds more than it has room for. *)
TypeOK ==
    /\ next \in [Publisher -> 1 .. MaxEvents + 1]
    /\ call \in [Publisher -> {"idle", "calling", "failed"}]
    /\ stray \subseteq Event
    /\ faulted \subseteq Event
    /\ bridge \in {"subscribed", "broken", "stopped"}
    /\ wire \in Seq(Event)
    /\ handler \in [Stream -> {"none", "streaming", "leaving", "gone"}]
    /\ subscribers \subseteq Stream
    /\ channel \in [Stream -> Seq(Event)]
    /\ \A s \in Stream : Len(channel[s]) <= Capacity
    /\ closed \subseteq Stream
    /\ written \in [Stream -> Seq(Event)]
    /\ faults \in 0 .. MaxFaults

(* No one ever sends on a closed channel, which would panic, or closes it
   twice, and no handler reads from one, which would return empty events for
   ever: a subscriber's channel is open, and a streaming handler subscribes
   (Subscribe, Unsubscribe and the handler's defer). *)
ChannelsAreOpen ==
    /\ subscribers \cap closed = {}
    /\ \A s \in Stream : handler[s] = "streaming" => s \in subscribers

(* A client sees the events of one publisher in the order they were published,
   each once, although they went through Redis, a bridge that reconnects and
   a bus that drops: only events for which a call failed may come out of order
   or twice (PublishEvent, ForwardRedis, Publish, events). *)
StreamsInOrder ==
    \A s \in Stream :
        LET seen == written[s] \o channel[s]
        IN  \A i, j \in 1 .. Len(seen) :
                /\ i < j
                /\ seen[i].from = seen[j].from
                /\ {seen[i], seen[j]} \cap faulted = {}
                => seen[i].number < seen[j].number

(* Publishing ends whatever the clients do: a stream that is not read holds up
   neither the publishers nor the bridge (the default case in Publish). *)
PublishersNeverWait ==
    /\ \A p \in Publisher : call[p] # "idle" ~> call[p] = "idle"
    /\ wire # <<>> ~> wire = <<>>

=============================================================================
