--------------------------- MODULE NotificationsProofs ----------------------
(***************************************************************************)
(* Proofs about Notifications for any connections, peers, protocols and    *)
(* bounds: the behaviour and the handlers of all connections together.     *)
(***************************************************************************)
EXTENDS Notifications, HandlerLemmas

(* A callback for protocol i, h before and g after: the other protocols    *)
(* are left alone, queued events stay queued, and a protocol that becomes  *)
(* open or wanted by the remote has the event that says so in the queue.   *)
Serves(h, g, i) ==
  /\ \A j \in Protocols \ {i} : g.protocols[j] = h.protocols[j]
  /\ \A x : In(x, h.pending_events) => In(x, g.pending_events)
  /\ Unqueued(h) => Unqueued(g)
  /\ g.protocols[i].state = "Open" =>
       h.protocols[i].state = "Open" \/ In(Event("HandshakeCompleted", i), g.pending_events)
  /\ g.protocols[i].state = "OpenDesiredByRemote" =>
       \/ h.protocols[i].state = "OpenDesiredByRemote"
       \/ In(Event("OpenDesiredByRemote", i), g.pending_events)

BrokenSession(p) == p.state = "Open" /\ ~p.outbound_substream

(* Storing a protocol and queueing events, in terms of the queue.          *)
LEMMA StoreQueue ==
  ASSUME NEW h \in Handler, NEW i \in Protocols, NEW p \in ProtocolDetails
  PROVE  LET g == WithProtocol(h, i, p) IN
         /\ g \in Handler /\ g.protocols[i] = p
         /\ \A j \in Protocols \ {i} : g.protocols[j] = h.protocols[j]
         /\ g.pending_events = h.pending_events
  <1>1. h.protocols \in [Protocols -> ProtocolDetails]
    BY DEF Handler
  <1> DEFINE g == WithProtocol(h, i, p)
  <1>2. /\ g \in Handler /\ g.protocols = [h.protocols EXCEPT ![i] = p]
        /\ g.pending_events = h.pending_events
    BY StoreTypes
  <1> HIDE DEF g
  <1>3. g.protocols[i] = p /\ \A j \in Protocols \ {i} : g.protocols[j] = h.protocols[j]
    BY <1>1, <1>2
  <1> QED BY <1>2, <1>3 DEF g

(* Queueing one event.                                                     *)
LEMMA PushQueue ==
  ASSUME NEW h \in Handler, NEW i \in Protocols,
         NEW type \in EventTypes \ {"CloseDesired", "Notification"}
  PROVE  LET g == Push(h, type, i) IN
         /\ g \in Handler /\ g.protocols = h.protocols
         /\ \A x : In(x, g.pending_events) <=> In(x, h.pending_events) \/ x = Event(type, i)
         /\ Unqueued(h) => Unqueued(g)
  <1> DEFINE g == Push(h, type, i)
  <1>1. /\ g \in Handler /\ g.protocols = h.protocols
        /\ g.pending_events = Append(h.pending_events, Event(type, i))
    BY PushTypes
  <1> HIDE DEF g
  <1>2. h.pending_events \in Seq(HandlerEvent)
    BY DEF Handler
  <1>3. \A x : In(x, g.pending_events) <=> In(x, h.pending_events) \/ x = Event(type, i)
    BY <1>1, <1>2, InAppend
  <1>4. \A t \in {"CloseDesired", "Notification"} : \A j : Event(t, j) # Event(type, i)
    BY DEF Event
  <1>5. Unqueued(h) => Unqueued(g)
    BY <1>3, <1>4 DEF Unqueued
  <1> QED BY <1>1, <1>3, <1>5 DEF g

(* on_behaviour_event(Open) answers the remote's wish and breaks nothing.  *)
LEMMA OnOpenServes ==
  ASSUME NEW h \in Handler, NEW i \in Protocols, WellFormed(h.protocols[i])
  PROVE  /\ Serves(h, OnOpen(h, i), i)
         /\ OnOpen(h, i).protocols[i].state # "OpenDesiredByRemote"
         /\ BrokenSession(OnOpen(h, i).protocols[i]) <=> BrokenSession(h.protocols[i])
  <1> DEFINE p == h.protocols[i]
             F == OnOpen(h, i)
             R == RequestSubstream(h, i)
  <1>1. p \in ProtocolDetails /\ p.state \in StateNames
    BY DEF Handler, ProtocolDetails
  <1>2. CASE p.state \in {"Opening", "Open"}
    <2>1. F = h
      BY <1>2, OnOpenCases
    <2> QED BY <1>2, <2>1 DEF Serves
  <1>3. CASE p.state \in {"Closed", "OpenDesiredByRemote"}
    <2>1. PICK s \in Substream \cup {NoSubstream} : F = WithProtocol(R, i, Opening(s))
      <3>1. p.state = "OpenDesiredByRemote" => set_handshake(p.inbound_substream) \in Substream
        BY WaitingStaysWaiting DEF WellFormed
      <3> QED BY <1>3, <3>1, OnOpenCases
    <2>2. Opening(s) \in ProtocolDetails /\ Opening(s).state = "Opening"
      BY VariantTypes, VariantsWellFormed
    <2>3. /\ R \in Handler /\ R.protocols = h.protocols /\ (Unqueued(h) => Unqueued(R))
          /\ \A x : In(x, h.pending_events) => In(x, R.pending_events)
      BY PushQueue DEF RequestSubstream, EventTypes
    <2> HIDE DEF R, F
    <2>4. /\ F.protocols[i] = Opening(s)
          /\ \A j \in Protocols \ {i} : F.protocols[j] = R.protocols[j]
          /\ F.pending_events = R.pending_events
      BY <2>1, <2>2, <2>3, StoreQueue
    <2> QED BY <1>3, <2>2, <2>3, <2>4 DEF Serves, Unqueued, BrokenSession, F
  <1> QED BY <1>1, <1>2, <1>3 DEF StateNames

(* on_behaviour_event(Close) leaves the protocol closed.                   *)
LEMMA OnCloseServes ==
  ASSUME NEW h \in Handler, NEW i \in Protocols
  PROVE  /\ Serves(h, OnClose(h, i), i)
         /\ OnClose(h, i).protocols[i].state = "Closed"
  <1> DEFINE p == h.protocols[i]
             F == OnClose(h, i)
  <1>1. p \in ProtocolDetails /\ p.state \in StateNames /\ p.pending_opening \in BOOLEAN
    BY DEF Handler, ProtocolDetails
  <1>2. PICK g \in Handler :
          /\ F = Push(g, "Close", i) /\ g.protocols[i].state = "Closed"
          /\ \A j \in Protocols \ {i} : g.protocols[j] = h.protocols[j]
          /\ \A x : In(x, h.pending_events) => In(x, g.pending_events)
          /\ Unqueued(h) => Unqueued(g)
    <2>1. \A b \in BOOLEAN : Closed(b) \in ProtocolDetails /\ Closed(b).state = "Closed"
      BY VariantTypes, VariantsWellFormed
    <2>2. CASE p.state = "Closed"
      BY <2>2, OnCloseCases
    <2>3. CASE p.state \in {"OpenDesiredByRemote", "Open"}
      <3>1. PICK b \in BOOLEAN : F = Push(WithProtocol(h, i, Closed(b)), "Close", i)
        BY <1>1, <2>3, OnCloseCases, ZenonT(30)
      <3> DEFINE g == WithProtocol(h, i, Closed(b))
      <3>2. /\ g \in Handler /\ g.protocols[i] = Closed(b)
            /\ \A j \in Protocols \ {i} : g.protocols[j] = h.protocols[j]
            /\ g.pending_events = h.pending_events
        BY <2>1, StoreQueue
      <3> HIDE DEF g
      <3> QED BY <2>1, <3>1, <3>2 DEF g, Unqueued
    <2>4. CASE p.state = "Opening"
      <3> DEFINE f == WithProtocol(h, i, Closed(TRUE))
                 g == Push(f, "HandshakeError", i)
      <3>1. F = Push(g, "Close", i)
        BY <2>4, OnCloseCases
      <3>2. /\ f \in Handler /\ f.protocols[i] = Closed(TRUE)
            /\ \A j \in Protocols \ {i} : f.protocols[j] = h.protocols[j]
            /\ f.pending_events = h.pending_events
        BY <2>1, StoreQueue
      <3> HIDE DEF f
      <3>3. /\ g \in Handler /\ g.protocols = f.protocols
            /\ \A x : In(x, f.pending_events) => In(x, g.pending_events)
            /\ Unqueued(f) => Unqueued(g)
        BY <3>2, PushQueue DEF EventTypes
      <3> HIDE DEF g
      <3>4. Unqueued(h) => Unqueued(f)
        BY <3>2 DEF Unqueued
      <3> QED BY <2>1, <3>1, <3>2, <3>3, <3>4
    <2> QED BY <1>1, <2>2, <2>3, <2>4 DEF StateNames
  <1> HIDE DEF F
  <1>3. /\ F.protocols = g.protocols
        /\ \A x : In(x, g.pending_events) => In(x, F.pending_events)
        /\ Unqueued(g) => Unqueued(F)
    BY <1>2, PushQueue DEF EventTypes
  <1> QED BY <1>2, <1>3 DEF Serves, F

(* FullyNegotiatedInbound: the remote's wish is queued.                    *)
LEMMA InboundServes ==
  ASSUME NEW h \in Handler, NEW i \in Protocols
  PROVE  LET F == FullyNegotiatedInbound(h, i) IN
         /\ Serves(h, F, i)
         /\ BrokenSession(F.protocols[i]) <=> BrokenSession(h.protocols[i])
  <1> DEFINE p == h.protocols[i]
             F == FullyNegotiatedInbound(h, i)
  <1>1. p \in ProtocolDetails /\ p.state \in StateNames /\ p.pending_opening \in BOOLEAN
    BY DEF Handler, ProtocolDetails
  <1>2. CASE F = h
    BY <1>2 DEF Serves
  <1>3. CASE p.state = "Closed"
    <2> DEFINE q == OpenDesiredByRemote(NewInboundSubstream, p.pending_opening)
               g == WithProtocol(h, i, q)
    <2>1. F = Push(g, "OpenDesiredByRemote", i)
      BY <1>3, InboundCases
    <2>2. q \in ProtocolDetails /\ q.state = "OpenDesiredByRemote"
      BY <1>1, VariantTypes, VariantsWellFormed, WaitingStaysWaiting
    <2> HIDE DEF q, F
    <2>3. /\ g \in Handler /\ g.protocols[i] = q
          /\ \A j \in Protocols \ {i} : g.protocols[j] = h.protocols[j]
          /\ g.pending_events = h.pending_events
      BY <2>2, StoreQueue
    <2> HIDE DEF g
    <2>4. /\ F.protocols = g.protocols
          /\ \A x : In(x, F.pending_events) <=>
                      In(x, g.pending_events) \/ x = Event("OpenDesiredByRemote", i)
          /\ Unqueued(g) => Unqueued(F)
      BY <2>1, <2>3, PushQueue DEF EventTypes
    <2>5. Unqueued(h) => Unqueued(g)
      BY <2>3 DEF Unqueued
    <2> QED BY <1>3, <2>2, <2>3, <2>4, <2>5 DEF Serves, BrokenSession, F
  <1>4. CASE p.state \in {"Opening", "Open"} /\ p.inbound_substream = NoSubstream
    <2> DEFINE q == [p EXCEPT !.inbound_substream = set_handshake(NewInboundSubstream)]
    <2>1. F = WithProtocol(h, i, q)
      BY <1>4, InboundCases
    <2>2. q \in ProtocolDetails /\ q.state = p.state /\ q.outbound_substream = p.outbound_substream
      BY <1>1, WaitingStaysWaiting DEF ProtocolDetails
    <2> HIDE DEF q, F
    <2>3. /\ F.protocols[i] = q
          /\ \A j \in Protocols \ {i} : F.protocols[j] = h.protocols[j]
          /\ F.pending_events = h.pending_events
      BY <2>1, <2>2, StoreQueue
    <2> QED BY <1>4, <2>2, <2>3 DEF Serves, Unqueued, BrokenSession, F
  <1> QED BY <1>1, <1>2, <1>3, <1>4, InboundCases DEF StateNames

(* FullyNegotiatedOutbound and DialUpgradeError: a session that opens is   *)
(* announced and has its substream.                                        *)
LEMMA AnswerServes ==
  ASSUME NEW h \in Handler, NEW i \in Protocols,
         NEW F \in {FullyNegotiatedOutbound(h, i), DialUpgradeError(h, i)}
  PROVE  /\ Serves(h, F, i)
         /\ BrokenSession(F.protocols[i]) <=> BrokenSession(h.protocols[i])
  <1> DEFINE p == h.protocols[i]
  <1>1. p \in ProtocolDetails /\ p.state \in StateNames
        /\ p.inbound_substream \in Substream \cup {NoSubstream}
    BY DEF Handler, ProtocolDetails
  <1>2. CASE F = h
    BY <1>2 DEF Serves
  <1>3. CASE p.state \in {"Closed", "OpenDesiredByRemote"}
    <2> DEFINE q == [p EXCEPT !.pending_opening = FALSE]
    <2>1. F = WithProtocol(h, i, q)
      BY <1>3, Zenon DEF FullyNegotiatedOutbound, DialUpgradeError
    <2>2. q \in ProtocolDetails /\ q.state = p.state /\ q.outbound_substream = p.outbound_substream
      BY <1>1 DEF ProtocolDetails
    <2> HIDE DEF q
    <2>3. /\ F.protocols[i] = q
          /\ \A j \in Protocols \ {i} : F.protocols[j] = h.protocols[j]
          /\ F.pending_events = h.pending_events
      BY <2>1, <2>2, StoreQueue
    <2> QED BY <1>3, <2>2, <2>3 DEF Serves, Unqueued, BrokenSession
  <1>4. CASE p.state = "Opening"
    <2>1. PICK q \in ProtocolDetails, t \in {"HandshakeCompleted", "HandshakeError"} :
            /\ F = Push(WithProtocol(h, i, q), t, i)
            /\ q.state \in {"Open", "Closed"}
            /\ q.state = "Open" => t = "HandshakeCompleted" /\ q.outbound_substream
      <3>1. Open(p.inbound_substream) \in ProtocolDetails /\ Closed(FALSE) \in ProtocolDetails
        BY <1>1, VariantTypes
      <3>2. /\ Open(p.inbound_substream).state = "Open" /\ Closed(FALSE).state = "Closed"
            /\ Open(p.inbound_substream).outbound_substream
        BY DEF Open, Closed
      <3>3. \/ F = Push(WithProtocol(h, i, Open(p.inbound_substream)), "HandshakeCompleted", i)
            \/ F = Push(WithProtocol(h, i, Closed(FALSE)), "HandshakeError", i)
        BY <1>4, Zenon DEF FullyNegotiatedOutbound, DialUpgradeError
      <3> QED BY <3>1, <3>2, <3>3
    <2> DEFINE g == WithProtocol(h, i, q)
    <2>2. /\ g \in Handler /\ g.protocols[i] = q
          /\ \A j \in Protocols \ {i} : g.protocols[j] = h.protocols[j]
          /\ g.pending_events = h.pending_events
      BY <2>1, StoreQueue
    <2>3. F = Push(g, t, i) /\ t \in EventTypes \ {"CloseDesired", "Notification"}
      BY <2>1 DEF EventTypes
    <2> HIDE DEF g
    <2>4. /\ F.protocols = g.protocols
          /\ \A x : In(x, F.pending_events) <=> In(x, g.pending_events) \/ x = Event(t, i)
          /\ Unqueued(g) => Unqueued(F)
      BY <2>2, <2>3, PushQueue
    <2>5. Unqueued(h) => Unqueued(g)
      BY <2>2 DEF Unqueued
    <2> QED BY <1>4, <2>1, <2>2, <2>4, <2>5 DEF Serves, BrokenSession
  <1> QED BY <1>1, <1>2, <1>3, <1>4, OutboundCases DEF StateNames

(* poll: with events queued, the oldest one leaves and nothing else        *)
(* happens; otherwise the sockets decide.                                  *)
LEMMA PollServes ==
  ASSUME NEW h \in Handler, \A j \in Protocols : WellFormed(h.protocols[j]), Unqueued(h),
         NEW r \in poll(h)
  PROVE  /\ r.handler \in Handler /\ Unqueued(r.handler)
         /\ r.event \in HandlerEvent \cup {Nothing}
         /\ \/ /\ r.handler.protocols = h.protocols /\ r.event \in HandlerEvent
               /\ r.event.type \notin {"CloseDesired", "Notification"}
               /\ \A x : In(x, h.pending_events) => x = r.event \/ In(x, r.handler.pending_events)
            \/ /\ \A x : ~In(x, h.pending_events)
               /\ SocketResult(h, r.handler, r.event)
  <1> DEFINE q == h.pending_events
             g == r.handler
             e == r.event
  <1>0. q \in Seq(HandlerEvent)
    BY DEF Handler
  <1>1. CASE q # << >>
    <2>1. g = [h EXCEPT !.pending_events = Tail(q)] /\ e = Head(q)
      BY <1>1 DEF poll, PollPending, Result
    <2>2. /\ e \in HandlerEvent /\ Tail(q) \in Seq(HandlerEvent)
          /\ \A x : In(x, q) <=> x = e \/ In(x, Tail(q))
      BY <1>0, <1>1, <2>1, InTail
    <2>3. g \in Handler /\ g.protocols = h.protocols /\ g.pending_events = Tail(q)
      BY <2>1, <2>2 DEF Handler
    <2>4. e.type \in EventTypes /\ e.index \in Protocols /\ e = Event(e.type, e.index)
      BY <2>2 DEF HandlerEvent, Event
    <2> HIDE DEF q, g, e
    <2>5. Unqueued(g)
      BY <2>2, <2>3 DEF Unqueued, q
    <2>6. In(e, q)
      BY <2>2
    <2>7. e.type \notin {"CloseDesired", "Notification"}
      BY <2>4, <2>6 DEF Unqueued, q
    <2> QED BY <2>2, <2>3, <2>5, <2>7 DEF q, g, e
  <1>2. CASE q = << >>
    <2>1. r \in PollSockets(h)
      BY <1>2 DEF poll
    <2>2. g \in Handler /\ g.pending_events = q /\ SocketResult(h, g, e)
      BY <2>1, SocketsKeep
    <2>3. \A x : ~In(x, q)
      BY <1>2, InEmpty
    <2> HIDE DEF q, g, e
    <2>4. Unqueued(g)
      BY <2>2, <2>3 DEF Unqueued
    <2>5. e \in HandlerEvent \cup {Nothing}
      BY <2>2 DEF SocketResult, HandlerEvent, EventTypes, Event
    <2> QED BY <2>2, <2>3, <2>4, <2>5 DEF q, g, e
  <1> QED BY <1>1, <1>2

-----------------------------------------------------------------------------
(* The events of the behaviour and the commands it sends.                  *)
LEMMA SwarmEvents ==
  /\ \A e \in ToSwarm :
       /\ e.conn \in Conns /\ e.index \in Protocols
       /\ e.kind = "NotifyHandler" =>
            e.what \in {"Open", "Close"} /\ e = NotifyHandler(e.conn, e.what, e.index)
       /\ e.kind # "NotifyHandler" =>
            /\ e.what \in {"CustomProtocolOpen", "CustomProtocolClosed", "Notification"}
            /\ e = GenerateEvent(e.conn, e.what, e.index)
  /\ \A c \in Conns, i \in Protocols :
       /\ \A w \in {"Open", "Close"} : NotifyHandler(c, w, i) \in ToSwarm
       /\ \A w \in {"CustomProtocolOpen", "Notification"} : GenerateEvent(c, w, i) \in ToSwarm
  /\ \A c, d, v, w, i, j :
       /\ NotifyHandler(c, v, i) = NotifyHandler(d, w, j) <=> c = d /\ v = w /\ i = j
       /\ GenerateEvent(c, v, i) = GenerateEvent(d, w, j) <=> c = d /\ v = w /\ i = j
       /\ NotifyHandler(c, v, i) # GenerateEvent(d, w, j)
       /\ NotifyHandler(c, v, i).conn = c /\ NotifyHandler(c, v, i).what = v
       /\ NotifyHandler(c, v, i).kind = "NotifyHandler" /\ NotifyHandler(c, v, i).index = i
       /\ GenerateEvent(c, v, i).conn = c /\ GenerateEvent(c, v, i).what = v
       /\ GenerateEvent(c, v, i).kind = "GenerateEvent" /\ GenerateEvent(c, v, i).index = i
  BY DEF ToSwarm, NotifyHandler, GenerateEvent

(* Handler events are told apart by type and index; the end of a           *)
(* connection and Nothing are none of them.                                *)
LEMMA HandlerEvents ==
  /\ \A e \in HandlerEvent : e.type \in EventTypes /\ e.index \in Protocols
                               /\ e = Event(e.type, e.index)
  /\ \A t \in EventTypes, i \in Protocols : Event(t, i) \in HandlerEvent
  /\ \A t, u, i, j : Event(t, i) = Event(u, j) <=> t = u /\ i = j
  /\ \A t, i : Event(t, i).type = t /\ Event(t, i).index = i
  /\ ConnectionEnd \notin HandlerEvent /\ Nothing \notin HandlerEvent
  /\ \A t \in EventTypes : \A i : Event(t, i) # ConnectionEnd /\ Event(t, i) # Nothing
  BY DEF HandlerEvent, Event, EventTypes, ConnectionEnd, Nothing

(* NotifyHandler for every protocol.                                       *)
LEMMA NotifyAllTypes ==
  ASSUME NEW c \in Conns, NEW w \in {"Open", "Close"}
  PROVE  /\ NotifyAll(c, w) \in Seq(ToSwarm)
         /\ \A x : In(x, NotifyAll(c, w)) => \E i \in Protocols : x = NotifyHandler(c, w, i)
  <1>1. NumProtocols \in Nat /\ \A k \in 1 .. NumProtocols : k - 1 \in Protocols
    BY HandlerAssumption DEF Protocols
  <1>2. \A k \in 1 .. NumProtocols : NotifyHandler(c, w, k - 1) \in ToSwarm
    BY <1>1, SwarmEvents
  <1>3. NotifyAll(c, w) \in [1 .. NumProtocols -> ToSwarm]
    BY <1>2 DEF NotifyAll
  <1>4. NotifyAll(c, w) \in Seq(ToSwarm)
    BY <1>1, <1>3
  <1>5. \A k \in DOMAIN NotifyAll(c, w) : \E i \in Protocols : NotifyAll(c, w)[k] = NotifyHandler(c, w, i)
    BY <1>1 DEF NotifyAll
  <1> QED BY <1>4, <1>5 DEF In

(* What the behaviour makes of an event of a handler.                      *)
LEMMA Reactions ==
  ASSUME NEW c \in Conns, NEW e \in HandlerEvent
  PROVE  /\ Reaction(c, e) \in Seq(ToSwarm)
         /\ e.type = "HandshakeCompleted" => Reaction(c, e) = <<OpenTold(c, e.index)>>
         /\ e.type = "OpenDesiredByRemote" => Reaction(c, e) = <<NotifyHandler(c, "Open", e.index)>>
         /\ e.type = "CloseDesired" => Reaction(c, e) = <<NotifyHandler(c, "Close", e.index)>>
         /\ e.type = "Notification" =>
              Reaction(c, e) = <<GenerateEvent(c, "Notification", e.index)>>
         /\ e.type \notin {"HandshakeCompleted", "OpenDesiredByRemote", "CloseDesired",
                           "Notification"} => Reaction(c, e) = << >>
  <1>1. e.type \in EventTypes /\ e.index \in Protocols
    BY HandlerEvents
  <1>2. /\ e.type = "HandshakeCompleted" => Reaction(c, e) = <<OpenTold(c, e.index)>>
        /\ e.type = "OpenDesiredByRemote" => Reaction(c, e) = <<NotifyHandler(c, "Open", e.index)>>
        /\ e.type = "CloseDesired" => Reaction(c, e) = <<NotifyHandler(c, "Close", e.index)>>
        /\ e.type = "Notification" =>
              Reaction(c, e) = <<GenerateEvent(c, "Notification", e.index)>>
        /\ e.type \notin {"HandshakeCompleted", "OpenDesiredByRemote", "CloseDesired",
                           "Notification"} => Reaction(c, e) = << >>
    BY Zenon DEF Reaction, OpenTold
  <1>3. \A x \in ToSwarm : <<x>> \in Seq(ToSwarm)
    OBVIOUS
  <1>4. << >> \in Seq(ToSwarm)
    OBVIOUS
  <1>5. Reaction(c, e) \in Seq(ToSwarm)
    <2>1. /\ OpenTold(c, e.index) \in ToSwarm /\ NotifyHandler(c, "Open", e.index) \in ToSwarm
          /\ NotifyHandler(c, "Close", e.index) \in ToSwarm
          /\ GenerateEvent(c, "Notification", e.index) \in ToSwarm
      BY <1>1, SwarmEvents DEF OpenTold
    <2> QED BY <1>2, <1>3, <1>4, <2>1, Zenon
  <1> QED BY <1>2, <1>5

-----------------------------------------------------------------------------
(* A callback of connection c's handler about protocol i that leaves the   *)
(* handler g: what all of them have in common.                             *)
Called(c, i, g) ==
  /\ Live(c) /\ i \in Protocols
  /\ handlers' = [handlers EXCEPT ![c] = g]
  /\ \E n : requests' = [requests EXCEPT ![c] = n] /\ Good(g, n, announced[c])
  /\ Serves(handlers[c], g, i) /\ Unqueued(g)
  /\ UNCHANGED <<connection, announced, toBehaviour, events, peers_details, app>>

(* What the invariant says of one connection.                              *)
LEMMA AtConnection ==
  ASSUME TypeOK, ConnectionsInv, NEW c \in Conns
  PROVE  /\ handlers[c] \in Handler /\ requests[c] \in [Protocols -> Nat]
         /\ announced[c] \in [Protocols -> BOOLEAN]
         /\ Good(handlers[c], requests[c], announced[c]) /\ Unqueued(handlers[c])
         /\ \A j \in Protocols : WellFormed(handlers[c].protocols[j])
         /\ commands[c] \in Seq(Command)
         /\ toBehaviour[c] \in Seq(HandlerEvent \cup {ConnectionEnd})
  BY DEF TypeOK, ConnectionsInv, Good

(* on_behaviour_event of a live connection.                                *)
LEMMA CommandCalled ==
  ASSUME TypeOK, ConnectionsInv, NEW c \in Conns, CommandDelivered(c)
  PROVE  \E m, g :
           /\ m \in Command /\ Called(c, m.index, g)
           /\ commands[c] # << >> /\ m = Head(commands[c])
           /\ commands' = [commands EXCEPT ![c] = Tail(@)] /\ UNCHANGED inbounds
           /\ m = [what |-> "Open", index |-> m.index] \/ m = [what |-> "Close", index |-> m.index]
           /\ m.what = "Open" =>
                /\ g.protocols[m.index].state # "OpenDesiredByRemote"
                /\ BrokenSession(g.protocols[m.index])
                     <=> BrokenSession(handlers[c].protocols[m.index])
           /\ m.what # "Open" => g.protocols[m.index].state = "Closed"
  <1> DEFINE m == Head(commands[c])
             i == m.index
             h == handlers[c]
             g == IF m.what = "Open" THEN OnOpen(h, i) ELSE OnClose(h, i)
  <1>1. /\ h \in Handler /\ Good(h, requests[c], announced[c]) /\ Unqueued(h)
        /\ \A j \in Protocols : WellFormed(h.protocols[j])
        /\ commands[c] \in Seq(Command) /\ requests \in [Conns -> [Protocols -> Nat]]
    BY AtConnection DEF TypeOK
  <1>2. commands[c] # << >> /\ Live(c)
    BY DEF CommandDelivered, Live
  <1>3. m \in Command
    BY <1>1, <1>2
  <1>4. i \in Protocols /\ m.what \in {"Open", "Close"} /\ m = [what |-> m.what, index |-> i]
    BY <1>3 DEF Command
  <1>5. handlers' = [handlers EXCEPT ![c] = g]
    BY DEF CommandDelivered
  <1>6. /\ commands' = [commands EXCEPT ![c] = Tail(@)]
        /\ UNCHANGED <<connection, requests, announced, toBehaviour, inbounds, events,
                       peers_details, app>>
    BY DEF CommandDelivered, behaviourVars
  <1>7. requests' = [requests EXCEPT ![c] = requests[c]]
    BY <1>1, <1>6
  <1> HIDE DEF m
  <1>8. Good(g, requests[c], announced[c])
    BY <1>1, <1>4, OnOpenGood, OnCloseGood
  <1>9. Serves(h, g, i)
    BY <1>1, <1>4, OnOpenServes, OnCloseServes
  <1>10. Unqueued(g)
    BY <1>1, <1>9 DEF Serves
  <1>11. /\ m.what = "Open" => /\ g.protocols[i].state # "OpenDesiredByRemote"
                               /\ BrokenSession(g.protocols[i]) <=> BrokenSession(h.protocols[i])
         /\ m.what # "Open" => g.protocols[i].state = "Closed"
    BY <1>1, <1>4, OnOpenServes, OnCloseServes
  <1> HIDE DEF g
  <1>12. Called(c, i, g)
    BY <1>2, <1>4, <1>5, <1>6, <1>7, <1>8, <1>9, <1>10 DEF Called
  <1> QED BY <1>2, <1>3, <1>4, <1>6, <1>11, <1>12 DEF m

(* on_connection_event of a live connection.                               *)
LEMMA ConnectionCalled ==
  ASSUME TypeOK, ConnectionsInv, NEW c \in Conns, NEW i \in Protocols,
         InboundNegotiated(c, i) \/ OutboundNegotiated(c, i) \/ OutboundFailed(c, i)
  PROVE  \E g : /\ Called(c, i, g) /\ UNCHANGED commands
                /\ inbounds' \in [Conns -> 0 .. MaxInbound]
                /\ BrokenSession(g.protocols[i]) <=> BrokenSession(handlers[c].protocols[i])
  <1> DEFINE h == handlers[c]
  <1>1. /\ h \in Handler /\ Good(h, requests[c], announced[c]) /\ Unqueued(h)
        /\ requests \in [Conns -> [Protocols -> Nat]]
    BY AtConnection DEF TypeOK
  <1>2. CASE InboundNegotiated(c, i)
    <2> DEFINE g == FullyNegotiatedInbound(h, i)
    <2>1. /\ Live(c) /\ handlers' = [handlers EXCEPT ![c] = g]
          /\ UNCHANGED <<connection, requests, announced, commands, toBehaviour, events,
                         peers_details, app>>
          /\ inbounds[c] < MaxInbound /\ inbounds' = [inbounds EXCEPT ![c] = @ + 1]
      BY <1>2 DEF InboundNegotiated, behaviourVars, Live
    <2>2. requests' = [requests EXCEPT ![c] = requests[c]]
      BY <1>1, <2>1
    <2>3. /\ Good(g, requests[c], announced[c]) /\ Serves(h, g, i)
          /\ BrokenSession(g.protocols[i]) <=> BrokenSession(h.protocols[i])
      BY <1>1, InboundGood, InboundServes
    <2>4. inbounds' \in [Conns -> 0 .. MaxInbound]
      <3>1. inbounds \in [Conns -> 0 .. MaxInbound] /\ MaxInbound \in Nat
        BY NotificationsAssumption DEF TypeOK
      <3>2. inbounds[c] + 1 \in 0 .. MaxInbound
        BY <2>1, <3>1
      <3> QED BY <2>1, <3>1, <3>2
    <2> HIDE DEF g
    <2>5. Called(c, i, g)
      BY <1>1, <2>1, <2>2, <2>3 DEF Called, Serves
    <2> QED BY <2>1, <2>3, <2>4, <2>5
  <1>3. ASSUME NEW g \in {FullyNegotiatedOutbound(h, i), DialUpgradeError(h, i)}, Answered(c, i, g)
        PROVE  /\ Called(c, i, g) /\ UNCHANGED commands
               /\ inbounds' \in [Conns -> 0 .. MaxInbound]
               /\ BrokenSession(g.protocols[i]) <=> BrokenSession(h.protocols[i])
    <2> DEFINE n == [requests[c] EXCEPT ![i] = @ - 1]
    <2>1. /\ Live(c) /\ requests[c][i] > 0 /\ handlers' = [handlers EXCEPT ![c] = g]
          /\ UNCHANGED <<connection, announced, commands, toBehaviour, inbounds, events,
                         peers_details, app>>
          /\ requests' = [requests EXCEPT ![c] = n]
      BY <1>3 DEF Answered, behaviourVars, Live
    <2>2. Good(g, n, announced[c])
      BY <1>1, <1>3, <2>1, AnswerGood
    <2>3. Serves(h, g, i) /\ (BrokenSession(g.protocols[i]) <=> BrokenSession(h.protocols[i]))
      BY <1>1, <1>3, AnswerServes
    <2> HIDE DEF n
    <2>4. Called(c, i, g)
      BY <1>1, <2>1, <2>2, <2>3 DEF Called, Serves
    <2> QED BY <2>1, <2>3, <2>4 DEF TypeOK
  <1> QED BY <1>2, <1>3 DEF OutboundNegotiated, OutboundFailed

-----------------------------------------------------------------------------
(* The invariant, one protocol of one connection at a time.                *)
CloseAt(c, i) ==
  Live(c) => /\ Broken(c, i) <=> OnItsWay(c, i, "Close", "CloseDesired")
             /\ OneClose(c, i)

RemoteAt(c, i) ==
  Live(c) /\ ProtoOf(c, i).state = "OpenDesiredByRemote"
    => OnItsWay(c, i, "Open", "OpenDesiredByRemote")

AnnouncedAt(c, i) ==
  /\ <<c, i>> \in app \/ Led(GenerateEvent(c, "Notification", i), OpenTold(c, i), events)
  /\ Announced(c, i) \/ Led(Event("Notification", i), Event("HandshakeCompleted", i), toBehaviour[c])
  /\ ProtoOf(c, i).state = "Open" =>
       \/ Announced(c, i)
       \/ In(Event("HandshakeCompleted", i), toBehaviour[c])
       \/ In(Event("HandshakeCompleted", i), handlers[c].pending_events)

(* The three together, at (c, i).                                          *)
FlowAt(c, i) == CloseAt(c, i) /\ RemoteAt(c, i) /\ AnnouncedAt(c, i)

NoClosedEvent == \A x : In(x, events) => x.what # "CustomProtocolClosed"

(* Splitting the invariant into its parts at each connection and protocol. *)
LEMMA Parts ==
  IInv <=> /\ TypeOK /\ ConnectionsInv /\ NoClosedEvent
           /\ \A c \in Conns, i \in Protocols : FlowAt(c, i)
  BY DEF IInv, CloseInv, RemoteOpenIsAnswered, AnnouncedInv, CloseEndsBrokenSession, FlowAt,
         CloseAt, RemoteAt, AnnouncedAt, NoClosedEvent, In

(* The same of the next state.                                             *)
LEMMA PartsNext ==
  IInv' <=> /\ TypeOK' /\ ConnectionsInv' /\ NoClosedEvent'
            /\ \A c \in Conns, i \in Protocols : FlowAt(c, i)'
  BY DEF IInv, CloseInv, RemoteOpenIsAnswered, AnnouncedInv, CloseEndsBrokenSession, FlowAt,
         CloseAt, RemoteAt, AnnouncedAt, NoClosedEvent, In

(* A protocol no part of a step is about.                                  *)
LEMMA Bystander ==
  ASSUME NEW d \in Conns, NEW i \in Protocols, FlowAt(d, i),
         connection'[d] = connection[d], handlers'[d] = handlers[d],
         commands'[d] = commands[d], toBehaviour'[d] = toBehaviour[d],
         <<d, i>> \in app' <=> <<d, i>> \in app,
         \A w : In(NotifyHandler(d, w, i), events') <=> In(NotifyHandler(d, w, i), events),
         In(OpenTold(d, i), events') <=> In(OpenTold(d, i), events),
         Once(NotifyHandler(d, "Close", i), events) => Once(NotifyHandler(d, "Close", i), events'),
         Led(GenerateEvent(d, "Notification", i), OpenTold(d, i), events)
           => Led(GenerateEvent(d, "Notification", i), OpenTold(d, i), events')
  PROVE  FlowAt(d, i)'
  <1>1. CloseAt(d, i)'
    BY DEF FlowAt, CloseAt, Live, Broken, ProtoOf, OnItsWay, OneClose, NotifyHandler, Event
  <1>2. RemoteAt(d, i)'
    BY DEF FlowAt, RemoteAt, Live, ProtoOf, OnItsWay, NotifyHandler, Event
  <1>3. AnnouncedAt(d, i)'
    BY DEF FlowAt, AnnouncedAt, Announced, OpenTold, ProtoOf, GenerateEvent, Event
  <1> QED BY <1>1, <1>2, <1>3 DEF FlowAt

-----------------------------------------------------------------------------
(* One step at a time: the parts of the invariant after each action.       *)

(* A callback of a handler: types, and the connections by themselves.      *)
LEMMA CalledKeeps ==
  ASSUME TypeOK, ConnectionsInv, NoClosedEvent, NEW c \in Conns, NEW i, NEW g, Called(c, i, g),
         commands' \in [Conns -> Seq(Command)],
         \A d \in Conns \ {c} : commands'[d] = commands[d],
         inbounds' \in [Conns -> 0 .. MaxInbound]
  PROVE  /\ TypeOK' /\ ConnectionsInv' /\ NoClosedEvent'
         /\ handlers'[c] = g /\ \A d \in Conns \ {c} : handlers'[d] = handlers[d]
  <1>1. PICK n : requests' = [requests EXCEPT ![c] = n] /\ Good(g, n, announced[c])
    BY DEF Called
  <1>2. /\ Live(c) /\ Unqueued(g) /\ handlers' = [handlers EXCEPT ![c] = g]
        /\ UNCHANGED <<connection, announced, toBehaviour, events, peers_details, app>>
    BY DEF Called
  <1>3. g \in Handler /\ n \in [Protocols -> Nat]
    BY <1>1 DEF Good
  <1>4. TypeOK'
    BY <1>1, <1>2, <1>3 DEF TypeOK
  <1>5. /\ handlers'[c] = g /\ \A d \in Conns \ {c} : handlers'[d] = handlers[d]
        /\ requests'[c] = n /\ \A d \in Conns \ {c} : requests'[d] = requests[d]
    BY <1>1, <1>2 DEF TypeOK
  <1>6. ASSUME NEW d \in Conns
        PROVE  /\ Good(handlers'[d], requests'[d], announced'[d])
               /\ Unqueued(handlers'[d])
               /\ connection'[d] = "None" => Untouched(d)'
               /\ Live(d)' => ~In(ConnectionEnd, toBehaviour'[d])
    <2>1. CASE d = c
      BY <1>1, <1>2, <1>5, <2>1 DEF ConnectionsInv, Live
    <2>2. CASE d # c
      BY <1>2, <1>5, <2>2 DEF ConnectionsInv, Live, Untouched
    <2> QED BY <2>1, <2>2
  <1>7. ConnectionsInv'
    BY <1>6 DEF ConnectionsInv
  <1>8. NoClosedEvent'
    BY <1>2 DEF NoClosedEvent
  <1> QED BY <1>4, <1>5, <1>7, <1>8

(* A callback, seen by one protocol of the connection.  Either nothing     *)
(* changes about its Close, or the Close arrived and was obeyed.           *)
LEMMA CalledFlow ==
  ASSUME ConnectionsInv, NEW c \in Conns, NEW i, NEW g, Called(c, i, g), handlers'[c] = g,
         NEW j \in Protocols, FlowAt(c, j), NEW close, close = [what |-> "Close", index |-> j],
         \/ /\ BrokenSession(g.protocols[j]) <=> BrokenSession(handlers[c].protocols[j])
            /\ In(close, commands'[c]) <=> In(close, commands[c])
            /\ Once(close, commands[c]) => Once(close, commands'[c])
         \/ /\ ~BrokenSession(g.protocols[j])
            /\ In(close, commands[c]) /\ ~In(close, commands'[c]),
         g.protocols[j].state = "OpenDesiredByRemote" =>
           (In([what |-> "Open", index |-> j], commands[c])
              => In([what |-> "Open", index |-> j], commands'[c]))
  PROVE  FlowAt(c, j)'
  <1> DEFINE h == handlers[c]
  <1>1. /\ Live(c) /\ connection'[c] = connection[c] /\ Unqueued(h) /\ Unqueued(g)
        /\ toBehaviour'[c] = toBehaviour[c] /\ events' = events /\ app' = app
        /\ Serves(h, g, i)
    BY DEF Called, ConnectionsInv
  <1>2. CloseAt(c, j)'
    <2>1. ~In(Event("CloseDesired", j), h.pending_events)
          /\ ~In(Event("CloseDesired", j), g.pending_events)
      BY <1>1 DEF Unqueued
    <2>2. ~In(close, commands'[c]) => Once(close, commands'[c])
      BY OnceNone
    <2> QED BY <1>1, <2>1, <2>2
            DEF FlowAt, CloseAt, Live, Broken, BrokenSession, ProtoOf, OnItsWay, OneClose,
                NotifyHandler, Event
  <1>3. RemoteAt(c, j)'
    <2>1. ASSUME g.protocols[j].state = "OpenDesiredByRemote"
          PROVE  \/ h.protocols[j].state = "OpenDesiredByRemote"
                 \/ In(Event("OpenDesiredByRemote", j), g.pending_events)
      BY <1>1, <2>1 DEF Serves
    <2>2. \A x : In(x, h.pending_events) => In(x, g.pending_events)
      BY <1>1 DEF Serves
    <2> QED BY <1>1, <2>1, <2>2
            DEF FlowAt, RemoteAt, Live, ProtoOf, OnItsWay, NotifyHandler, Event
  <1>4. AnnouncedAt(c, j)'
    <2>1. ASSUME g.protocols[j].state = "Open"
          PROVE  \/ h.protocols[j].state = "Open"
                 \/ In(Event("HandshakeCompleted", j), g.pending_events)
      BY <1>1, <2>1 DEF Serves
    <2>2. \A x : In(x, h.pending_events) => In(x, g.pending_events)
      BY <1>1 DEF Serves
    <2> QED BY <1>1, <2>1, <2>2
            DEF FlowAt, AnnouncedAt, Announced, OpenTold, ProtoOf, GenerateEvent, Event
  <1> QED BY <1>2, <1>3, <1>4 DEF FlowAt

(* Connections a step of c is not about.                                   *)
LEMMA Others ==
  ASSUME NEW c \in Conns, \A d \in Conns, i \in Protocols : FlowAt(d, i),
         \A d \in Conns \ {c} : /\ connection'[d] = connection[d] /\ handlers'[d] = handlers[d]
                                /\ commands'[d] = commands[d] /\ toBehaviour'[d] = toBehaviour[d],
         UNCHANGED <<events, app>>
  PROVE  \A d \in Conns \ {c}, i \in Protocols : FlowAt(d, i)'
  BY Bystander

(* on_behaviour_event                                                      *)
LEMMA CommandDeliveredKeeps ==
  ASSUME IInv, NEW c \in Conns, CommandDelivered(c)
  PROVE  IInv'
  <1>1. /\ TypeOK /\ ConnectionsInv /\ NoClosedEvent
        /\ \A d \in Conns, i \in Protocols : FlowAt(d, i)
    BY Parts
  <1>2. PICK m, g :
           /\ m \in Command /\ Called(c, m.index, g)
           /\ commands[c] # << >> /\ m = Head(commands[c])
           /\ commands' = [commands EXCEPT ![c] = Tail(@)] /\ UNCHANGED inbounds
           /\ m = [what |-> "Open", index |-> m.index] \/ m = [what |-> "Close", index |-> m.index]
           /\ m.what = "Open" =>
                /\ g.protocols[m.index].state # "OpenDesiredByRemote"
                /\ BrokenSession(g.protocols[m.index])
                     <=> BrokenSession(handlers[c].protocols[m.index])
           /\ m.what # "Open" => g.protocols[m.index].state = "Closed"
    BY <1>1, CommandCalled
  <1> DEFINE i == m.index
             q == commands[c]
  <1>3. q \in Seq(Command) /\ commands \in [Conns -> Seq(Command)]
    BY <1>1 DEF TypeOK
  <1>4. /\ Tail(q) \in Seq(Command)
        /\ \A x : In(x, q) <=> x = m \/ In(x, Tail(q))
        /\ \A x : Once(x, q) => Once(x, Tail(q)) /\ ~(x = m /\ In(x, Tail(q)))
    BY <1>2, <1>3, InTail
  <1>5. /\ commands' \in [Conns -> Seq(Command)] /\ commands'[c] = Tail(q)
        /\ \A d \in Conns \ {c} : commands'[d] = commands[d]
    BY <1>2, <1>3, <1>4
  <1>6. inbounds' \in [Conns -> 0 .. MaxInbound]
    BY <1>1, <1>2 DEF TypeOK
  <1>7. /\ TypeOK' /\ ConnectionsInv' /\ NoClosedEvent'
        /\ handlers'[c] = g /\ \A d \in Conns \ {c} : handlers'[d] = handlers[d]
    BY <1>1, <1>2, <1>5, <1>6, CalledKeeps
  <1>8. ASSUME NEW j \in Protocols PROVE FlowAt(c, j)'
    <2> DEFINE close == [what |-> "Close", index |-> j]
    <2>1. Live(c) /\ \A k \in Protocols \ {i} : g.protocols[k] = handlers[c].protocols[k]
      BY <1>2 DEF Called, Serves
    <2>2. CASE j # i
      <3>1. m # close /\ m # [what |-> "Open", index |-> j]
        BY <1>2, <2>2
      <3>2. BrokenSession(g.protocols[j]) <=> BrokenSession(handlers[c].protocols[j])
        BY <2>1, <2>2
      <3> HIDE DEF close, i, q
      <3>3. /\ In(close, commands'[c]) <=> In(close, q)
            /\ Once(close, q) => Once(close, commands'[c])
            /\ In([what |-> "Open", index |-> j], q)
                 => In([what |-> "Open", index |-> j], commands'[c])
        BY <1>4, <1>5, <3>1
      <3> QED BY <1>1, <1>2, <1>7, <3>2, <3>3, CalledFlow DEF close, q
    <2>3. CASE j = i /\ m.what = "Open"
      <3>1. m # close
        BY <1>2, <2>3
      <3>2. /\ g.protocols[j].state # "OpenDesiredByRemote"
            /\ BrokenSession(g.protocols[j]) <=> BrokenSession(handlers[c].protocols[j])
        BY <1>2, <2>3
      <3> HIDE DEF close, i, q
      <3>3. /\ In(close, commands'[c]) <=> In(close, q)
            /\ Once(close, q) => Once(close, commands'[c])
        BY <1>4, <1>5, <3>1
      <3> QED BY <1>1, <1>2, <1>7, <3>2, <3>3, CalledFlow, ZenonT(30) DEF close, q
    <2>4. CASE j = i /\ m.what # "Open"
      <3>1. m = close /\ g.protocols[j].state = "Closed"
        BY <1>2, <2>4
      <3>2. Once(close, q)
        BY <1>1, <2>1 DEF FlowAt, CloseAt, OneClose
      <3> HIDE DEF close, i, q
      <3>3. In(close, q) /\ ~In(close, commands'[c])
        BY <1>4, <1>5, <3>1, <3>2
      <3>4. ~BrokenSession(g.protocols[j])
        BY <3>1 DEF BrokenSession
      <3> QED BY <1>1, <1>2, <1>7, <3>1, <3>3, <3>4, CalledFlow DEF close, q
    <2> QED BY <2>2, <2>3, <2>4
  <1>9. \A d \in Conns \ {c}, j \in Protocols : FlowAt(d, j)'
    BY <1>1, <1>2, <1>5, <1>7, Others DEF Called
  <1> QED BY <1>7, <1>8, <1>9, PartsNext

(* on_connection_event                                                     *)
LEMMA ConnectionEventKeeps ==
  ASSUME IInv, NEW c \in Conns, NEW i \in Protocols,
         InboundNegotiated(c, i) \/ OutboundNegotiated(c, i) \/ OutboundFailed(c, i)
  PROVE  IInv'
  <1>1. /\ TypeOK /\ ConnectionsInv /\ NoClosedEvent
        /\ \A d \in Conns, j \in Protocols : FlowAt(d, j)
    BY Parts
  <1>2. PICK g : /\ Called(c, i, g) /\ UNCHANGED commands
                 /\ inbounds' \in [Conns -> 0 .. MaxInbound]
                 /\ BrokenSession(g.protocols[i]) <=> BrokenSession(handlers[c].protocols[i])
    BY <1>1, ConnectionCalled
  <1>3. /\ TypeOK' /\ ConnectionsInv' /\ NoClosedEvent'
        /\ handlers'[c] = g /\ \A d \in Conns \ {c} : handlers'[d] = handlers[d]
    <2>1. commands' \in [Conns -> Seq(Command)]
      BY <1>1, <1>2 DEF TypeOK
    <2> QED BY <1>1, <1>2, <2>1, CalledKeeps
  <1>4. ASSUME NEW j \in Protocols PROVE FlowAt(c, j)'
    <2>1. BrokenSession(g.protocols[j]) <=> BrokenSession(handlers[c].protocols[j])
      BY <1>2 DEF Called, Serves
    <2> QED BY <1>1, <1>2, <1>3, <2>1, CalledFlow
  <1>5. \A d \in Conns \ {c}, j \in Protocols : FlowAt(d, j)'
    BY <1>1, <1>2, <1>3, Others DEF Called
  <1> QED BY <1>3, <1>4, <1>5, PartsNext

(* poll, seen by one protocol of the connection.  Nothing changes about    *)
(* its Close, or its outbound substream broke and CloseDesired is sent.    *)
LEMMA PollFlow ==
  ASSUME NEW c \in Conns, NEW j \in Protocols, FlowAt(c, j), Live(c), NEW g, handlers'[c] = g,
         Unqueued(handlers[c]), Unqueued(g), NEW close, close = Event("CloseDesired", j),
         connection'[c] = connection[c], commands'[c] = commands[c], UNCHANGED <<events, app>>,
         g.protocols[j].state = handlers[c].protocols[j].state,
         \A x : In(x, toBehaviour[c]) => In(x, toBehaviour'[c]),
         \A type \in {"OpenDesiredByRemote", "HandshakeCompleted"} :
           In(Event(type, j), handlers[c].pending_events)
             => In(Event(type, j), g.pending_events) \/ In(Event(type, j), toBehaviour'[c]),
         \/ /\ BrokenSession(g.protocols[j]) <=> BrokenSession(handlers[c].protocols[j])
            /\ In(close, toBehaviour'[c]) <=> In(close, toBehaviour[c])
            /\ Once(close, toBehaviour[c]) => Once(close, toBehaviour'[c])
         \/ /\ BrokenSession(g.protocols[j]) /\ ~BrokenSession(handlers[c].protocols[j])
            /\ In(close, toBehaviour'[c])
            /\ ~In(close, toBehaviour[c]) => Once(close, toBehaviour'[c]),
         \/ Announced(c, j)
         \/ Led(Event("Notification", j), Event("HandshakeCompleted", j), toBehaviour'[c])
  PROVE  FlowAt(c, j)'
  <1>1. CloseAt(c, j)'
    <2>1. ~In(close, handlers[c].pending_events) /\ ~In(close, g.pending_events)
      BY DEF Unqueued
    <2> QED BY <2>1
            DEF FlowAt, CloseAt, Live, Broken, BrokenSession, ProtoOf, OnItsWay, OneClose,
                NotifyHandler, Event
  <1>2. RemoteAt(c, j)'
    BY DEF FlowAt, RemoteAt, Live, ProtoOf, OnItsWay, NotifyHandler, Event
  <1>3. AnnouncedAt(c, j)'
    BY DEF FlowAt, AnnouncedAt, Announced, OpenTold, ProtoOf, GenerateEvent, Event
  <1> QED BY <1>1, <1>2, <1>3 DEF FlowAt

(* What a poll sends on.                                                   *)
LEMMA SentEvents ==
  ASSUME NEW c \in Conns, toBehaviour[c] \in Seq(HandlerEvent \cup {ConnectionEnd}),
         NEW e \in HandlerEvent \cup {Nothing}
  PROVE  LET t == toBehaviour[c]
             u == Sent(c, e)
         IN  /\ u \in Seq(HandlerEvent \cup {ConnectionEnd})
             /\ \A x : In(x, t) => In(x, u)
             /\ \A x : In(x, u) => In(x, t) \/ x = e
             /\ e \in HandlerEvent /\ e.type # "OutboundSubstreamRequest" =>
                  In(e, u)
             /\ \A x : x # e => (In(x, u) <=> In(x, t)) /\ (Once(x, t) => Once(x, u))
             /\ \A x : Once(x, t) /\ ~In(x, t) => Once(x, u)
             /\ \A a, b : Led(b, a, t) /\ (e = b => In(a, t)) => Led(b, a, u)
  <1> DEFINE T == HandlerEvent \cup {ConnectionEnd}
             t == toBehaviour[c]
             u == Sent(c, e)
  <1>1. CASE u = t
    <2>1. ~(e \in HandlerEvent /\ e.type # "OutboundSubstreamRequest") \/ u = Append(t, e)
      BY HandlerEvents DEF Sent
    <2>2. \A x : In(x, Append(t, e)) <=> In(x, t) \/ x = e
      BY InAppend
    <2> HIDE DEF u, t
    <2> QED BY <1>1, <2>1, <2>2 DEF u, t
  <1>2. CASE u = Append(t, e) /\ e \in HandlerEvent
    <2>1. \A x : /\ In(x, Append(t, e)) <=> In(x, t) \/ x = e
                 /\ Once(x, t) /\ ~(x = e /\ In(x, t)) => Once(x, Append(t, e))
      BY InAppend
    <2>2. \A a, b : Led(b, a, t) /\ (e = b => In(a, t)) => Led(b, a, Append(t, e))
      BY LedAppend
    <2>3. Append(t, e) \in Seq(T)
      BY <1>2
    <2> HIDE DEF u, t
    <2> QED BY <1>2, <2>1, <2>2, <2>3 DEF u, t
  <1>3. u = t \/ (u = Append(t, e) /\ e \in HandlerEvent)
    BY DEF Sent
  <1> QED BY <1>1, <1>2, <1>3

(* poll                                                                    *)
LEMMA HandlerPollKeeps ==
  ASSUME IInv, NEW c \in Conns, HandlerPoll(c)
  PROVE  IInv'
  <1>1. /\ TypeOK /\ ConnectionsInv /\ NoClosedEvent
        /\ \A d \in Conns, j \in Protocols : FlowAt(d, j)
    BY Parts
  <1>2. PICK r \in poll(handlers[c]) :
           /\ handlers' = [handlers EXCEPT ![c] = r.handler]
           /\ toBehaviour' = [toBehaviour EXCEPT ![c] = Sent(c, r.event)]
           /\ requests' = [requests EXCEPT ![c] = Received(r.event, @)]
           /\ announced' = [announced EXCEPT ![c] = Heard(r.event, @)]
    BY DEF HandlerPoll
  <1>3. /\ Live(c)
        /\ UNCHANGED <<connection, commands, inbounds, events, peers_details, app>>
    BY DEF HandlerPoll, behaviourVars, Live
  <1> DEFINE h == handlers[c]
             g == r.handler
             e == r.event
             t == toBehaviour[c]
             u == Sent(c, e)
             n == Received(e, requests[c])
             a == Heard(e, announced[c])
  <1>4. /\ h \in Handler /\ Good(h, requests[c], announced[c]) /\ Unqueued(h)
        /\ \A j \in Protocols : WellFormed(h.protocols[j])
        /\ t \in Seq(HandlerEvent \cup {ConnectionEnd})
    BY <1>1, AtConnection
  <1>5. /\ g \in Handler /\ Unqueued(g) /\ e \in HandlerEvent \cup {Nothing}
        /\ \/ /\ g.protocols = h.protocols /\ e \in HandlerEvent
              /\ e.type \notin {"CloseDesired", "Notification"}
              /\ \A x : In(x, h.pending_events) => x = e \/ In(x, g.pending_events)
           \/ /\ \A x : ~In(x, h.pending_events)
              /\ SocketResult(h, g, e)
    BY <1>4, PollServes
  <1>6. Good(g, n, a)
    BY <1>4, PollGood
  <1>7. /\ u \in Seq(HandlerEvent \cup {ConnectionEnd})
        /\ \A x : In(x, t) => In(x, u)
        /\ \A x : In(x, u) => In(x, t) \/ x = e
        /\ e \in HandlerEvent /\ e.type # "OutboundSubstreamRequest" => In(e, u)
        /\ \A x : x # e => (In(x, u) <=> In(x, t)) /\ (Once(x, t) => Once(x, u))
        /\ \A x : Once(x, t) /\ ~In(x, t) => Once(x, u)
        /\ \A x, y : Led(y, x, t) /\ (e = y => In(x, t)) => Led(y, x, u)
    BY <1>4, <1>5, SentEvents
  <1> HIDE DEF g, e, u, n, a
  <1>8. TypeOK'
    BY <1>1, <1>2, <1>3, <1>5, <1>6, <1>7 DEF TypeOK, Good, g, e, u, n, a
  <1>9. /\ handlers'[c] = g /\ requests'[c] = n /\ announced'[c] = a /\ toBehaviour'[c] = u
        /\ \A d \in Conns \ {c} : /\ handlers'[d] = handlers[d] /\ requests'[d] = requests[d]
                                  /\ announced'[d] = announced[d]
                                  /\ toBehaviour'[d] = toBehaviour[d]
    BY <1>1, <1>2 DEF TypeOK, g, e, u, n, a
  <1>10. ConnectionsInv'
    <2>1. ASSUME NEW d \in Conns
          PROVE  /\ Good(handlers'[d], requests'[d], announced'[d])
                 /\ Unqueued(handlers'[d])
                 /\ connection'[d] = "None" => Untouched(d)'
                 /\ Live(d)' => ~In(ConnectionEnd, toBehaviour'[d])
      <3>1. CASE d = c
        <4>1. e # ConnectionEnd /\ ~In(ConnectionEnd, t)
          <5>1. Nothing # ConnectionEnd /\ ConnectionEnd \notin HandlerEvent
            BY HandlerEvents DEF Nothing, ConnectionEnd
          <5> QED BY <1>1, <1>3, <1>5, <5>1 DEF ConnectionsInv
        <4> QED BY <1>3, <1>5, <1>6, <1>7, <1>9, <3>1, <4>1 DEF Live
      <3>2. CASE d # c
        BY <1>1, <1>3, <1>9, <3>2 DEF ConnectionsInv, Live, Untouched
      <3> QED BY <3>1, <3>2
    <2> QED BY <2>1 DEF ConnectionsInv
  <1>11. NoClosedEvent'
    BY <1>1, <1>3 DEF NoClosedEvent
  <1>12. ASSUME NEW j \in Protocols PROVE FlowAt(c, j)'
    <2> DEFINE close == Event("CloseDesired", j)
               note == Event("Notification", j)
               done == Event("HandshakeCompleted", j)
    <2>1. /\ Announced(c, j) \/ Led(note, done, t)
          /\ h.protocols[j].state = "Open" =>
               Announced(c, j) \/ In(done, t) \/ In(done, h.pending_events)
      BY <1>1 DEF FlowAt, AnnouncedAt, ProtoOf
    <2>2. connection'[c] = connection[c] /\ commands'[c] = commands[c]
      BY <1>3
    <2>3. CASE /\ g.protocols = h.protocols /\ e \in HandlerEvent
               /\ e.type \notin {"CloseDesired", "Notification"}
               /\ \A x : In(x, h.pending_events) => x = e \/ In(x, g.pending_events)
      <3>1. e # close /\ e # note
        BY <2>3, HandlerEvents
      <3>2. ASSUME NEW type \in {"OpenDesiredByRemote", "HandshakeCompleted"},
                   In(Event(type, j), h.pending_events)
            PROVE  In(Event(type, j), g.pending_events) \/ In(Event(type, j), u)
        <4>1. Event(type, j).type # "OutboundSubstreamRequest"
          BY HandlerEvents
        <4> QED BY <1>7, <2>3, <3>2, <4>1
      <3>3. Announced(c, j) \/ Led(note, done, u)
        BY <1>7, <2>1, <3>1
      <3> HIDE DEF close, note, done
      <3>4. (In(close, u) <=> In(close, t)) /\ (Once(close, t) => Once(close, u))
        BY <1>7, <3>1
      <3> QED BY <1>1, <1>3, <1>4, <1>5, <1>7, <1>9, <2>2, <2>3, <3>2, <3>3, <3>4, PollFlow
              DEF close, note, done
    <2>4. CASE /\ \A x : ~In(x, h.pending_events)
               /\ \A k \in Protocols : Keeps(h.protocols[k], g.protocols[k])
               /\ \/ e = Nothing
                  \/ \E k \in Protocols : e = Event("Notification", k)
                                          /\ h.protocols[k].state = "Open"
      <3>1. e # close /\ (e = note => h.protocols[j].state = "Open")
        BY <2>4, HandlerEvents DEF EventTypes
      <3>2. /\ BrokenSession(g.protocols[j]) <=> BrokenSession(h.protocols[j])
            /\ g.protocols[j].state = h.protocols[j].state
        BY <2>4 DEF Keeps, BrokenSession
      <3>3. Announced(c, j) \/ Led(note, done, u)
        BY <1>7, <2>1, <2>4, <3>1
      <3> HIDE DEF close, note, done
      <3>4. (In(close, u) <=> In(close, t)) /\ (Once(close, t) => Once(close, u))
        BY <1>7, <3>1
      <3> QED BY <1>1, <1>3, <1>4, <1>5, <1>7, <1>9, <2>2, <2>4, <3>2, <3>3, <3>4, PollFlow
              DEF close, note, done
    <2>5. ASSUME \A x : ~In(x, h.pending_events),
                 NEW k \in Protocols, e = Event("CloseDesired", k),
                 Breaks(h.protocols[k], g.protocols[k]),
                 \A l \in Protocols \ {k} : Keeps(h.protocols[l], g.protocols[l])
          PROVE  FlowAt(c, j)'
      <3>1. e # note /\ e \in HandlerEvent /\ e.type # "OutboundSubstreamRequest"
        BY <2>5, HandlerEvents DEF EventTypes
      <3>2. Announced(c, j) \/ Led(note, done, u)
        BY <1>7, <2>1, <3>1
      <3>3. CASE j = k
        <4>1. /\ BrokenSession(g.protocols[j]) /\ ~BrokenSession(h.protocols[j])
              /\ g.protocols[j].state = h.protocols[j].state
          BY <2>5, <3>3 DEF Breaks, BrokenSession
        <4>2. In(close, u)
          BY <1>7, <2>5, <3>1, <3>3
        <4>3. ~In(close, t) => Once(close, u)
          BY <1>7, OnceNone
        <4> HIDE DEF close, note, done
        <4> QED BY <1>1, <1>3, <1>4, <1>5, <1>7, <1>9, <2>2, <2>5, <3>2, <4>1, <4>2, <4>3, PollFlow
                DEF close, note, done
      <3>4. CASE j # k
        <4>1. /\ BrokenSession(g.protocols[j]) <=> BrokenSession(h.protocols[j])
              /\ g.protocols[j].state = h.protocols[j].state
          BY <2>5, <3>4 DEF Keeps, BrokenSession
        <4>2. e # close
          BY <2>5, <3>4, HandlerEvents
        <4> HIDE DEF close, note, done
        <4>3. (In(close, u) <=> In(close, t)) /\ (Once(close, t) => Once(close, u))
          BY <1>7, <4>2
        <4> QED BY <1>1, <1>3, <1>4, <1>5, <1>7, <1>9, <2>2, <2>5, <3>2, <4>1, <4>3, PollFlow
                DEF close, note, done
      <3> QED BY <3>3, <3>4
    <2> QED BY <1>5, <2>3, <2>4, <2>5 DEF SocketResult
  <1>13. \A d \in Conns \ {c}, j \in Protocols : FlowAt(d, j)'
    BY <1>1, <1>3, <1>9, Others
  <1> QED BY <1>8, <1>10, <1>11, <1>12, <1>13, PartsNext

(* The connection ends.  What is said of a live connection's commands is   *)
(* no longer needed; what it still sends is in order.                      *)
LEMMA ConnectionLostKeeps ==
  ASSUME IInv, NEW c \in Conns, ConnectionLost(c)
  PROVE  IInv'
  <1>1. /\ TypeOK /\ ConnectionsInv /\ NoClosedEvent
        /\ \A d \in Conns, j \in Protocols : FlowAt(d, j)
    BY Parts
  <1> DEFINE t == toBehaviour[c]
             u == Append(t, ConnectionEnd)
  <1>2. /\ connection' = [connection EXCEPT ![c] = "Lost"]
        /\ toBehaviour' = [toBehaviour EXCEPT ![c] = u]
        /\ commands' = [commands EXCEPT ![c] = << >>]
        /\ UNCHANGED <<handlers, requests, announced, inbounds, events, peers_details, app>>
    BY DEF ConnectionLost, handlerVars, behaviourVars
  <1>3. t \in Seq(HandlerEvent \cup {ConnectionEnd})
    BY <1>1, AtConnection
  <1>4. u \in Seq(HandlerEvent \cup {ConnectionEnd}) /\ \A x : In(x, t) => In(x, u)
    BY <1>3, InAppend
  <1>5. \A i \in Protocols : \A a : Led(Event("Notification", i), a, t)
                                      => Led(Event("Notification", i), a, u)
    <2>1. \A i : Event("Notification", i) # ConnectionEnd
      BY HandlerEvents DEF EventTypes
    <2> QED BY <1>3, <2>1, LedAppend
  <1> HIDE DEF u
  <1>6. << >> \in Seq(Command)
    OBVIOUS
  <1>7. TypeOK'
    BY <1>1, <1>2, <1>4, <1>6 DEF TypeOK
  <1>8. /\ connection'[c] = "Lost" /\ toBehaviour'[c] = u
        /\ \A d \in Conns \ {c} : /\ connection'[d] = connection[d]
                                  /\ commands'[d] = commands[d]
                                  /\ toBehaviour'[d] = toBehaviour[d]
    BY <1>1, <1>2 DEF TypeOK
  <1>9. ConnectionsInv'
    <2>1. ASSUME NEW d \in Conns
          PROVE  /\ Good(handlers'[d], requests'[d], announced'[d])
                 /\ Unqueued(handlers'[d])
                 /\ connection'[d] = "None" => Untouched(d)'
                 /\ Live(d)' => ~In(ConnectionEnd, toBehaviour'[d])
      <3>1. CASE d = c
        BY <1>1, <1>2, <1>8, <3>1 DEF ConnectionsInv, Live
      <3>2. CASE d # c
        BY <1>1, <1>2, <1>8, <3>2 DEF ConnectionsInv, Live, Untouched
      <3> QED BY <3>1, <3>2
    <2> QED BY <2>1 DEF ConnectionsInv
  <1>10. NoClosedEvent'
    BY <1>1, <1>2 DEF NoClosedEvent
  <1>11. ASSUME NEW j \in Protocols PROVE FlowAt(c, j)'
    <2>1. AnnouncedAt(c, j)
      BY <1>1 DEF FlowAt
    <2>2. AnnouncedAt(c, j)'
      BY <1>2, <1>4, <1>5, <1>8, <2>1
         DEF AnnouncedAt, Announced, OpenTold, ProtoOf, GenerateEvent, Event
    <2> QED BY <1>8, <2>2 DEF FlowAt, CloseAt, RemoteAt, Live
  <1>12. \A d \in Conns \ {c}, j \in Protocols : FlowAt(d, j)'
    BY <1>1, <1>2, <1>8, Others
  <1> QED BY <1>7, <1>9, <1>10, <1>11, <1>12, PartsNext

-----------------------------------------------------------------------------
(* The behaviour queues events about connection c only.                    *)
LEMMA OthersQueue ==
  ASSUME NEW c \in Conns, \A d \in Conns, i \in Protocols : FlowAt(d, i),
         events \in Seq(ToSwarm), NEW v \in Seq(ToSwarm), events' = events \o v,
         \A x : In(x, v) => x.conn = c,
         \A d \in Conns \ {c} : /\ connection'[d] = connection[d] /\ handlers'[d] = handlers[d]
                                /\ commands'[d] = commands[d] /\ toBehaviour'[d] = toBehaviour[d],
         UNCHANGED app
  PROVE  \A d \in Conns \ {c}, i \in Protocols : FlowAt(d, i)'
  <1> SUFFICES ASSUME NEW d \in Conns \ {c}, NEW i \in Protocols PROVE FlowAt(d, i)'
    OBVIOUS
  <1>1. \A w : ~In(NotifyHandler(d, w, i), v) /\ ~In(GenerateEvent(d, w, i), v)
    <2>1. \A w : NotifyHandler(d, w, i).conn = d /\ GenerateEvent(d, w, i).conn = d
      BY DEF NotifyHandler, GenerateEvent
    <2> QED BY <2>1
  <1>2. \A x : /\ In(x, events') <=> In(x, events) \/ In(x, v)
               /\ Once(x, events) /\ ~In(x, v) => Once(x, events')
    BY InConcat
  <1>3. \A a : Led(GenerateEvent(d, "Notification", i), a, events)
                 => Led(GenerateEvent(d, "Notification", i), a, events')
    BY <1>1, LedConcat
  <1>4. In(OpenTold(d, i), events') <=> In(OpenTold(d, i), events)
    BY <1>1, <1>2 DEF OpenTold
  <1> QED BY <1>1, <1>2, <1>3, <1>4, Bystander

(* What is said of a connection that is not there yet.                     *)
LEMMA UntouchedIn ==
  ASSUME NEW d \in Conns
  PROVE  /\ Untouched(d) <=> /\ handlers[d] = NewHandler
                             /\ commands[d] = << >> /\ toBehaviour[d] = << >>
                             /\ \A x : In(x, events) => x.conn # d
         /\ Untouched(d)' <=> /\ handlers'[d] = NewHandler
                              /\ commands'[d] = << >> /\ toBehaviour'[d] = << >>
                              /\ \A x : In(x, events') => x.conn # d
  BY DEF Untouched, In

(* on_swarm_event(ConnectionEstablished)                                   *)
LEMMA ConnectionEstablishedKeeps ==
  ASSUME IInv, NEW c \in Conns, ConnectionEstablished(c)
  PROVE  IInv'
  <1>1. /\ TypeOK /\ ConnectionsInv /\ NoClosedEvent
        /\ \A d \in Conns, j \in Protocols : FlowAt(d, j)
    BY Parts
  <1> DEFINE v == NotifyAll(c, "Open")
  <1>2. /\ connection[c] = "None" /\ connection' = [connection EXCEPT ![c] = "Live"]
        /\ peers_details' = [peers_details EXCEPT ![PeerOf[c]] = @ \cup {c}]
        /\ events' = events \o v
        /\ UNCHANGED <<handlers, requests, announced, commands, toBehaviour, inbounds, app>>
    BY DEF ConnectionEstablished, handlerVars
  <1>3. v \in Seq(ToSwarm) /\ \A x : In(x, v) => \E i \in Protocols : x = NotifyHandler(c, "Open", i)
    BY NotifyAllTypes
  <1>4. \A x : In(x, v) => x.conn = c /\ x.what = "Open" /\ x.kind = "NotifyHandler"
    BY <1>3 DEF NotifyHandler
  <1> HIDE DEF v
  <1>5. events \in Seq(ToSwarm)
    BY <1>1 DEF TypeOK
  <1>6. events' \in Seq(ToSwarm) /\ \A x : In(x, events') <=> In(x, events) \/ In(x, v)
    BY <1>2, <1>3, <1>5, InConcat
  <1>7. TypeOK'
    <2>1. peers_details' \in [Peers -> SUBSET Conns]
      BY <1>1, <1>2 DEF TypeOK, Peers
    <2> QED BY <1>1, <1>2, <1>6, <2>1 DEF TypeOK
  <1>8. connection'[c] = "Live" /\ \A d \in Conns \ {c} : connection'[d] = connection[d]
    BY <1>1, <1>2 DEF TypeOK
  <1>9. Untouched(c)
    BY <1>1, <1>2 DEF ConnectionsInv
  <1>10. /\ handlers[c] = NewHandler /\ commands[c] = << >> /\ toBehaviour[c] = << >>
         /\ \A x : In(x, events) => x.conn # c
    BY <1>9, UntouchedIn
  <1>11. ConnectionsInv'
    <2>1. ASSUME NEW d \in Conns
          PROVE  /\ Good(handlers'[d], requests'[d], announced'[d])
                 /\ Unqueued(handlers'[d])
                 /\ connection'[d] = "None" => Untouched(d)'
                 /\ Live(d)' => ~In(ConnectionEnd, toBehaviour'[d])
      <3>1. CASE d = c
        <4>1. ~In(ConnectionEnd, toBehaviour'[d])
          BY <1>2, <1>10, <3>1, InEmpty
        <4> QED BY <1>1, <1>2, <1>8, <3>1, <4>1 DEF ConnectionsInv, Live
      <3>2. CASE d # c
        <4>1. connection'[d] = "None" => Untouched(d)'
          BY <1>1, <1>2, <1>4, <1>6, <1>8, <3>2, UntouchedIn, SMTT(30) DEF ConnectionsInv
        <4> QED BY <1>1, <1>2, <1>8, <3>2, <4>1 DEF ConnectionsInv, Live
      <3> QED BY <3>1, <3>2
    <2> QED BY <2>1 DEF ConnectionsInv
  <1>12. NoClosedEvent'
    BY <1>1, <1>4, <1>6 DEF NoClosedEvent
  <1>13. ASSUME NEW j \in Protocols PROVE FlowAt(c, j)'
    <2>1. handlers'[c].protocols[j].state = "Closed" /\ handlers'[c].pending_events = << >>
      BY <1>2, <1>10 DEF NewHandler, Closed
    <2>2. /\ \A x : ~In(x, handlers'[c].pending_events) /\ Once(x, handlers'[c].pending_events)
          /\ \A x : ~In(x, commands'[c]) /\ Once(x, commands'[c])
          /\ \A x : ~In(x, toBehaviour'[c]) /\ Once(x, toBehaviour'[c])
      BY <1>2, <1>10, <2>1, InEmpty
    <2>3. ~In(NotifyHandler(c, "Close", j), events')
      BY <1>4, <1>6, <1>10 DEF NotifyHandler
    <2>4. Once(NotifyHandler(c, "Close", j), events')
      BY <2>3, OnceNone
    <2>5. ~In(GenerateEvent(c, "Notification", j), events')
      BY <1>4, <1>6, <1>10 DEF GenerateEvent
    <2>6. Led(GenerateEvent(c, "Notification", j), OpenTold(c, j), events')
      BY <2>5, LedNone
    <2>7. Led(Event("Notification", j), Event("HandshakeCompleted", j), toBehaviour'[c])
      BY <2>2, LedNone
    <2>8. CloseAt(c, j)'
      BY <2>1, <2>2, <2>3, <2>4 DEF CloseAt, Broken, ProtoOf, OnItsWay, OneClose, NotifyHandler, Event
    <2>9. RemoteAt(c, j)'
      BY <2>1 DEF RemoteAt, ProtoOf
    <2>10. AnnouncedAt(c, j)'
      BY <2>1, <2>6, <2>7 DEF AnnouncedAt, ProtoOf, OpenTold, GenerateEvent, Event
    <2> QED BY <2>8, <2>9, <2>10 DEF FlowAt
  <1>14. \A d \in Conns \ {c}, j \in Protocols : FlowAt(d, j)'
    BY <1>1, <1>2, <1>3, <1>4, <1>5, <1>8, OthersQueue
  <1> QED BY <1>7, <1>11, <1>12, <1>13, <1>14, PartsNext

(* What the behaviour queues when a handler's event arrives.               *)
LEMMA ReactionQueue ==
  ASSUME NEW c \in Conns, NEW e \in HandlerEvent, NEW j \in Protocols
  PROVE  LET v == Reaction(c, e)
         IN  /\ \A x : In(x, v) => x.conn = c /\ x.what # "CustomProtocolClosed"
             /\ \A x : Once(x, v)
             /\ In(NotifyHandler(c, "Close", j), v) <=> e = Event("CloseDesired", j)
             /\ In(NotifyHandler(c, "Open", j), v) <=> e = Event("OpenDesiredByRemote", j)
             /\ In(OpenTold(c, j), v) <=> e = Event("HandshakeCompleted", j)
             /\ In(GenerateEvent(c, "Notification", j), v) <=> e = Event("Notification", j)
  <1> DEFINE v == Reaction(c, e)
             k == e.index
             t == e.type
  <1>1. /\ t \in EventTypes /\ k \in Protocols /\ e = Event(t, k)
        /\ \A u, i : Event(t, k) = Event(u, i) <=> t = u /\ k = i
    BY HandlerEvents
  <1>2. ASSUME NEW y PROVE \A x : (In(x, <<y>>) <=> x = y) /\ Once(x, <<y>>)
    BY DEF In, Once
  <1>3. /\ \A w, u, i : NotifyHandler(c, w, k) = NotifyHandler(c, u, i) <=> w = u /\ k = i
        /\ \A w, u, i : GenerateEvent(c, w, k) = GenerateEvent(c, u, i) <=> w = u /\ k = i
        /\ \A w, u, i : /\ NotifyHandler(c, w, k) # GenerateEvent(c, u, i)
                        /\ GenerateEvent(c, w, k) # NotifyHandler(c, u, i)
        /\ \A w : NotifyHandler(c, w, k).conn = c /\ NotifyHandler(c, w, k).what = w
        /\ \A w : GenerateEvent(c, w, k).conn = c /\ GenerateEvent(c, w, k).what = w
    BY DEF NotifyHandler, GenerateEvent
  <1> HIDE DEF k, t
  <1>4. CASE t = "HandshakeCompleted"
    <2>1. v = <<GenerateEvent(c, "CustomProtocolOpen", k)>>
      BY <1>4, Reactions DEF OpenTold, t, k
    <2>2. \A u, i : e = Event(u, i) <=> u = "HandshakeCompleted" /\ i = k
      BY <1>1, <1>4
    <2> HIDE DEF v
    <2> QED BY <1>2, <1>3, <2>1, <2>2 DEF OpenTold, v
  <1>5. CASE t = "OpenDesiredByRemote"
    <2>1. v = <<NotifyHandler(c, "Open", k)>>
      BY <1>5, Reactions DEF t, k
    <2>2. \A u, i : e = Event(u, i) <=> u = "OpenDesiredByRemote" /\ i = k
      BY <1>1, <1>5
    <2>3. \A x : (In(x, v) <=> x = NotifyHandler(c, "Open", k)) /\ Once(x, v)
      BY <1>2, <2>1
    <2> HIDE DEF v
    <2>4. /\ \A w : In(NotifyHandler(c, w, j), v) <=> w = "Open" /\ j = k
          /\ \A w : ~In(GenerateEvent(c, w, j), v)
      BY <2>3 DEF NotifyHandler, GenerateEvent
    <2>5. \A x : In(x, v) => x.conn = c /\ x.what # "CustomProtocolClosed"
      BY <1>3, <2>3
    <2> QED BY <2>2, <2>3, <2>4, <2>5 DEF OpenTold, v
  <1>6. CASE t = "CloseDesired"
    <2>1. v = <<NotifyHandler(c, "Close", k)>>
      BY <1>6, Reactions DEF t, k
    <2>2. \A u, i : e = Event(u, i) <=> u = "CloseDesired" /\ i = k
      BY <1>1, <1>6
    <2>3. \A x : (In(x, v) <=> x = NotifyHandler(c, "Close", k)) /\ Once(x, v)
      BY <1>2, <2>1
    <2> HIDE DEF v
    <2>4. /\ \A w : In(NotifyHandler(c, w, j), v) <=> w = "Close" /\ j = k
          /\ \A w : ~In(GenerateEvent(c, w, j), v)
      BY <2>3 DEF NotifyHandler, GenerateEvent
    <2>5. \A x : In(x, v) => x.conn = c /\ x.what # "CustomProtocolClosed"
      BY <1>3, <2>3
    <2> QED BY <2>2, <2>3, <2>4, <2>5 DEF OpenTold, v
  <1>7. CASE t = "Notification"
    <2>1. v = <<GenerateEvent(c, "Notification", k)>>
      BY <1>7, Reactions DEF t, k
    <2>2. \A u, i : e = Event(u, i) <=> u = "Notification" /\ i = k
      BY <1>1, <1>7
    <2> HIDE DEF v
    <2> QED BY <1>2, <1>3, <2>1, <2>2 DEF OpenTold, v
  <1>8. CASE t \notin {"HandshakeCompleted", "OpenDesiredByRemote", "CloseDesired", "Notification"}
    <2>1. v = << >>
      BY <1>8, Reactions DEF t
    <2>2. \A x : ~In(x, v) /\ Once(x, v)
      BY <2>1, InEmpty
    <2> HIDE DEF v
    <2> QED BY <1>1, <1>8, <2>2 DEF v
  <1> QED BY <1>4, <1>5, <1>6, <1>7, <1>8

(* The swarm takes the next event of a connection.                         *)
LEMMA PoolEventKeeps ==
  ASSUME IInv, NEW c \in Conns, PoolEvent(c)
  PROVE  IInv'
  <1>1. /\ TypeOK /\ ConnectionsInv /\ NoClosedEvent
        /\ \A d \in Conns, j \in Protocols : FlowAt(d, j)
    BY Parts
  <1> DEFINE t == toBehaviour[c]
             u == Tail(t)
             e == Head(t)
  <1>2. /\ events = << >> /\ t # << >> /\ toBehaviour' = [toBehaviour EXCEPT ![c] = u]
        /\ UNCHANGED <<handlers, requests, announced, commands, inbounds, app>>
    BY DEF PoolEvent, handlerVars
  <1>3. IF e = ConnectionEnd THEN ConnectionClosed(c) ELSE OnHandlerEvent(c, e)
    BY DEF PoolEvent
  <1>4. t \in Seq(HandlerEvent \cup {ConnectionEnd})
    BY <1>1, AtConnection
  <1>5. /\ e \in HandlerEvent \cup {ConnectionEnd} /\ u \in Seq(HandlerEvent \cup {ConnectionEnd})
        /\ \A x : In(x, t) <=> x = e \/ In(x, u)
        /\ \A x : Once(x, t) => Once(x, u) /\ ~(x = e /\ In(x, u))
    BY <1>2, <1>4, InTail
  <1>6. \A a, b : Led(b, a, t) => e # b /\ (e # a => Led(b, a, u))
    BY <1>2, <1>4, LedTail
  <1> HIDE DEF t, u, e
  <1>7. events \in Seq(ToSwarm) /\ \A x : ~In(x, events) /\ Once(x, events)
    BY <1>1, <1>2, InEmpty DEF TypeOK
  <1>8. toBehaviour'[c] = u /\ \A d \in Conns \ {c} : toBehaviour'[d] = toBehaviour[d]
    BY <1>1, <1>2 DEF TypeOK
  <1>9. connection[c] # "None"
    BY <1>1, <1>2 DEF ConnectionsInv, Untouched, t
  <1>10. PICK v \in Seq(ToSwarm) :
           /\ events' = events \o v
           /\ \A x : In(x, v) => x.conn = c /\ x.what # "CustomProtocolClosed"
           /\ \/ e = ConnectionEnd /\ v = NotifyAll(c, "Close") /\ connection'[c] = "Closed"
              \/ e \in HandlerEvent /\ v = Reaction(c, e) /\ connection'[c] = connection[c]
           /\ \A d \in Conns \ {c} : connection'[d] = connection[d]
           /\ connection' \in [Conns -> {"None", "Live", "Lost", "Closed"}]
           /\ peers_details' \in [Peers -> SUBSET Conns]
    <2>1. CASE e = ConnectionEnd
      <3>1. /\ connection' = [connection EXCEPT ![c] = "Closed"]
            /\ peers_details' = [peers_details EXCEPT ![PeerOf[c]] = @ \ {c}]
            /\ events' = events \o NotifyAll(c, "Close")
        BY <1>3, <2>1 DEF ConnectionClosed
      <3>2. /\ connection'[c] = "Closed" /\ \A d \in Conns \ {c} : connection'[d] = connection[d]
            /\ connection' \in [Conns -> {"None", "Live", "Lost", "Closed"}]
            /\ peers_details' \in [Peers -> SUBSET Conns]
        BY <1>1, <3>1 DEF TypeOK, Peers
      <3>3. /\ NotifyAll(c, "Close") \in Seq(ToSwarm)
            /\ \A x : In(x, NotifyAll(c, "Close"))
                        => \E i \in Protocols : x = NotifyHandler(c, "Close", i)
        BY NotifyAllTypes
      <3>4. \A i : /\ NotifyHandler(c, "Close", i).conn = c
                   /\ NotifyHandler(c, "Close", i).what # "CustomProtocolClosed"
        BY DEF NotifyHandler
      <3>5. \A x : In(x, NotifyAll(c, "Close")) => x.conn = c /\ x.what # "CustomProtocolClosed"
        BY <3>3, <3>4
      <3> QED BY <2>1, <3>1, <3>2, <3>3, <3>5, Zenon
    <2>2. CASE e # ConnectionEnd
      <3>1. events' = events \o Reaction(c, e) /\ UNCHANGED <<connection, peers_details>>
        BY <1>3, <2>2 DEF OnHandlerEvent
      <3>2. /\ e \in HandlerEvent /\ Reaction(c, e) \in Seq(ToSwarm)
            /\ connection' \in [Conns -> {"None", "Live", "Lost", "Closed"}]
            /\ peers_details' \in [Peers -> SUBSET Conns]
        BY <1>1, <1>5, <2>2, <3>1, Reactions DEF TypeOK
      <3>3. \A x : In(x, Reaction(c, e)) => x.conn = c /\ x.what # "CustomProtocolClosed"
        <4>1. 0 \in Protocols
          BY HandlerAssumption DEF Protocols
        <4> QED BY <3>2, <4>1, ReactionQueue
      <3> QED BY <3>1, <3>2, <3>3, Zenon
    <2> QED BY <2>1, <2>2
  <1>11. events' \in Seq(ToSwarm) /\ \A x : (In(x, events') <=> In(x, v))
                                            /\ (Once(x, v) => Once(x, events'))
    <2>1. << >> \o v = v
      OBVIOUS
    <2> QED BY <1>2, <1>10, <2>1
  <1>12. TypeOK'
    BY <1>1, <1>2, <1>5, <1>10, <1>11 DEF TypeOK
  <1>13. ConnectionsInv'
    <2>1. ASSUME NEW d \in Conns
          PROVE  /\ Good(handlers'[d], requests'[d], announced'[d])
                 /\ Unqueued(handlers'[d])
                 /\ connection'[d] = "None" => Untouched(d)'
                 /\ Live(d)' => ~In(ConnectionEnd, toBehaviour'[d])
      <3>1. CASE d = c
        <4>1. connection'[c] # "None" /\ (Live(c)' => Live(c))
          BY <1>9, <1>10 DEF Live
        <4> QED BY <1>1, <1>2, <1>5, <1>8, <3>1, <4>1 DEF ConnectionsInv, t
      <3>2. CASE d # c
        <4>1. connection'[d] = "None" => Untouched(d)'
          BY <1>1, <1>2, <1>8, <1>10, <1>11, <3>2, UntouchedIn DEF ConnectionsInv
        <4> QED BY <1>1, <1>2, <1>8, <1>10, <3>2, <4>1 DEF ConnectionsInv, Live
      <3> QED BY <3>1, <3>2
    <2> QED BY <2>1 DEF ConnectionsInv
  <1>14. NoClosedEvent'
    BY <1>10, <1>11 DEF NoClosedEvent
  <1>15. ASSUME NEW j \in Protocols PROVE FlowAt(c, j)'
    <2> DEFINE done == Event("HandshakeCompleted", j)
               note == Event("Notification", j)
               told == GenerateEvent(c, "Notification", j)
    <2>1. CloseAt(c, j) /\ RemoteAt(c, j) /\ AnnouncedAt(c, j)
      BY <1>1 DEF FlowAt
    <2>2. /\ <<c, j>> \in app \/ Led(note, done, t)
          /\ ProtoOf(c, j).state = "Open" =>
               <<c, j>> \in app \/ In(done, t) \/ In(done, handlers[c].pending_events)
      BY <1>7, <2>1 DEF AnnouncedAt, Announced, t
    <2>3. CASE e = ConnectionEnd /\ v = NotifyAll(c, "Close") /\ connection'[c] = "Closed"
      <3>1. /\ \A x : In(x, v) => \E i \in Protocols : x = NotifyHandler(c, "Close", i)
            /\ \A i : NotifyHandler(c, "Close", i) # told
        BY <2>3, NotifyAllTypes DEF NotifyHandler, GenerateEvent
      <3>2. Led(told, OpenTold(c, j), events')
        BY <1>11, <3>1, LedNone
      <3>3. e # done
        BY <2>3, HandlerEvents DEF EventTypes
      <3>4. /\ <<c, j>> \in app \/ Led(note, done, u)
            /\ ProtoOf(c, j).state = "Open" =>
                 <<c, j>> \in app \/ In(done, u) \/ In(done, handlers[c].pending_events)
        BY <1>5, <1>6, <2>2, <3>3
      <3>5. AnnouncedAt(c, j)'
        BY <1>2, <1>8, <3>2, <3>4
           DEF AnnouncedAt, Announced, OpenTold, ProtoOf, GenerateEvent, Event
      <3> QED BY <2>3, <3>5 DEF FlowAt, CloseAt, RemoteAt, Live
    <2>4. CASE e \in HandlerEvent /\ v = Reaction(c, e) /\ connection'[c] = connection[c]
      <3>1. /\ \A x : Once(x, events')
            /\ In(NotifyHandler(c, "Close", j), events') <=> e = Event("CloseDesired", j)
            /\ In(NotifyHandler(c, "Open", j), events') <=> e = Event("OpenDesiredByRemote", j)
            /\ In(OpenTold(c, j), events') <=> e = done
            /\ In(told, events') <=> e = note
        BY <1>11, <2>4, ReactionQueue
      <3>2. CloseAt(c, j)'
        <4> DEFINE desired == Event("CloseDesired", j)
        <4>1. /\ In(desired, t) <=> desired = e \/ In(desired, u)
              /\ Once(desired, t) => Once(desired, u) /\ ~(desired = e /\ In(desired, u))
          BY <1>5
        <4> QED BY <1>2, <1>7, <1>8, <2>1, <2>4, <3>1, <4>1
                DEF CloseAt, Live, Broken, ProtoOf, OnItsWay, OneClose, NotifyHandler, Event, t
      <3>3. RemoteAt(c, j)'
        BY <1>2, <1>5, <1>7, <1>8, <2>1, <2>4, <3>1
           DEF RemoteAt, Live, ProtoOf, OnItsWay, NotifyHandler, Event, t
      <3>4. AnnouncedAt(c, j)'
        <4>1. <<c, j>> \in app \/ Led(told, OpenTold(c, j), events')
          <5>1. CASE e = note
            BY <1>6, <2>2, <5>1
          <5>2. CASE e # note
            BY <3>1, <5>2, LedNone
          <5> QED BY <5>1, <5>2
        <4>2. /\ <<c, j>> \in app \/ In(OpenTold(c, j), events') \/ Led(note, done, u)
              /\ ProtoOf(c, j).state = "Open" =>
                   \/ <<c, j>> \in app \/ In(OpenTold(c, j), events')
                   \/ In(done, u) \/ In(done, handlers[c].pending_events)
          BY <1>5, <1>6, <2>2, <3>1
        <4> QED BY <1>2, <1>8, <4>1, <4>2
                DEF AnnouncedAt, Announced, OpenTold, ProtoOf, GenerateEvent, Event
      <3> QED BY <3>2, <3>3, <3>4 DEF FlowAt
    <2> QED BY <1>10, <2>3, <2>4
  <1>16. \A d \in Conns \ {c}, j \in Protocols : FlowAt(d, j)'
    BY <1>1, <1>2, <1>7, <1>8, <1>10, OthersQueue
  <1> QED BY <1>12, <1>13, <1>14, <1>15, <1>16, PartsNext

(* The oldest event of the behaviour leaves, seen by one protocol.         *)
LEMMA PolledFlow ==
  ASSUME NEW d \in Conns, NEW j \in Protocols, FlowAt(d, j),
         UNCHANGED <<connection, handlers, toBehaviour>>, NEW e,
         \A x : In(x, events) <=> x = e \/ In(x, events'),
         \A x : Once(x, events) => Once(x, events') /\ ~(x = e /\ In(x, events')),
         \A a, b : Led(b, a, events) => e # b /\ (e # a => Led(b, a, events')),
         \A w : In([what |-> w, index |-> j], commands'[d]) <=>
                  \/ In([what |-> w, index |-> j], commands[d])
                  \/ Live(d) /\ e = NotifyHandler(d, w, j),
         NEW close, close = [what |-> "Close", index |-> j],
         Once(close, commands[d]) /\ ~(e = NotifyHandler(d, "Close", j) /\ In(close, commands[d]))
           => Once(close, commands'[d]),
         <<d, j>> \in app' <=> <<d, j>> \in app \/ e = OpenTold(d, j)
  PROVE  FlowAt(d, j)'
  <1> DEFINE asked == NotifyHandler(d, "Close", j)
             told == GenerateEvent(d, "Notification", j)
  <1>0. CloseAt(d, j) /\ RemoteAt(d, j) /\ AnnouncedAt(d, j)
    BY DEF FlowAt
  <1>1. CloseAt(d, j)'
    <2>1. /\ In(asked, events) <=> asked = e \/ In(asked, events')
          /\ Once(asked, events) => Once(asked, events') /\ ~(asked = e /\ In(asked, events'))
          /\ In(close, commands'[d]) <=> In(close, commands[d]) \/ (Live(d) /\ e = asked)
      OBVIOUS
    <2> QED BY <1>0, <2>1
            DEF CloseAt, Live, Broken, ProtoOf, OnItsWay, OneClose, NotifyHandler, Event
  <1>2. RemoteAt(d, j)'
    BY <1>0 DEF RemoteAt, Live, ProtoOf, OnItsWay, NotifyHandler, Event
  <1>3. AnnouncedAt(d, j)'
    <2>1. /\ In(OpenTold(d, j), events) <=> OpenTold(d, j) = e \/ In(OpenTold(d, j), events')
          /\ Led(told, OpenTold(d, j), events) =>
               e = OpenTold(d, j) \/ Led(told, OpenTold(d, j), events')
      OBVIOUS
    <2> QED BY <1>0, <2>1
            DEF AnnouncedAt, Announced, OpenTold, ProtoOf, GenerateEvent, Event
  <1> QED BY <1>1, <1>2, <1>3 DEF FlowAt

(* poll of the behaviour, and the routing of the event.                    *)
LEMMA BehaviourPollKeeps ==
  ASSUME IInv, BehaviourPoll
  PROVE  IInv'
  <1>1. /\ TypeOK /\ ConnectionsInv /\ NoClosedEvent
        /\ \A d \in Conns, j \in Protocols : FlowAt(d, j)
    BY Parts
  <1> DEFINE e == Head(events)
             m == [what |-> e.what, index |-> e.index]
  <1>2. /\ events # << >> /\ events' = Tail(events) /\ events \in Seq(ToSwarm)
        /\ commands \in [Conns -> Seq(Command)] /\ app \subseteq Conns \X Protocols
        /\ UNCHANGED <<connection, handlers, requests, announced, toBehaviour, inbounds,
                       peers_details>>
    BY <1>1 DEF BehaviourPoll, handlerVars, TypeOK
  <1>3. IF e.kind = "NotifyHandler"
        THEN /\ commands' = IF connection[e.conn] = "Live"
                            THEN [commands EXCEPT ![e.conn] = Append(@, m)] ELSE commands
             /\ UNCHANGED app
        ELSE app' = Told(e) /\ UNCHANGED commands
    BY DEF BehaviourPoll
  <1>4. /\ e \in ToSwarm /\ events' \in Seq(ToSwarm)
        /\ \A x : In(x, events) <=> x = e \/ In(x, events')
        /\ \A x : Once(x, events) => Once(x, events') /\ ~(x = e /\ In(x, events'))
    BY <1>2, InTail
  <1>5. \A a, b : Led(b, a, events) => e # b /\ (e # a => Led(b, a, events'))
    BY <1>2, LedTail
  <1> HIDE DEF e
  <1>6. /\ e.conn \in Conns /\ e.index \in Protocols
        /\ e.kind = "NotifyHandler" =>
             e.what \in {"Open", "Close"} /\ e = NotifyHandler(e.conn, e.what, e.index)
        /\ e.kind # "NotifyHandler" =>
             /\ e.what \in {"CustomProtocolOpen", "Notification"}
             /\ e = GenerateEvent(e.conn, e.what, e.index)
    <2>1. e.what # "CustomProtocolClosed"
      BY <1>1, <1>4 DEF NoClosedEvent
    <2> QED BY <1>4, <2>1, SwarmEvents
  <1>7. /\ commands' \in [Conns -> Seq(Command)] /\ app' \subseteq Conns \X Protocols
        /\ \A d \in Conns : ~Live(d) => commands'[d] = commands[d]
        /\ \A d \in Conns, j \in Protocols :
             /\ \A w : In([what |-> w, index |-> j], commands'[d]) <=>
                         \/ In([what |-> w, index |-> j], commands[d])
                         \/ Live(d) /\ e = NotifyHandler(d, w, j)
             /\ LET close == [what |-> "Close", index |-> j]
                IN  Once(close, commands[d])
                    /\ ~(e = NotifyHandler(d, "Close", j) /\ In(close, commands[d]))
                      => Once(close, commands'[d])
             /\ <<d, j>> \in app' <=> <<d, j>> \in app \/ e = OpenTold(d, j)
    <2>1. CASE e.kind = "NotifyHandler"
      <3>1. /\ m \in Command /\ app' = app
            /\ \A d, j : e # OpenTold(d, j)
            /\ \A d, w, j : e = NotifyHandler(d, w, j) <=>
                              d = e.conn /\ [what |-> w, index |-> j] = m
        BY <1>3, <1>6, <2>1 DEF Command, NotifyHandler, OpenTold, GenerateEvent
      <3> HIDE DEF m
      <3>2. CASE connection[e.conn] = "Live"
        <4>1. commands' = [commands EXCEPT ![e.conn] = Append(@, m)]
          BY <1>3, <2>1, <3>2 DEF m
        <4>2. \A d \in Conns : commands[d] \in Seq(Command)
          BY <1>2
        <4>3. Append(commands[e.conn], m) \in Seq(Command)
          BY <1>6, <3>1, <4>2
        <4>4. /\ commands' \in [Conns -> Seq(Command)]
              /\ commands'[e.conn] = Append(commands[e.conn], m)
              /\ \A d \in Conns \ {e.conn} : commands'[d] = commands[d]
          BY <1>2, <1>6, <4>1, <4>3
        <4>5. \A x : /\ In(x, commands'[e.conn]) <=> In(x, commands[e.conn]) \/ x = m
                     /\ Once(x, commands[e.conn]) /\ ~(x = m /\ In(x, commands[e.conn]))
                          => Once(x, commands'[e.conn])
          BY <1>6, <4>2, <4>4, InAppend
        <4>6. \A d \in Conns : ~Live(d) => commands'[d] = commands[d]
          BY <3>2, <4>4 DEF Live
        <4>7. ASSUME NEW d \in Conns, NEW j \in Protocols
              PROVE  /\ \A w : In([what |-> w, index |-> j], commands'[d]) <=>
                                 \/ In([what |-> w, index |-> j], commands[d])
                                 \/ Live(d) /\ e = NotifyHandler(d, w, j)
                     /\ LET close == [what |-> "Close", index |-> j]
                        IN  Once(close, commands[d])
                            /\ ~(e = NotifyHandler(d, "Close", j) /\ In(close, commands[d]))
                              => Once(close, commands'[d])
          <5>1. CASE d = e.conn
            BY <3>1, <3>2, <4>5, <5>1 DEF Live
          <5>2. CASE d # e.conn
            BY <3>1, <4>4, <5>2
          <5> QED BY <5>1, <5>2
        <4> QED BY <1>2, <3>1, <4>4, <4>6, <4>7
      <3>3. CASE connection[e.conn] # "Live"
        <4>1. commands' = commands
          BY <1>3, <2>1, <3>3
        <4>2. \A d, w, j : e = NotifyHandler(d, w, j) => ~Live(d)
          BY <3>1, <3>3 DEF Live
        <4> QED BY <1>2, <3>1, <4>1, <4>2
      <3> QED BY <3>2, <3>3
    <2>2. CASE e.kind # "NotifyHandler"
      <3>1. commands' = commands /\ app' = Told(e) /\ \A d, w, j : e # NotifyHandler(d, w, j)
        BY <1>3, <1>6, <2>2 DEF NotifyHandler, GenerateEvent
      <3>2. /\ e.what = "CustomProtocolOpen" => app' = app \cup {<<e.conn, e.index>>}
            /\ e.what = "Notification" => app' = app
        BY <3>1, Zenon DEF Told
      <3>3. \A d, j : e = OpenTold(d, j) <=>
                        e.what = "CustomProtocolOpen" /\ d = e.conn /\ j = e.index
        BY <1>6, <2>2 DEF OpenTold, GenerateEvent
      <3>4. CASE e.what = "CustomProtocolOpen"
        <4>1. app' \subseteq Conns \X Protocols
          BY <1>2, <1>6, <3>2, <3>4
        <4>2. \A d, j : <<d, j>> \in app' <=> <<d, j>> \in app \/ e = OpenTold(d, j)
          BY <3>2, <3>3, <3>4
        <4> QED BY <1>2, <3>1, <4>1, <4>2
      <3>5. CASE e.what = "Notification"
        BY <1>2, <3>1, <3>2, <3>3, <3>5
      <3> QED BY <1>6, <2>2, <3>4, <3>5
    <2> QED BY <2>1, <2>2
  <1>8. TypeOK'
    BY <1>1, <1>2, <1>4, <1>7 DEF TypeOK
  <1>9. ConnectionsInv'
    <2>1. ASSUME NEW d \in Conns, connection'[d] = "None" PROVE Untouched(d)'
      <3>1. Untouched(d) /\ ~Live(d)
        BY <1>1, <1>2, <2>1 DEF ConnectionsInv, Live
      <3> QED BY <1>2, <1>4, <1>7, <3>1, UntouchedIn
    <2> QED BY <1>1, <1>2, <2>1 DEF ConnectionsInv, Live
  <1>10. NoClosedEvent'
    BY <1>1, <1>4 DEF NoClosedEvent
  <1>11. ASSUME NEW d \in Conns, NEW j \in Protocols PROVE FlowAt(d, j)'
    BY <1>1, <1>2, <1>4, <1>5, <1>7, PolledFlow
  <1> QED BY <1>8, <1>9, <1>10, <1>11, PartsNext

-----------------------------------------------------------------------------
(* Before the first connection there is nothing to account for.            *)
LEMMA InitGood ==
  ASSUME Init PROVE IInv
  <1>1. TypeOK
    <2>1. NewHandler \in Handler
      BY NewHandlerGood DEF Good
    <2>2. << >> \in Seq(Command) /\ << >> \in Seq(HandlerEvent \cup {ConnectionEnd})
          /\ << >> \in Seq(ToSwarm) /\ 0 \in 0 .. MaxInbound
      BY NotificationsAssumption
    <2> QED BY <2>1, <2>2 DEF Init, TypeOK
  <1>2. /\ \A x : ~In(x, NewHandler.pending_events)
        /\ \A j \in Protocols : NewHandler.protocols[j].state = "Closed"
    BY InEmpty DEF NewHandler, Closed
  <1>3. ASSUME NEW c \in Conns
        PROVE  /\ connection[c] = "None" /\ handlers[c] = NewHandler
               /\ requests[c] = [i \in Protocols |-> 0]
               /\ announced[c] = [i \in Protocols |-> FALSE]
               /\ commands[c] = << >> /\ toBehaviour[c] = << >> /\ events = << >>
    BY DEF Init
  <1>4. \A x : ~In(x, events)
    BY InEmpty DEF Init
  <1>5. ConnectionsInv
    <2>1. ASSUME NEW c \in Conns
          PROVE  /\ Good(handlers[c], requests[c], announced[c])
                 /\ Unqueued(handlers[c])
                 /\ connection[c] = "None" => Untouched(c)
                 /\ Live(c) => ~In(ConnectionEnd, toBehaviour[c])
      BY <1>2, <1>3, <1>4, NewHandlerGood, UntouchedIn DEF Unqueued, Live
    <2> QED BY <2>1 DEF ConnectionsInv
  <1>6. ASSUME NEW c \in Conns, NEW j \in Protocols PROVE FlowAt(c, j)
    <2>1. ~In(Event("Notification", j), toBehaviour[c])
      BY <1>3, InEmpty
    <2>2. /\ Led(Event("Notification", j), Event("HandshakeCompleted", j), toBehaviour[c])
          /\ Led(GenerateEvent(c, "Notification", j), OpenTold(c, j), events)
      BY <1>4, <2>1, LedNone
    <2> QED BY <1>2, <1>3, <2>2 DEF FlowAt, CloseAt, RemoteAt, AnnouncedAt, Live, ProtoOf
  <1>7. NoClosedEvent
    BY <1>4 DEF NoClosedEvent
  <1> QED BY <1>1, <1>5, <1>6, <1>7, Parts

LEMMA NextGood ==
  ASSUME IInv, [Next]_vars PROVE IInv'
  <1>1. CASE UNCHANGED vars
    BY <1>1 DEF vars, IInv, TypeOK, ConnectionsInv, CloseInv, CloseEndsBrokenSession,
                RemoteOpenIsAnswered, AnnouncedInv, Announced, Live, ProtoOf, Broken, OnItsWay,
                OneClose, Untouched
  <1>2. CASE BehaviourPoll
    BY <1>2, BehaviourPollKeeps
  <1>3. ASSUME NEW c \in Conns, ConnectionEstablished(c) PROVE IInv'
    BY <1>3, ConnectionEstablishedKeeps
  <1>4. ASSUME NEW c \in Conns, PoolEvent(c) PROVE IInv'
    BY <1>4, PoolEventKeeps
  <1>5. ASSUME NEW c \in Conns, CommandDelivered(c) PROVE IInv'
    BY <1>5, CommandDeliveredKeeps
  <1>6. ASSUME NEW c \in Conns, HandlerPoll(c) PROVE IInv'
    BY <1>6, HandlerPollKeeps
  <1>7. ASSUME NEW c \in Conns, ConnectionLost(c) PROVE IInv'
    BY <1>7, ConnectionLostKeeps
  <1>8. ASSUME NEW c \in Conns, NEW i \in Protocols,
               InboundNegotiated(c, i) \/ OutboundNegotiated(c, i) \/ OutboundFailed(c, i)
        PROVE  IInv'
    BY <1>8, ConnectionEventKeeps
  <1> QED BY <1>1, <1>2, <1>3, <1>4, <1>5, <1>6, <1>7, <1>8 DEF Next

(* The behaviour, its connections and the queues between them stay in      *)
(* their inductive invariant.                                              *)
THEOREM InductiveInvariant == Spec => []IInv
  BY InitGood, NextGood, PTL DEF Spec

(* Type correctness of the behaviour, its handlers and the channels.       *)
THEOREM TypeCorrect == Spec => []TypeOK
  <1>1. IInv => TypeOK
    BY DEF IInv
  <1> QED BY <1>1, InductiveInvariant, PTL

(* A Close never arrives late: it finds exactly the broken session that    *)
(* asked for it, for any number of connections and protocols.              *)
THEOREM CloseIsExact == Spec => []CloseEndsBrokenSession
  <1>1. IInv => CloseEndsBrokenSession
    BY DEF IInv, CloseInv
  <1> QED BY <1>1, InductiveInvariant, PTL

(* Nobody forgets a remote that asked for a protocol.                      *)
THEOREM RemoteAnswered == Spec => []RemoteOpenIsAnswered
  <1>1. IInv => RemoteOpenIsAnswered
    BY DEF IInv
  <1> QED BY <1>1, InductiveInvariant, PTL

(* No notification is handed to an application that has not been told of   *)
(* the protocol, although it overtakes the handler's queue.                *)
THEOREM OpenComesFirst == Spec => []OpenBeforeNotification
  <1>1. IInv => OpenBeforeNotification
    <2> SUFFICES ASSUME IInv, NEW k \in DOMAIN events, events[k].what = "Notification"
                 PROVE  \/ <<events[k].conn, events[k].index>> \in app
                        \/ \E j \in DOMAIN events :
                             j < k /\ events[j] = GenerateEvent(events[k].conn, "CustomProtocolOpen",
                                                                events[k].index)
      BY DEF OpenBeforeNotification
    <2> DEFINE e == events[k]
    <2>1. events \in Seq(ToSwarm)
      BY DEF IInv, TypeOK
    <2>2. e \in ToSwarm
      BY <2>1
    <2>3. /\ e.conn \in Conns /\ e.index \in Protocols
          /\ e = GenerateEvent(e.conn, "Notification", e.index)
      BY <2>2, SwarmEvents
    <2>4. AnnouncedAt(e.conn, e.index)
      BY <2>3, Parts DEF FlowAt
    <2> QED BY <2>3, <2>4 DEF AnnouncedAt, Led, OpenTold
  <1> QED BY <1>1, InductiveInvariant, PTL

-----------------------------------------------------------------------------
(* The instance of NotificationsHandler has its own copies of the          *)
(* callbacks; they are the same functions.                                 *)
LEMMA SameCallbacks ==
  ASSUME NEW c, NEW h, NEW i, NEW e, NEW f
  PROVE  /\ H(c)!Protocols = Protocols /\ H(c)!NewHandler = NewHandler
         /\ H(c)!OnOpen(h, i) = OnOpen(h, i) /\ H(c)!OnClose(h, i) = OnClose(h, i)
         /\ H(c)!FullyNegotiatedInbound(h, i) = FullyNegotiatedInbound(h, i)
         /\ H(c)!FullyNegotiatedOutbound(h, i) = FullyNegotiatedOutbound(h, i)
         /\ H(c)!DialUpgradeError(h, i) = DialUpgradeError(h, i)
         /\ H(c)!poll(h) = poll(h)
         /\ H(c)!Received(e, f) = Received(e, f) /\ H(c)!Heard(e, f) = Heard(e, f)
  <1>1. H(c)!Protocols = Protocols /\ H(c)!NewHandler = NewHandler
    BY Zenon DEF Protocols, NewHandler, Closed, NoSubstream, H!Protocols, H!NewHandler,
                 H!Closed, H!NoSubstream
  <1>2. H(c)!OnOpen(h, i) = OnOpen(h, i)
    BY Zenon DEF OnOpen, RequestSubstream, Push, Event, WithProtocol, Opening, Closed,
                 NoSubstream, set_handshake, H!OnOpen, H!RequestSubstream, H!Push, H!Event,
                 H!WithProtocol, H!Opening, H!Closed, H!NoSubstream, H!set_handshake
  <1>3. H(c)!OnClose(h, i) = OnClose(h, i)
    BY Zenon DEF OnClose, Push, Event, WithProtocol, Closed, NoSubstream, H!OnClose,
                 H!Push, H!Event, H!WithProtocol, H!Closed, H!NoSubstream
  <1>4. H(c)!FullyNegotiatedInbound(h, i) = FullyNegotiatedInbound(h, i)
    BY Zenon DEF FullyNegotiatedInbound, Push, Event, WithProtocol, OpenDesiredByRemote,
                 Closed, NoSubstream, NewInboundSubstream, At, set_handshake,
                 H!FullyNegotiatedInbound, H!Push, H!Event, H!WithProtocol,
                 H!OpenDesiredByRemote, H!Closed, H!NoSubstream, H!NewInboundSubstream,
                 H!At, H!set_handshake
  <1>5. /\ H(c)!FullyNegotiatedOutbound(h, i) = FullyNegotiatedOutbound(h, i)
        /\ H(c)!DialUpgradeError(h, i) = DialUpgradeError(h, i)
    BY Zenon DEF FullyNegotiatedOutbound, DialUpgradeError, Push, Event, WithProtocol,
                 Open, Closed, NoSubstream, H!FullyNegotiatedOutbound, H!DialUpgradeError,
                 H!Push, H!Event, H!WithProtocol, H!Open, H!Closed, H!NoSubstream
  <1>6. H(c)!poll(h) = poll(h)
    BY Zenon DEF SendStops, FlushStops, poll_process, CloseStops, ReadStops, poll_next,
                 Outcome, At, NoSubstream, Closed, Protocols, Event, WithProtocol, Nothing,
                 Result, Choices, Forwarded, FlushErrors, Polled, StoreSubstream,
                 PollInboundOpen, PollInboundDesired, PollInboundOpening, InboundPolled,
                 PollInbound, PollSockets, PollPending, poll, H!SendStops, H!FlushStops,
                 H!poll_process, H!CloseStops, H!ReadStops, H!poll_next, H!Outcome, H!At,
                 H!NoSubstream, H!Closed, H!Protocols, H!Event, H!WithProtocol, H!Nothing,
                 H!Result, H!Choices, H!Forwarded, H!FlushErrors, H!Polled,
                 H!StoreSubstream, H!PollInboundOpen, H!PollInboundDesired,
                 H!PollInboundOpening, H!InboundPolled, H!PollInbound, H!PollSockets,
                 H!PollPending, H!poll
  <1>7. H(c)!Received(e, f) = Received(e, f) /\ H(c)!Heard(e, f) = Heard(e, f)
    BY Zenon DEF Received, Heard, H!Received, H!Heard
  <1> QED BY <1>1, <1>2, <1>3, <1>4, <1>5, <1>6, <1>7

(* Every step is, for each handler, a step of NotificationsHandler or none.*)
LEMMA HandlerSteps ==
  ASSUME TypeOK, [Next]_vars, NEW d \in Conns
  PROVE  [H(d)!Next]_(H(d)!vars)
  <1>0. /\ handlers \in [Conns -> Handler] /\ requests \in [Conns -> [Protocols -> Nat]]
        /\ announced \in [Conns -> [Protocols -> BOOLEAN]]
        /\ commands \in [Conns -> Seq(Command)]
    BY DEF TypeOK
  <1>1. ASSUME UNCHANGED <<handlers, requests, announced>> PROVE UNCHANGED (H(d)!vars)
    BY <1>1 DEF H!vars
  <1>2. CASE UNCHANGED vars
    BY <1>1, <1>2 DEF vars
  <1>3. CASE BehaviourPoll
    BY <1>1, <1>3 DEF BehaviourPoll, handlerVars
  <1>4. ASSUME NEW c \in Conns, ConnectionEstablished(c) \/ PoolEvent(c) \/ ConnectionLost(c)
        PROVE  UNCHANGED (H(d)!vars)
    BY <1>1, <1>4 DEF ConnectionEstablished, PoolEvent, ConnectionLost, handlerVars
  <1>5. ASSUME NEW c \in Conns, CommandDelivered(c)
        PROVE  [H(d)!Next]_(H(d)!vars)
    <2> DEFINE m == Head(commands[c])
    <2>1. /\ Room(c) /\ commands[c] # << >> /\ UNCHANGED <<requests, announced>>
          /\ handlers' = [handlers EXCEPT ![c] = IF m.what = "Open" THEN OnOpen(@, m.index)
                                                                    ELSE OnClose(@, m.index)]
      BY <1>5 DEF CommandDelivered
    <2>2. m.index \in Protocols
      <3>1. m \in Command
        BY <1>0, <2>1
      <3> QED BY <3>1 DEF Command
    <2> HIDE DEF m
    <2>3. CASE d = c
      <3>1. H(d)!Room
        BY <2>1, <2>3 DEF Room, H!Room, H!pending
      <3>2. H(d)!BehaviourOpen(m.index) \/ H(d)!BehaviourClose(m.index)
        <4>1. /\ handlers'[d] = OnOpen(handlers[d], m.index)
                 \/ handlers'[d] = OnClose(handlers[d], m.index)
              /\ UNCHANGED <<requests[d], announced[d]>>
          BY <1>0, <2>1, <2>3
        <4>2. /\ H(d)!OnOpen(handlers[d], m.index) = OnOpen(handlers[d], m.index)
              /\ H(d)!OnClose(handlers[d], m.index) = OnClose(handlers[d], m.index)
          BY SameCallbacks
        <4> QED BY <3>1, <4>1, <4>2 DEF H!BehaviourOpen, H!BehaviourClose
      <3> QED BY <2>2, <3>2, SameCallbacks DEF H!Next
    <2>4. CASE d # c
      BY <1>0, <2>1, <2>4 DEF H!vars
    <2> QED BY <2>3, <2>4
  <1>6. ASSUME NEW c \in Conns, NEW i \in Protocols, InboundNegotiated(c, i)
        PROVE  [H(d)!Next]_(H(d)!vars)
    <2>1. /\ Room(c) /\ UNCHANGED <<requests, announced>>
          /\ handlers' = [handlers EXCEPT ![c] = FullyNegotiatedInbound(@, i)]
      BY <1>6 DEF InboundNegotiated
    <2>2. CASE d = c
      <3>1. H(d)!InboundNegotiated(i)
        BY <1>0, <2>1, <2>2, SameCallbacks DEF Room, H!Room, H!pending, H!InboundNegotiated
      <3> QED BY <3>1, SameCallbacks DEF H!Next
    <2>3. CASE d # c
      BY <1>0, <2>1, <2>3 DEF H!vars
    <2> QED BY <2>2, <2>3
  <1>7. ASSUME NEW c \in Conns, NEW i \in Protocols, OutboundNegotiated(c, i) \/ OutboundFailed(c, i)
        PROVE  [H(d)!Next]_(H(d)!vars)
    <2>1. PICK h \in {FullyNegotiatedOutbound(handlers[c], i), DialUpgradeError(handlers[c], i)} :
            /\ requests[c][i] > 0 /\ requests' = [requests EXCEPT ![c][i] = @ - 1]
            /\ handlers' = [handlers EXCEPT ![c] = h] /\ UNCHANGED announced
      BY <1>7 DEF OutboundNegotiated, OutboundFailed, Answered
    <2>2. CASE d = c
      <3>1. /\ handlers'[d] = h /\ requests'[d] = [requests[d] EXCEPT ![i] = @ - 1]
            /\ UNCHANGED announced[d]
        BY <1>0, <2>1, <2>2
      <3>2. H(d)!OutboundNegotiated(i) \/ H(d)!OutboundFailed(i)
        BY <2>1, <2>2, <3>1, SameCallbacks DEF H!OutboundNegotiated, H!OutboundFailed, H!Answered
      <3> QED BY <3>2, SameCallbacks DEF H!Next
    <2>3. CASE d # c
      BY <1>0, <2>1, <2>3 DEF H!vars
    <2> QED BY <2>2, <2>3
  <1>8. ASSUME NEW c \in Conns, HandlerPoll(c)
        PROVE  [H(d)!Next]_(H(d)!vars)
    <2>1. PICK r \in poll(handlers[c]) :
            /\ handlers' = [handlers EXCEPT ![c] = r.handler]
            /\ requests' = [requests EXCEPT ![c] = Received(r.event, @)]
            /\ announced' = [announced EXCEPT ![c] = Heard(r.event, @)]
      BY <1>8 DEF HandlerPoll
    <2>2. CASE d = c
      <3>1. /\ handlers'[d] = r.handler /\ requests'[d] = Received(r.event, requests[d])
            /\ announced'[d] = Heard(r.event, announced[d])
        BY <1>0, <2>1, <2>2
      <3>2. H(d)!Poll
        BY <2>1, <2>2, <3>1, SameCallbacks DEF H!Poll
      <3> QED BY <3>2 DEF H!Next
    <2>3. CASE d # c
      BY <1>0, <2>1, <2>3 DEF H!vars
    <2> QED BY <2>2, <2>3
  <1> QED BY <1>2, <1>3, <1>4, <1>5, <1>6, <1>7, <1>8 DEF Next

(* Every handler behaves as NotificationsHandler allows, so its theorems   *)
(* hold of the handler of each connection.                                 *)
THEOREM HandlersRefine == Spec => HandlersConform
  <1>1. Init => \A c \in Conns : H(c)!Init
    <2>1. \A c : H(c)!Protocols = Protocols /\ H(c)!NewHandler = NewHandler
      BY SameCallbacks
    <2> QED BY <2>1 DEF Init, H!Init
  <1>2. TypeOK /\ [Next]_vars => [\A c \in Conns : [H(c)!Next]_(H(c)!vars)]_vars
    BY HandlerSteps
  <1> QED BY <1>1, <1>2, TypeCorrect, PTL DEF Spec, HandlersConform
=============================================================================
