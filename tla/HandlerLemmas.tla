---------------------------- MODULE HandlerLemmas ---------------------------
(***************************************************************************)
(* What the callbacks of a NotificationsHandler do to a handler: types,    *)
(* effects, and the preservation of Good, the invariant of a handler       *)
(* together with its outstanding requests and what its listener believes.  *)
(* NotificationsHandlerProofs uses these for one handler under any         *)
(* behaviour, NotificationsProofs for the handlers of all connections.     *)
(***************************************************************************)
EXTENDS HandlerTransitions, QueueLemmas

-----------------------------------------------------------------------------
(* The substream functions stay within the substream states.               *)
LEMMA OutcomeTypes ==
  ASSUME NEW s \in Substream, NEW f \in BOOLEAN
  PROVE  \A o \in SendStops(s) \cup FlushStops(s) \cup CloseStops(f) \cup ReadStops(f)
                    \cup {Outcome(At("Done", TRUE), "Pending"), Outcome(s, "Pending"),
                          Outcome(At("Done", s.flushed), "None")} :
           o.substream \in Substream /\ o.returned \in Returns
  <1>1. \A x \in SubstreamStates, y \in BOOLEAN, r \in Returns :
          /\ Outcome(At(x, y), r).substream \in Substream
          /\ Outcome(At(x, y), r).returned \in Returns
    BY DEF Outcome, At, Substream
  <1>2. s.flushed \in BOOLEAN
    BY DEF Substream
  <1>3. \A o \in SendStops(s) \cup FlushStops(s) :
          o.substream \in Substream /\ o.returned \in Returns
    BY <1>1, <1>2 DEF SendStops, FlushStops, SubstreamStates, Returns
  <1>4. \A o \in CloseStops(f) \cup ReadStops(f) :
          o.substream \in Substream /\ o.returned \in Returns
    BY <1>1 DEF CloseStops, ReadStops, SubstreamStates, Returns
  <1>5. Outcome(s, "Pending").substream \in Substream /\ Outcome(s, "Pending").returned \in Returns
    BY DEF Outcome, Returns
  <1> QED
    BY <1>1, <1>2, <1>3, <1>4, <1>5 DEF SubstreamStates, Returns

(* set_handshake, poll_process and poll_next of handshake.rs return        *)
(* substreams and results of the right type.                               *)
LEMMA SubstreamTypes ==
  ASSUME NEW s \in Substream
  PROVE  /\ set_handshake(s) \in Substream
         /\ \A o \in poll_process(s) \cup poll_next(s) :
              o.substream \in Substream /\ o.returned \in Returns
  <1>1. set_handshake(s) \in Substream
    BY DEF set_handshake, Substream, SubstreamStates
  <1>2. s.flushed \in BOOLEAN /\ s.state \in SubstreamStates
    BY DEF Substream
  <1>3. poll_process(s) \subseteq SendStops(s) \cup FlushStops(s)
                    \cup {Outcome(At("Done", TRUE), "Pending"), Outcome(s, "Pending")}
    BY DEF poll_process
  <1>4. poll_next(s) \subseteq SendStops(s) \cup FlushStops(s) \cup ReadStops(TRUE)
          \cup ReadStops(s.flushed) \cup CloseStops(s.flushed)
          \cup {Outcome(s, "Pending"), Outcome(At("Done", s.flushed), "None")}
    BY <1>2 DEF poll_next, SubstreamStates
  <1> QED BY <1>1, <1>2, <1>3, <1>4, OutcomeTypes

(* The four variants of State are protocols.                               *)
LEMMA VariantTypes ==
  /\ \A b \in BOOLEAN : Closed(b) \in ProtocolDetails
  /\ \A b \in BOOLEAN, s \in Substream : OpenDesiredByRemote(s, b) \in ProtocolDetails
  /\ \A s \in Substream \cup {NoSubstream} :
       Opening(s) \in ProtocolDetails /\ Open(s) \in ProtocolDetails
  <1>1. << >> \in Seq(Messages)
    OBVIOUS
  <1> QED
    BY <1>1 DEF Closed, OpenDesiredByRemote, Opening, Open, ProtocolDetails, StateNames

(* Storing a protocol and queueing an event keep the handler's type, and   *)
(* touch nothing else.                                                     *)
LEMMA StoreTypes ==
  ASSUME NEW h \in Handler, NEW i \in Protocols, NEW p \in ProtocolDetails
  PROVE  /\ WithProtocol(h, i, p) \in Handler
         /\ WithProtocol(h, i, p).protocols = [h.protocols EXCEPT ![i] = p]
         /\ WithProtocol(h, i, p).pending_events = h.pending_events
  <1>1. h.protocols \in [Protocols -> ProtocolDetails] /\ h.pending_events \in Seq(HandlerEvent)
    BY DEF Handler
  <1>2. [h.protocols EXCEPT ![i] = p] \in [Protocols -> ProtocolDetails]
    BY <1>1
  <1>3. WithProtocol(h, i, p) = [h EXCEPT !.protocols = [h.protocols EXCEPT ![i] = p]]
    BY DEF WithProtocol, Handler
  <1> QED BY <1>1, <1>2, <1>3 DEF Handler

(* Queueing an event (pending_events.push_back) changes nothing but the    *)
(* queue.                                                                  *)
LEMMA PushTypes ==
  ASSUME NEW h \in Handler, NEW i \in Protocols, NEW type \in EventTypes
  PROVE  /\ Push(h, type, i) \in Handler
         /\ Push(h, type, i).protocols = h.protocols
         /\ Push(h, type, i).pending_events = Append(h.pending_events, Event(type, i))
  <1>1. h.protocols \in [Protocols -> ProtocolDetails] /\ h.pending_events \in Seq(HandlerEvent)
    BY DEF Handler
  <1>2. Append(h.pending_events, Event(type, i)) \in Seq(HandlerEvent)
    BY <1>1 DEF Event, HandlerEvent
  <1>3. Push(h, type, i) = [h EXCEPT !.pending_events = Append(h.pending_events, Event(type, i))]
    BY DEF Push
  <1> QED BY <1>1, <1>2, <1>3 DEF Handler

-----------------------------------------------------------------------------
(* The callbacks, case by case.                                            *)
LEMMA OnOpenCases ==
  ASSUME NEW h, NEW i, NEW p, p = h.protocols[i]
  PROVE  /\ p.state = "Closed" =>
              OnOpen(h, i) = WithProtocol(RequestSubstream(h, i), i, Opening(NoSubstream))
         /\ p.state = "OpenDesiredByRemote" =>
              OnOpen(h, i) = WithProtocol(RequestSubstream(h, i), i,
                                          Opening(set_handshake(p.inbound_substream)))
         /\ p.state \in {"Opening", "Open"} => OnOpen(h, i) = h
  BY Zenon DEF OnOpen

(* on_behaviour_event(Close), state by state.                              *)
LEMMA OnCloseCases ==
  ASSUME NEW h, NEW i, NEW p, p = h.protocols[i]
  PROVE  /\ p.state = "Closed" => OnClose(h, i) = Push(h, "Close", i)
         /\ p.state = "OpenDesiredByRemote" =>
              OnClose(h, i) = Push(WithProtocol(h, i, Closed(p.pending_opening)), "Close", i)
         /\ p.state = "Opening" =>
              OnClose(h, i) =
                Push(Push(WithProtocol(h, i, Closed(TRUE)), "HandshakeError", i), "Close", i)
         /\ p.state = "Open" =>
              OnClose(h, i) = Push(WithProtocol(h, i, Closed(FALSE)), "Close", i)
  BY Zenon DEF OnClose

(* FullyNegotiatedInbound, state by state.                                 *)
LEMMA InboundCases ==
  ASSUME NEW h, NEW i, NEW p, p = h.protocols[i]
  PROVE  LET F == FullyNegotiatedInbound(h, i) IN
         /\ p.state = "Closed" =>
              F = Push(WithProtocol(h, i,
                         OpenDesiredByRemote(NewInboundSubstream, p.pending_opening)),
                       "OpenDesiredByRemote", i)
         /\ p.state = "OpenDesiredByRemote" => F = h
         /\ p.state \in {"Opening", "Open"} /\ p.inbound_substream # NoSubstream => F = h
         /\ p.state \in {"Opening", "Open"} /\ p.inbound_substream = NoSubstream =>
              F = WithProtocol(h, i,
                    [p EXCEPT !.inbound_substream = set_handshake(NewInboundSubstream)])
  BY Zenon DEF FullyNegotiatedInbound

(* FullyNegotiatedOutbound and DialUpgradeError, state by state.           *)
LEMMA OutboundCases ==
  ASSUME NEW h, NEW i, NEW p, p = h.protocols[i]
  PROVE  /\ p.state \in {"Closed", "OpenDesiredByRemote"} =>
              /\ FullyNegotiatedOutbound(h, i) =
                   WithProtocol(h, i, [p EXCEPT !.pending_opening = FALSE])
              /\ DialUpgradeError(h, i) =
                   WithProtocol(h, i, [p EXCEPT !.pending_opening = FALSE])
         /\ p.state = "Opening" =>
              /\ FullyNegotiatedOutbound(h, i) =
                   Push(WithProtocol(h, i, Open(p.inbound_substream)), "HandshakeCompleted", i)
              /\ DialUpgradeError(h, i) =
                   Push(WithProtocol(h, i, Closed(FALSE)), "HandshakeError", i)
         /\ p.state = "Open" => FullyNegotiatedOutbound(h, i) = h /\ DialUpgradeError(h, i) = h
  BY Zenon DEF FullyNegotiatedOutbound, DialUpgradeError

-----------------------------------------------------------------------------
(* What storing a protocol and queueing an event do to the accounting and  *)
(* to the announcements.                                                   *)
LEMMA WithProtocolEffect ==
  ASSUME NEW h \in Handler, NEW i \in Protocols, NEW p \in ProtocolDetails,
         NEW j \in Protocols, NEW a
  PROVE  LET g == WithProtocol(h, i, p) IN
         /\ Wants(g, j) <=> IF i = j THEN p.state = "Opening" \/ p.pending_opening ELSE Wants(h, j)
         /\ Queued(g, j) <=> Queued(h, j)
         /\ QueuedOnce(g, j) <=> QueuedOnce(h, j)
         /\ Hears(g, a, j) <=> Hears(h, a, j)
  <1> DEFINE g == WithProtocol(h, i, p)
  <1>1. g.protocols = [h.protocols EXCEPT ![i] = p] /\ g.pending_events = h.pending_events
    BY StoreTypes
  <1>2. h.protocols \in [Protocols -> ProtocolDetails]
    BY DEF Handler
  <1> HIDE DEF g
  <1>3. Wants(g, j) <=> IF i = j THEN p.state = "Opening" \/ p.pending_opening ELSE Wants(h, j)
    BY <1>1, <1>2 DEF Wants
  <1>4. (Queued(g, j) <=> Queued(h, j)) /\ (QueuedOnce(g, j) <=> QueuedOnce(h, j))
        /\ (Hears(g, a, j) <=> Hears(h, a, j))
    BY <1>1 DEF Queued, In, QueuedOnce, Once, Hears
  <1> QED BY <1>3, <1>4 DEF g

(* What queueing one event does to the accounting of requests and to what  *)
(* a listener will hear.                                                   *)
LEMMA PushEffect ==
  ASSUME NEW h \in Handler, NEW i \in Protocols, NEW type \in EventTypes,
         NEW j \in Protocols, NEW a \in BOOLEAN
  PROVE  LET g == Push(h, type, i)
             asked == type = "OutboundSubstreamRequest" /\ i = j
         IN
         /\ Wants(g, j) <=> Wants(h, j)
         /\ Queued(g, j) <=> Queued(h, j) \/ asked
         /\ QueuedOnce(h, j) /\ ~(asked /\ Queued(h, j)) => QueuedOnce(g, j)
         /\ type = "HandshakeCompleted" /\ i = j => Hears(g, a, j)
         /\ type = "Close" /\ i = j => ~Hears(g, a, j)
         /\ type \notin {"HandshakeCompleted", "Close"} \/ i # j =>
              (Hears(g, a, j) <=> Hears(h, a, j))
  <1> DEFINE g == Push(h, type, i)
             q == h.pending_events
             e == Event(type, i)
             asked == type = "OutboundSubstreamRequest" /\ i = j
  <1>1. g.protocols = h.protocols /\ g.pending_events = Append(q, e)
    BY PushTypes
  <1>2. q \in Seq(HandlerEvent)
    BY DEF Handler
  <1>3. /\ Len(q) \in Nat /\ DOMAIN q = 1 .. Len(q)
        /\ DOMAIN Append(q, e) = 1 .. Len(q) + 1
        /\ \A k \in 1 .. Len(q) : Append(q, e)[k] = q[k]
        /\ Append(q, e)[Len(q) + 1] = e
    BY <1>2
  <1>4. \A t, k : e = Event(t, k) <=> (type = t /\ i = k)
    BY DEF Event
  <1> HIDE DEF g, q, e
  <1>5. Wants(g, j) <=> Wants(h, j)
    BY <1>1 DEF Wants
  <1>6. Queued(g, j) <=> Queued(h, j) \/ asked
    BY <1>1, <1>3, <1>4 DEF Queued, In, Request, q
  <1>7. QueuedOnce(h, j) /\ ~(asked /\ Queued(h, j)) => QueuedOnce(g, j)
    BY <1>1, <1>3, <1>4 DEF Queued, In, QueuedOnce, Once, Request, q
  <1>8. type = "HandshakeCompleted" /\ i = j => Hears(g, a, j)
    BY <1>1, <1>3, <1>4 DEF Hears
  <1>9. type = "Close" /\ i = j => ~Hears(g, a, j)
    BY <1>1, <1>3, <1>4 DEF Hears
  <1>10. type \notin {"HandshakeCompleted", "Close"} \/ i # j =>
              (Hears(g, a, j) <=> Hears(h, a, j))
    BY <1>1, <1>3, <1>4 DEF Hears, q
  <1> QED BY <1>5, <1>6, <1>7, <1>8, <1>9, <1>10 DEF g

(* Taking the oldest event off the queue.                                  *)
LEMMA TailEffect ==
  ASSUME NEW h \in Handler, h.pending_events # << >>,
         NEW g, g = [h EXCEPT !.pending_events = Tail(@)],
         NEW e, e = Head(h.pending_events),
         NEW j \in Protocols, NEW a \in BOOLEAN, NEW b \in BOOLEAN,
         e = Event("HandshakeCompleted", j) => b,
         e = Event("Close", j) => ~b,
         e \notin {Event("HandshakeCompleted", j), Event("Close", j)} => (b <=> a)
  PROVE  /\ g \in Handler /\ g.protocols = h.protocols /\ e \in HandlerEvent
         /\ Wants(g, j) <=> Wants(h, j)
         /\ Queued(h, j) <=> Queued(g, j) \/ e = Request(j)
         /\ QueuedOnce(h, j) => QueuedOnce(g, j) /\ ~(e = Request(j) /\ Queued(g, j))
         /\ Hears(g, b, j) <=> Hears(h, a, j)
  <1> DEFINE q == h.pending_events
  <1>1. q \in Seq(HandlerEvent) /\ h.protocols \in [Protocols -> ProtocolDetails]
    BY DEF Handler
  <1>2. /\ e \in HandlerEvent /\ Tail(q) \in Seq(HandlerEvent)
        /\ Len(q) \in Nat /\ Len(q) > 0 /\ DOMAIN q = 1 .. Len(q) /\ q[1] = e
        /\ DOMAIN Tail(q) = 1 .. Len(q) - 1
        /\ \A k \in 1 .. Len(q) - 1 : Tail(q)[k] = q[k + 1]
    BY <1>1
  <1>3. g \in Handler /\ g.protocols = h.protocols /\ g.pending_events = Tail(q)
    BY <1>1, <1>2 DEF Handler
  <1> DEFINE t == Tail(q)
             n == Len(q)
  <1>4. /\ n \in Nat /\ n > 0 /\ DOMAIN q = 1 .. n /\ q[1] = e /\ DOMAIN t = 1 .. n - 1
        /\ \A k \in 1 .. n - 1 : t[k] = q[k + 1]
        /\ \A k \in 1 .. n : k # 1 => k - 1 \in 1 .. n - 1 /\ t[k - 1] = q[k]
    BY <1>2
  <1> HIDE DEF q, t, n
  <1>5. Wants(g, j) <=> Wants(h, j)
    BY <1>3 DEF Wants
  <1>6. Queued(h, j) <=> Queued(g, j) \/ e = Request(j)
    <2>1. Queued(h, j) <=> \E k \in 1 .. n : q[k] = Request(j)
      BY <1>4 DEF Queued, In, q
    <2>2. Queued(g, j) <=> \E k \in 1 .. n - 1 : t[k] = Request(j)
      BY <1>3, <1>4 DEF Queued, In, t
    <2>3. ASSUME NEW k \in 1 .. n, q[k] = Request(j)
          PROVE  e = Request(j) \/ \E l \in 1 .. n - 1 : t[l] = Request(j)
      BY <1>4, <2>3
    <2>4. ASSUME NEW k \in 1 .. n - 1, t[k] = Request(j)
          PROVE  \E l \in 1 .. n : q[l] = Request(j)
      <3>1. k + 1 \in 1 .. n /\ q[k + 1] = Request(j)
        BY <1>4, <2>4
      <3> QED BY <3>1
    <2>5. e = Request(j) => \E l \in 1 .. n : q[l] = Request(j)
      <3>1. 1 \in 1 .. n /\ q[1] = e
        BY <1>4
      <3> QED BY <3>1
    <2> QED BY <2>1, <2>2, <2>3, <2>4, <2>5
  <1>7. QueuedOnce(h, j) => QueuedOnce(g, j) /\ ~(e = Request(j) /\ Queued(g, j))
    <2> SUFFICES ASSUME QueuedOnce(h, j)
                 PROVE  QueuedOnce(g, j) /\ ~(e = Request(j) /\ Queued(g, j))
      OBVIOUS
    <2>1. \A k, l \in 1 .. n : q[k] = Request(j) /\ q[l] = Request(j) => k = l
      BY <1>4 DEF QueuedOnce, Once, q
    <2>2. ASSUME NEW k \in 1 .. n - 1, NEW l \in 1 .. n - 1,
                 t[k] = Request(j), t[l] = Request(j)
          PROVE  k = l
      <3>1. /\ k + 1 \in 1 .. n /\ q[k + 1] = Request(j)
            /\ l + 1 \in 1 .. n /\ q[l + 1] = Request(j)
        BY <1>4, <2>2
      <3>2. k + 1 = l + 1
        BY <2>1, <3>1
      <3> QED BY <3>2
    <2>3. ASSUME NEW k \in 1 .. n - 1, t[k] = Request(j), e = Request(j)
          PROVE  FALSE
      <3>1. k + 1 \in 1 .. n /\ q[k + 1] = Request(j) /\ 1 \in 1 .. n /\ q[1] = Request(j)
        BY <1>4, <2>3
      <3>2. k + 1 = 1
        BY <2>1, <3>1
      <3> QED BY <3>2
    <2> QED BY <1>3, <1>4, <2>2, <2>3, SMTT(30) DEF QueuedOnce, Once, Queued, In, t
  <1>8. Hears(g, b, j) <=> Hears(h, a, j)
    <2> DEFINE C == Event("Close", j)
               D == Event("HandshakeCompleted", j)
    <2>1. Hears(h, a, j) <=>
            \/ a /\ \A l \in 1 .. n : q[l] # C
            \/ \E k \in 1 .. n : q[k] = D /\ \A l \in 1 .. n : l > k => q[l] # C
      BY <1>4 DEF Hears, q
    <2>2. Hears(g, b, j) <=>
            \/ b /\ \A l \in 1 .. n - 1 : t[l] # C
            \/ \E k \in 1 .. n - 1 : t[k] = D /\ \A l \in 1 .. n - 1 : l > k => t[l] # C
      <3>1. g.pending_events = t /\ DOMAIN t = 1 .. n - 1
        BY <1>3, <1>4 DEF t
      <3> QED BY <3>1, Zenon DEF Hears
    <2>0. C # D
      BY DEF Event
    <2> HIDE DEF C, D
    <2>3. /\ C # D /\ b \in BOOLEAN
          /\ (e = D => b) /\ (e = C => ~b) /\ (e # C /\ e # D => (b <=> a))
      BY <2>0, Zenon DEF C, D
    <2>4. ASSUME Hears(h, a, j) PROVE Hears(g, b, j)
      <3>1. CASE a /\ \A l \in 1 .. n : q[l] # C
        <4>1. 1 \in 1 .. n
          BY <1>4
        <4>2. e # C
          BY <1>4, <3>1, <4>1
        <4>3. b
          BY <2>3, <3>1, <4>2
        <4>4. \A l \in 1 .. n - 1 : t[l] # C
          BY <1>4, <3>1
        <4> QED BY <4>3, <4>4, <2>2
      <3>2. ASSUME NEW k \in 1 .. n, q[k] = D, \A l \in 1 .. n : l > k => q[l] # C
            PROVE  Hears(g, b, j)
        <4>1. CASE k = 1
          <5>1. b
            BY <1>4, <2>3, <3>2, <4>1
          <5>2. \A l \in 1 .. n - 1 : t[l] # C
            BY <1>4, <3>2, <4>1
          <5> QED BY <5>1, <5>2, <2>2
        <4>2. CASE k # 1
          <5>1. k - 1 \in 1 .. n - 1 /\ t[k - 1] = D
            BY <1>4, <3>2, <4>2
          <5>2. ASSUME NEW l \in 1 .. n - 1, l > k - 1 PROVE t[l] # C
            <6>1. l + 1 \in 1 .. n /\ l + 1 > k /\ t[l] = q[l + 1]
              BY <1>4, <5>2
            <6> QED BY <3>2, <6>1
          <5> QED BY <5>1, <5>2, <2>2
        <4> QED BY <4>1, <4>2
      <3> QED BY <2>1, <2>4, <3>1, <3>2
    <2>5. ASSUME Hears(g, b, j) PROVE Hears(h, a, j)
      <3>1. CASE b /\ \A l \in 1 .. n - 1 : t[l] # C
        <4>1. e # C
          BY <2>3, <3>1
        <4>2. \A l \in 1 .. n : q[l] # C
          BY <1>4, <3>1, <4>1
        <4>3. CASE e = D
          <5>1. 1 \in 1 .. n /\ q[1] = D
            BY <1>4, <4>3
          <5> QED BY <5>1, <4>2, <2>1
        <4>4. CASE e # D
          BY <2>1, <2>3, <3>1, <4>1, <4>2, <4>4
        <4> QED BY <4>3, <4>4
      <3>2. ASSUME NEW k \in 1 .. n - 1, t[k] = D,
                   \A l \in 1 .. n - 1 : l > k => t[l] # C
            PROVE  Hears(h, a, j)
        <4>1. k + 1 \in 1 .. n /\ q[k + 1] = D
          BY <1>4, <3>2
        <4>2. \A l \in 1 .. n : l > k + 1 => q[l] # C
          BY <1>4, <3>2
        <4> QED BY <4>1, <4>2, <2>1
      <3> QED BY <2>2, <2>5, <3>1, <3>2
    <2> QED BY <2>4, <2>5
  <1> QED BY <1>2, <1>3, <1>5, <1>6, <1>7, <1>8 DEF q

-----------------------------------------------------------------------------
(* Forwarding: the channel loses its first `taken' messages, the wire gets *)
(* the first `sent' of them.  What was in order stays in order.            *)
LEMMA ForwardingOrdered ==
  ASSUME NEW w \in Seq(Messages), NEW r \in Seq(Messages), Ascending(w \o r),
         NEW taken \in 0 .. Len(r), NEW sent \in 0 .. taken
  PROVE  Ascending((w \o SubSeq(r, 1, sent)) \o SubSeq(r, taken + 1, Len(r)))
  <1> DEFINE x == SubSeq(r, 1, sent)
             y == SubSeq(r, taken + 1, Len(r))
             v == w \o x
             new == v \o y
             old == w \o r
  <1>0. PICK n \in Nat, m \in Nat : n = Len(w) /\ m = Len(r)
    OBVIOUS
  <1>1. sent \in Nat /\ taken \in Nat /\ sent <= taken /\ taken <= m
    BY <1>0
  <1>2. /\ x \in Seq(Messages) /\ Len(x) = sent /\ \A k \in 1 .. sent : x[k] = r[k]
    BY <1>0, <1>1
  <1>3. /\ y \in Seq(Messages) /\ Len(y) = m - taken
        /\ \A k \in 1 .. m - taken : y[k] = r[taken + k]
    BY <1>0, <1>1
  <1> HIDE DEF x, y
  <1>4. /\ v \in Seq(Messages) /\ Len(v) = n + sent
        /\ \A k \in 1 .. n + sent : v[k] = IF k <= n THEN w[k] ELSE x[k - n]
    BY <1>0, <1>1, <1>2, SMTT(30)
  <1>5. PICK c \in Nat, d \in Nat : c = n + sent /\ d = m - taken
    BY <1>1
  <1> HIDE DEF v
  <1>6. DOMAIN new = 1 .. c + d /\ \A k \in 1 .. c + d : new[k] = IF k <= c THEN v[k] ELSE y[k - c]
    <2>1. Len(v) = c /\ Len(y) = d
      BY <1>3, <1>4, <1>5
    <2>2. v \in Seq(Messages) /\ y \in Seq(Messages)
      BY <1>3, <1>4
    <2>3. Len(v \o y) = Len(v) + Len(y) /\ v \o y \in Seq(Messages)
      BY <2>2
    <2>4. DOMAIN new = 1 .. c + d
      BY <2>1, <2>3
    <2>5. \A k \in 1 .. Len(v) + Len(y) : (v \o y)[k] = IF k <= Len(v) THEN v[k] ELSE y[k - Len(v)]
      BY <2>2
    <2> QED BY <2>1, <2>4, <2>5
  <1>8. /\ DOMAIN old = 1 .. n + m
        /\ \A k \in 1 .. n + m : old[k] = IF k <= n THEN w[k] ELSE r[k - n]
    BY <1>0
  <1> HIDE DEF new, old
  <1> DEFINE at(k) == IF k <= c THEN k ELSE k + (taken - sent)
  <1>9. ASSUME NEW k \in 1 .. c + d PROVE at(k) \in 1 .. n + m /\ new[k] = old[at(k)]
    <2>1. CASE k <= n
      <3>1. k <= c /\ k \in 1 .. n + m /\ k \in 1 .. n + sent
        BY <1>1, <1>5, <2>1
      <3> QED BY <1>4, <1>6, <1>8, <2>1, <3>1
    <2>2. CASE k > n /\ k <= c
      <3>1. k \in 1 .. n + m /\ k \in 1 .. n + sent /\ k - n \in 1 .. sent /\ ~(k <= n)
        BY <1>1, <1>5, <2>2
      <3> QED BY <1>2, <1>4, <1>6, <1>8, <2>2, <3>1
    <2>3. CASE k > c
      <3>1. /\ k - c \in 1 .. m - taken /\ ~(k <= c) /\ at(k) = k + (taken - sent)
            /\ at(k) \in 1 .. n + m /\ ~(at(k) <= n) /\ at(k) - n = taken + (k - c)
        BY <1>1, <1>5, <2>3
      <3>2. new[k] = y[k - c] /\ y[k - c] = r[taken + (k - c)]
        BY <1>3, <1>6, <3>1
      <3>3. old[at(k)] = r[at(k) - n]
        BY <1>8, <3>1
      <3> QED BY <3>1, <3>2, <3>3
    <2> QED BY <2>1, <2>2, <2>3
  <1>10. \A k, l \in 1 .. c + d : k < l => at(k) < at(l)
    BY <1>1
  <1>11. \A k, l \in 1 .. n + m : k < l => old[k] < old[l]
    BY <1>8 DEF Ascending, old
  <1> HIDE DEF at
  <1>12. \A k, l \in 1 .. c + d : k < l => new[k] < new[l]
    BY <1>9, <1>10, <1>11
  <1> QED BY <1>6, <1>12 DEF Ascending, new, v, x, y

(* A message above all others goes to the end of the channel.              *)
LEMMA SendingOrdered ==
  ASSUME NEW w \in Seq(Messages), NEW r \in Seq(Messages), Ascending(w \o r),
         NEW m \in Messages,
         \A k \in DOMAIN r : r[k] < m, \A k \in DOMAIN w : w[k] < m
  PROVE  Ascending(w \o Append(r, m))
  <1> DEFINE new == w \o Append(r, m)
             old == w \o r
  <1>0. PICK a \in Nat, b \in Nat, n \in Nat : a = Len(w) /\ b = Len(r) /\ n = a + b
    OBVIOUS
  <1>1. /\ DOMAIN old = 1 .. n
        /\ \A k \in 1 .. n : old[k] = IF k <= a THEN w[k] ELSE r[k - a]
    BY <1>0
  <1>2. /\ DOMAIN new = 1 .. n + 1
        /\ \A k \in 1 .. n : new[k] = old[k]
        /\ new[n + 1] = m
    <2> DEFINE z == Append(r, m)
    <2>1. /\ z \in Seq(Messages) /\ Len(z) = b + 1 /\ z[b + 1] = m
          /\ \A k \in 1 .. b : z[k] = r[k]
      BY <1>0
    <2> HIDE DEF z
    <2>2. /\ DOMAIN (w \o z) = 1 .. a + (b + 1)
          /\ \A k \in 1 .. a + (b + 1) : (w \o z)[k] = IF k <= a THEN w[k] ELSE z[k - a]
      BY <1>0, <2>1
    <2>3. ASSUME NEW k \in 1 .. n PROVE (w \o z)[k] = old[k]
      <3>1. CASE k <= a
        BY <1>0, <1>1, <2>2, <3>1
      <3>2. CASE ~(k <= a)
        <4>1. k - a \in 1 .. b
          BY <1>0, <3>2
        <4>2. k \in 1 .. a + (b + 1)
          BY <1>0
        <4>3. (w \o z)[k] = z[k - a] /\ z[k - a] = r[k - a]
          BY <2>1, <2>2, <3>2, <4>1, <4>2
        <4> QED BY <1>1, <3>2, <4>3
      <3> QED BY <3>1, <3>2
    <2>4. (w \o z)[n + 1] = m
      <3>1. n + 1 \in 1 .. a + (b + 1) /\ ~(n + 1 <= a) /\ (n + 1) - a = b + 1
        BY <1>0
      <3> QED BY <2>1, <2>2, <3>1
    <2>5. DOMAIN (w \o z) = 1 .. n + 1
      <3>1. a + (b + 1) = n + 1
        BY <1>0
      <3> QED BY <2>2, <3>1
    <2>6. new = w \o z
      BY DEF z
    <2> HIDE DEF new, old
    <2> QED BY <2>3, <2>4, <2>5, <2>6
  <1>3. ASSUME NEW k \in 1 .. n PROVE old[k] < m
    <2>1. CASE k <= a
      <3>1. k \in DOMAIN w /\ old[k] = w[k]
        BY <1>0, <1>1, <2>1
      <3> QED BY <3>1
    <2>2. CASE ~(k <= a)
      <3>1. k - a \in 1 .. b
        BY <1>0, <2>2
      <3>2. k - a \in DOMAIN r /\ old[k] = r[k - a]
        BY <1>0, <1>1, <2>2, <3>1
      <3> QED BY <3>2
    <2> QED BY <2>1, <2>2
  <1>4. \A k, l \in 1 .. n : k < l => old[k] < old[l]
    BY <1>1 DEF Ascending
  <1> HIDE DEF new, old
  <1>5. ASSUME NEW k \in 1 .. n + 1, NEW l \in 1 .. n + 1, k < l PROVE new[k] < new[l]
    <2>1. k \in 1 .. n
      BY <1>5
    <2>2. CASE l \in 1 .. n
      BY <1>2, <1>4, <1>5, <2>1, <2>2
    <2>3. CASE l = n + 1
      BY <1>2, <1>3, <2>1, <2>3
    <2> QED BY <2>2, <2>3
  <1> QED BY <1>2, <1>5 DEF Ascending, new

-----------------------------------------------------------------------------
(* poll with an empty queue only touches substreams and channels: no       *)
(* protocol changes state or forgets a request, and a substream is kept    *)
(* only if it is honest about its handshake.                               *)
Keeps(p, q) ==
  /\ q \in ProtocolDetails
  /\ q.state = p.state /\ q.pending_opening = p.pending_opening
  /\ q.outbound_substream = p.outbound_substream
  /\ WellFormed(q)

(* A flush error takes the outbound substream away, and nothing else.      *)
Breaks(p, q) ==
  /\ p.state = "Open" /\ p.outbound_substream
  /\ q \in ProtocolDetails
  /\ q.state = "Open" /\ q.pending_opening = p.pending_opening
  /\ q.outbound_substream = FALSE
  /\ WellFormed(q)

(* As long as poll_process and poll_next return no error, a substream that *)
(* claims Done has flushed its handshake.                                  *)
LEMMA SubstreamsHonest ==
  ASSUME NEW s \in Substream, HandshakeSent(s)
  PROVE  /\ \A o \in poll_process(s) : o.returned = "Pending" => HandshakeSent(o.substream)
         /\ \A o \in poll_next(s) :
              o.returned \in {"Pending", "Item"} => HandshakeSent(o.substream)
  <1>1. s.flushed \in BOOLEAN /\ s.state \in SubstreamStates
    BY DEF Substream
  <1> DEFINE Honest(S) == \A o \in S : o.returned \in {"Pending", "Item"} => HandshakeSent(o.substream)
  <1>2. Honest(SendStops(s))
    BY DEF SendStops, Outcome, At, HandshakeSent
  <1>3. Honest(FlushStops(s))
    BY DEF FlushStops, Outcome, At, HandshakeSent
  <1>4. Honest({Outcome(At("Done", TRUE), "Pending")}) /\ Honest({Outcome(s, "Pending")})
    BY DEF Outcome, At, HandshakeSent
  <1>5. \A f \in BOOLEAN : f => Honest(ReadStops(f)) /\ Honest(CloseStops(f))
    BY DEF ReadStops, CloseStops, Outcome, At, HandshakeSent
  <1>6. Honest({Outcome(At("Done", s.flushed), "None")})
    BY DEF Outcome, At
  <1>7. s.state \in {"Done", "NeedsClose", "FullyClosed"} => s.flushed
    BY DEF HandshakeSent
  <1>8. Honest(poll_process(s))
    <2>1. poll_process(s) \subseteq SendStops(s) \cup FlushStops(s)
                    \cup {Outcome(At("Done", TRUE), "Pending")} \cup {Outcome(s, "Pending")}
      BY Zenon DEF poll_process
    <2> QED BY <2>1, <1>2, <1>3, <1>4
  <1>9. Honest(poll_next(s))
    <2>1. CASE s.state = "Waiting"
      <3>1. poll_next(s) = {Outcome(s, "Pending")}
        BY <2>1, Zenon DEF poll_next
      <3> QED BY <3>1, <1>4
    <2>2. CASE s.state \in {"Sending", "Flush"}
      <3>1. poll_next(s) \subseteq SendStops(s) \cup FlushStops(s) \cup ReadStops(TRUE)
        BY <2>2, Zenon DEF poll_next
      <3> QED BY <3>1, <1>2, <1>3, <1>5
    <2>3. CASE s.state \in {"Done", "NeedsClose"}
      <3>1. poll_next(s) \subseteq ReadStops(s.flushed) \cup CloseStops(s.flushed)
        BY <2>3, Zenon DEF poll_next
      <3> QED BY <3>1, <2>3, <1>1, <1>5, <1>7
    <2>4. CASE s.state = "FullyClosed"
      <3>1. poll_next(s) = {Outcome(At("Done", s.flushed), "None")}
        BY <2>4, Zenon DEF poll_next
      <3> QED BY <3>1, <1>6
    <2> QED BY <1>1, <2>1, <2>2, <2>3, <2>4 DEF SubstreamStates
  <1> QED BY <1>8, <1>9

(* The substream stored in OpenDesiredByRemote cannot make progress.       *)
LEMMA WaitingStaysWaiting ==
  /\ poll_process(NewInboundSubstream) = {Outcome(NewInboundSubstream, "Pending")}
  /\ NewInboundSubstream \in Substream /\ HandshakeSent(NewInboundSubstream)
  /\ set_handshake(NewInboundSubstream) \in Substream
  /\ HandshakeSent(set_handshake(NewInboundSubstream)) /\ HandshakeSent(NoSubstream)
  <1>1. NewInboundSubstream \in Substream /\ NewInboundSubstream.state = "Waiting"
    BY DEF NewInboundSubstream, At, Substream, SubstreamStates
  <1>2. poll_process(NewInboundSubstream) = {Outcome(NewInboundSubstream, "Pending")}
    BY <1>1, Zenon DEF poll_process
  <1>3. set_handshake(NewInboundSubstream) = At("Sending", FALSE)
    BY DEF set_handshake, NewInboundSubstream, At
  <1> QED
    BY <1>1, <1>2, <1>3 DEF At, Substream, SubstreamStates, HandshakeSent, NoSubstream

(* Storing an honest substream back into its protocol, as poll does, keeps *)
(* the protocol well formed.                                               *)
LEMMA StoreKeeps ==
  ASSUME NEW p \in ProtocolDetails, WellFormed(p), p.state # "OpenDesiredByRemote",
         NEW s \in Substream \cup {NoSubstream}, HandshakeSent(s)
  PROVE  Keeps(p, StoreSubstream(p, s))
  BY DEF Keeps, StoreSubstream, ProtocolDetails, WellFormed

(* Forwarding the user's messages keeps the protocol well formed.          *)
LEMMA ForwardedKeeps ==
  ASSUME NEW p \in ProtocolDetails, WellFormed(p), NEW q \in Forwarded(p)
  PROVE  Keeps(p, q)
  <1>1. CASE q = p
    BY <1>1 DEF Keeps
  <1>2. CASE q # p
    <2>0. PICK taken \in 0 .. Len(p.recv) : \E sent \in 0 .. taken :
            q = [p EXCEPT !.recv = SubSeq(p.recv, taken + 1, Len(p.recv)),
                          !.wire = p.wire \o SubSeq(p.recv, 1, sent)]
      BY <1>2 DEF Forwarded
    <2>1. PICK sent \in 0 .. taken :
            q = [p EXCEPT !.recv = SubSeq(p.recv, taken + 1, Len(p.recv)),
                          !.wire = p.wire \o SubSeq(p.recv, 1, sent)]
      BY <2>0
    <2>2. p.recv \in Seq(Messages) /\ p.wire \in Seq(Messages)
      BY DEF ProtocolDetails
    <2>3. Len(p.recv) \in Nat /\ sent <= Len(p.recv)
      BY <2>2
    <2>4. SubSeq(p.recv, taken + 1, Len(p.recv)) \in Seq(Messages)
      BY <2>2, <2>3
    <2>5. p.wire \o SubSeq(p.recv, 1, sent) \in Seq(Messages)
      BY <2>2, <2>3
    <2>6. Ascending(q.wire \o q.recv)
      <3>1. Ascending(p.wire \o p.recv)
        BY DEF WellFormed
      <3>2. /\ q.recv = SubSeq(p.recv, taken + 1, Len(p.recv))
            /\ q.wire = p.wire \o SubSeq(p.recv, 1, sent)
        BY <2>1 DEF ProtocolDetails
      <3> QED BY <2>2, <3>1, <3>2, ForwardingOrdered
    <2> QED BY <2>1, <2>4, <2>5, <2>6 DEF Keeps, ProtocolDetails, WellFormed
  <1> QED BY <1>1, <1>2

(* Polling the inbound substream keeps the protocol well formed; the       *)
(* CloseDesired arm of OpenDesiredByRemote is never taken.                 *)
LEMMA InboundKeeps ==
  ASSUME NEW p \in ProtocolDetails, WellFormed(p), NEW o \in InboundPolled(p)
  PROVE  /\ Keeps(p, o.protocol)
         /\ o.type \in {"Nothing", "Notification"}
         /\ o.type = "Notification" => p.state = "Open"
  <1> DEFINE s == p.inbound_substream
  <1>1. p.state \in StateNames /\ s \in Substream \cup {NoSubstream} /\ HandshakeSent(s)
    BY DEF ProtocolDetails, WellFormed
  <1>2. \A q, t : Polled(q, t).protocol = q /\ Polled(q, t).type = t
    BY DEF Polled
  <1>3. CASE p.state = "Open" /\ s # NoSubstream
    <2>1. o \in PollInboundOpen(p)
      BY <1>3, Zenon DEF InboundPolled
    <2>2. PICK x \in poll_next(s) :
            \/ x.returned \in {"Pending", "Item"}
               /\ \E t \in {"Nothing", "Notification"} :
                    o = Polled(StoreSubstream(p, x.substream), t)
            \/ o = Polled(StoreSubstream(p, NoSubstream), "Nothing")
      BY <2>1, Zenon DEF PollInboundOpen
    <2>3. x.substream \in Substream
          /\ (x.returned \in {"Pending", "Item"} => HandshakeSent(x.substream))
      BY <1>1, <1>3, SubstreamTypes, SubstreamsHonest
    <2> QED BY <1>2, <1>3, <2>2, <2>3, StoreKeeps, WaitingStaysWaiting
  <1>4. CASE p.state = "OpenDesiredByRemote"
    <2>1. o \in PollInboundDesired(p)
      BY <1>4, Zenon DEF InboundPolled
    <2>2. s = NewInboundSubstream
      BY <1>4 DEF WellFormed
    <2>3. o = Polled(StoreSubstream(p, NewInboundSubstream), "Nothing")
      BY <2>1, <2>2, WaitingStaysWaiting DEF PollInboundDesired, Outcome
    <2>4. StoreSubstream(p, NewInboundSubstream) = p
      BY <2>2 DEF StoreSubstream, ProtocolDetails
    <2> QED BY <1>2, <2>3, <2>4 DEF Keeps
  <1>5. CASE p.state = "Opening" /\ s # NoSubstream
    <2>1. o \in PollInboundOpening(p)
      BY <1>5, Zenon DEF InboundPolled
    <2>2. PICK x \in poll_process(s) :
            o = Polled(StoreSubstream(p, IF x.returned = "Pending" THEN x.substream
                                                                   ELSE NoSubstream), "Nothing")
      BY <2>1 DEF PollInboundOpening
    <2>3. x.substream \in Substream /\ (x.returned = "Pending" => HandshakeSent(x.substream))
      BY <1>1, <1>5, SubstreamTypes, SubstreamsHonest
    <2> QED BY <1>2, <1>5, <2>2, <2>3, StoreKeeps, WaitingStaysWaiting
  <1>6. CASE /\ ~(p.state = "Open" /\ s # NoSubstream) /\ p.state # "OpenDesiredByRemote"
             /\ ~(p.state = "Opening" /\ s # NoSubstream)
    <2>1. o = Polled(p, "Nothing")
      BY <1>6, Zenon DEF InboundPolled
    <2> QED BY <1>2, <2>1 DEF Keeps
  <1> QED BY <1>3, <1>4, <1>5, <1>6

(* What one round over the sockets does: nothing to report, a message of   *)
(* an open protocol, or the first outbound substream that broke.           *)
SocketResult(h, g, event) ==
  \/ /\ \A j \in Protocols : Keeps(h.protocols[j], g.protocols[j])
     /\ \/ event = Nothing
        \/ \E j \in Protocols : /\ event = Event("Notification", j)
                                /\ h.protocols[j].state = "Open"
  \/ \E i \in Protocols :
       /\ event = Event("CloseDesired", i)
       /\ Breaks(h.protocols[i], g.protocols[i])
       /\ \A j \in Protocols \ {i} : Keeps(h.protocols[j], g.protocols[j])

(* The socket half of poll leaves the queue and the state of every         *)
(* protocol alone.                                                         *)
LEMMA SocketsKeep ==
  ASSUME NEW h \in Handler, \A j \in Protocols : WellFormed(h.protocols[j]),
         NEW r \in PollSockets(h)
  PROVE  /\ r.handler \in Handler
         /\ r.handler.pending_events = h.pending_events
         /\ SocketResult(h, r.handler, r.event)
  <1> DEFINE S == [i \in Protocols |-> Forwarded(h.protocols[i])]
  <1>1. PICK ps \in Choices(S) :
          LET f == [h EXCEPT !.protocols = ps] IN r \in FlushErrors(f) \cup PollInbound(f)
    BY DEF PollSockets
  <1> DEFINE f == [h EXCEPT !.protocols = ps]
  <1>2. \A j \in Protocols : h.protocols[j] \in ProtocolDetails
    BY DEF Handler
  <1>3. DOMAIN ps = Protocols /\ \A j \in Protocols : ps[j] \in Forwarded(h.protocols[j])
    BY DEF Choices
  <1>4. \A j \in Protocols : Keeps(h.protocols[j], ps[j])
    BY <1>2, <1>3, ForwardedKeeps
  <1>5. ps \in [Protocols -> ProtocolDetails]
    <2>1. ps = [j \in Protocols |-> ps[j]]
      BY <1>3 DEF Choices
    <2> QED BY <2>1, <1>4 DEF Keeps
  <1>6. f \in Handler /\ f.protocols = ps /\ f.pending_events = h.pending_events
    BY <1>5 DEF Handler
  <1>7. r \in FlushErrors(f) \cup PollInbound(f)
    BY <1>1
  <1> HIDE DEF f, S
  <1>8. CASE r \in FlushErrors(f)
    <2>1. PICK i \in Protocols :
            /\ f.protocols[i].state = "Open" /\ f.protocols[i].outbound_substream
            /\ r = Result(WithProtocol(f, i, [f.protocols[i] EXCEPT !.outbound_substream = FALSE]),
                         Event("CloseDesired", i))
      BY <1>8 DEF FlushErrors
    <2> DEFINE q == [f.protocols[i] EXCEPT !.outbound_substream = FALSE]
    <2>2. Breaks(h.protocols[i], q)
      BY <1>4, <1>6, <2>1 DEF Keeps, Breaks, ProtocolDetails, WellFormed
    <2>3. q \in ProtocolDetails
      BY <2>2 DEF Breaks
    <2> HIDE DEF q
    <2>4. /\ WithProtocol(f, i, q) \in Handler
          /\ WithProtocol(f, i, q).protocols = [ps EXCEPT ![i] = q]
          /\ WithProtocol(f, i, q).pending_events = h.pending_events
      BY <1>6, <2>3, StoreTypes
    <2>5. r.handler = WithProtocol(f, i, q) /\ r.event = Event("CloseDesired", i)
      BY <2>1 DEF Result, q
    <2>6. /\ Breaks(h.protocols[i], [ps EXCEPT ![i] = q][i])
          /\ \A j \in Protocols \ {i} : Keeps(h.protocols[j], [ps EXCEPT ![i] = q][j])
      BY <1>4, <1>5, <2>2
    <2> QED BY <2>4, <2>5, <2>6 DEF SocketResult
  <1>9. CASE r \in PollInbound(f)
    <2> DEFINE T == [i \in Protocols |-> InboundPolled(f.protocols[i])]
               Stop(out) == {i \in Protocols : out[i].type # "Nothing"}
               Reached(out, i) == \A j \in Stop(out) : i <= j
               Moved(out) == [i \in Protocols |-> IF Reached(out, i) THEN out[i].protocol
                                                                    ELSE f.protocols[i]]
               After(out) == [f EXCEPT !.protocols = Moved(out)]
               Returned(out) ==
                 {Event(out[i].type, i) : i \in {j \in Stop(out) : Reached(out, j)}}
                   \cup {e \in {Nothing} : Stop(out) = {}}
    <2>0. PollInbound(f) =
            UNION {{Result(After(out), e) : e \in Returned(out)} : out \in Choices(T)}
      BY Zenon DEF PollInbound
    <2> HIDE DEF Returned, After, T
    <2>1. PICK out \in Choices(T) : \E e \in Returned(out) : r = Result(After(out), e)
      BY <1>9, <2>0
    <2> USE DEF After, T
    <2>2. \A j \in Protocols : out[j] \in InboundPolled(f.protocols[j])
      BY DEF Choices
    <2>3. \A j \in Protocols : /\ Keeps(h.protocols[j], out[j].protocol)
                               /\ out[j].type \in {"Nothing", "Notification"}
                               /\ out[j].type = "Notification" => h.protocols[j].state = "Open"
      BY <1>4, <1>6, <2>2, InboundKeeps DEF Keeps
    <2>4. \A j \in Protocols : Keeps(h.protocols[j], Moved(out)[j])
      BY <1>4, <1>6, <2>3
    <2>5. Moved(out) \in [Protocols -> ProtocolDetails]
      BY <2>4 DEF Keeps
    <2> HIDE DEF Moved, T
    <2>6. /\ After(out) \in Handler /\ After(out).protocols = Moved(out)
          /\ After(out).pending_events = h.pending_events
      BY <1>6, <2>5 DEF Handler
    <2>7. PICK e : /\ r = Result(After(out), e)
                   /\ \/ e = Nothing
                      \/ \E i \in Stop(out) : e = Event(out[i].type, i)
      BY <2>1 DEF Returned
    <2>8. r.handler = After(out) /\ r.event = e
      BY <2>7 DEF Result
    <2> QED BY <2>3, <2>4, <2>6, <2>7, <2>8 DEF SocketResult
  <1> QED BY <1>7, <1>8, <1>9

-----------------------------------------------------------------------------
(* A callback for protocol i replaces i's state and queues events about i  *)
(* only: the other protocols are safe whatever it does.                    *)
LEMMA OneProtocolStep ==
  ASSUME NEW h, NEW g \in Handler, NEW n, NEW a, Good(h, n, a),
         NEW i \in Protocols, NEW p \in ProtocolDetails, WellFormed(p),
         g.protocols = [h.protocols EXCEPT ![i] = p],
         \A j \in Protocols \ {i} :
           /\ Queued(g, j) <=> Queued(h, j)
           /\ QueuedOnce(h, j) => QueuedOnce(g, j)
           /\ Hears(g, a[j], j) <=> Hears(h, a[j], j),
         NEW k \in Nat, Accounted(g, k, i), Hears(g, a[i], i) <=> p.state = "Open"
  PROVE  Good(g, [n EXCEPT ![i] = k], a)
  <1>1. h.protocols \in [Protocols -> ProtocolDetails] /\ n \in [Protocols -> Nat]
    BY DEF Good, Handler
  <1>2. ASSUME NEW j \in Protocols
        PROVE  /\ WellFormed(g.protocols[j])
               /\ Accounted(g, [n EXCEPT ![i] = k][j], j)
               /\ Hears(g, a[j], j) <=> g.protocols[j].state = "Open"
    <2>1. CASE j = i
      BY <1>1, <2>1
    <2>2. CASE j # i
      <3>1. g.protocols[j] = h.protocols[j] /\ [n EXCEPT ![i] = k][j] = n[j]
        BY <1>1, <2>2
      <3>2. Wants(g, j) <=> Wants(h, j)
        BY <3>1 DEF Wants
      <3> QED BY <2>2, <3>1, <3>2 DEF Good, Accounted
    <2> QED BY <2>1, <2>2
  <1>3. [n EXCEPT ![i] = k] \in [Protocols -> Nat]
    BY <1>1
  <1> QED BY <1>2, <1>3 DEF Good

(* What the invariant says about protocol i.                               *)
LEMMA GoodAt ==
  ASSUME NEW h, NEW n, NEW a, Good(h, n, a), NEW i \in Protocols
  PROVE  /\ h \in Handler /\ h.protocols[i] \in ProtocolDetails
         /\ h.protocols[i].pending_opening \in BOOLEAN
         /\ h.protocols[i].state \in StateNames
         /\ n[i] \in Nat /\ n = [n EXCEPT ![i] = n[i]]
         /\ \A j \in Protocols : a[j] \in BOOLEAN
         /\ WellFormed(h.protocols[i])
         /\ Accounted(h, n[i], i)
         /\ Hears(h, a[i], i) <=> h.protocols[i].state = "Open"
  BY DEF Good, Handler, ProtocolDetails

(* The well-formed variants.                                               *)
LEMMA VariantsWellFormed ==
  /\ \A b \in BOOLEAN : WellFormed(Closed(b))
  /\ \A b \in BOOLEAN : WellFormed(OpenDesiredByRemote(NewInboundSubstream, b))
  /\ \A s \in Substream \cup {NoSubstream} :
       HandshakeSent(s) => WellFormed(Opening(s)) /\ WellFormed(Open(s))
  /\ \A b : Closed(b).state = "Closed" /\ Closed(b).pending_opening = b
  /\ \A s, b : /\ OpenDesiredByRemote(s, b).state = "OpenDesiredByRemote"
               /\ OpenDesiredByRemote(s, b).pending_opening = b
  /\ \A s : /\ Opening(s).state = "Opening" /\ ~Opening(s).pending_opening
            /\ Open(s).state = "Open" /\ ~Open(s).pending_opening
  <1>1. \A b : Ascending(Closed(b).wire \o Closed(b).recv)
    <2>1. DOMAIN (<< >> \o << >>) = {}
      OBVIOUS
    <2> QED BY <2>1 DEF Closed, Ascending
  <1>2. /\ \A s, b : /\ OpenDesiredByRemote(s, b).wire = Closed(b).wire
                     /\ OpenDesiredByRemote(s, b).recv = Closed(b).recv
        /\ \A s : /\ Opening(s).wire = Closed(FALSE).wire
                  /\ Opening(s).recv = Closed(FALSE).recv
                  /\ Open(s).wire = Closed(FALSE).wire
                  /\ Open(s).recv = Closed(FALSE).recv
    BY DEF Closed, OpenDesiredByRemote, Opening, Open
  <1>3. /\ \A b \in BOOLEAN : WellFormed(Closed(b))
        /\ \A b \in BOOLEAN : WellFormed(OpenDesiredByRemote(NewInboundSubstream, b))
        /\ \A s \in Substream \cup {NoSubstream} :
             HandshakeSent(s) => WellFormed(Opening(s)) /\ WellFormed(Open(s))
    BY <1>1, <1>2, WaitingStaysWaiting
       DEF Closed, OpenDesiredByRemote, Opening, Open, WellFormed
  <1> QED BY <1>3 DEF Closed, OpenDesiredByRemote, Opening, Open

(* Storing protocol i, alone or followed by an event about i.              *)
LEMMA StoreEffect ==
  ASSUME NEW h \in Handler, NEW i \in Protocols, NEW p \in ProtocolDetails,
         NEW a \in [Protocols -> BOOLEAN]
  PROVE  LET g == WithProtocol(h, i, p) IN
         /\ g \in Handler /\ g.protocols = [h.protocols EXCEPT ![i] = p]
         /\ \A j \in Protocols :
              /\ Queued(g, j) <=> Queued(h, j)
              /\ QueuedOnce(h, j) => QueuedOnce(g, j)
              /\ Hears(g, a[j], j) <=> Hears(h, a[j], j)
         /\ Wants(g, i) <=> p.state = "Opening" \/ p.pending_opening
  BY StoreTypes, WithProtocolEffect

(* A callback that stores one protocol and queues one event for it: what   *)
(* becomes of the accounting and of the announcements.                     *)
LEMMA StorePushEffect ==
  ASSUME NEW h \in Handler, NEW i \in Protocols, NEW p \in ProtocolDetails,
         NEW type \in EventTypes \ {"OutboundSubstreamRequest"},
         NEW a \in [Protocols -> BOOLEAN]
  PROVE  LET g == Push(WithProtocol(h, i, p), type, i) IN
         /\ g \in Handler /\ g.protocols = [h.protocols EXCEPT ![i] = p]
         /\ \A j \in Protocols :
              /\ Queued(g, j) <=> Queued(h, j)
              /\ QueuedOnce(h, j) => QueuedOnce(g, j)
         /\ \A j \in Protocols \ {i} : Hears(g, a[j], j) <=> Hears(h, a[j], j)
         /\ type = "HandshakeCompleted" => Hears(g, a[i], i)
         /\ type = "Close" => ~Hears(g, a[i], i)
         /\ type \notin {"HandshakeCompleted", "Close"} => (Hears(g, a[i], i) <=> Hears(h, a[i], i))
         /\ Wants(g, i) <=> p.state = "Opening" \/ p.pending_opening
  <1> DEFINE f == WithProtocol(h, i, p)
  <1>1. /\ f \in Handler /\ f.protocols = [h.protocols EXCEPT ![i] = p]
        /\ \A j \in Protocols :
              /\ Queued(f, j) <=> Queued(h, j)
              /\ QueuedOnce(h, j) => QueuedOnce(f, j)
              /\ Hears(f, a[j], j) <=> Hears(h, a[j], j)
        /\ Wants(f, i) <=> p.state = "Opening" \/ p.pending_opening
    BY StoreEffect
  <1> HIDE DEF f
  <1>2. Push(f, type, i) \in Handler /\ Push(f, type, i).protocols = f.protocols
    BY <1>1, PushTypes
  <1>3. \A j \in Protocols : a[j] \in BOOLEAN
    OBVIOUS
  <1> QED BY <1>1, <1>2, <1>3, PushEffect DEF f

(* on_behaviour_event(Open) *)
LEMMA OnOpenGood ==
  ASSUME NEW h, NEW n, NEW a, Good(h, n, a), NEW i \in Protocols
  PROVE  Good(OnOpen(h, i), n, a)
  <1> DEFINE p == h.protocols[i]
             s == IF p.state = "Closed" THEN NoSubstream ELSE set_handshake(p.inbound_substream)
  <1>1. /\ h \in Handler /\ p.pending_opening \in BOOLEAN /\ p.state \in StateNames
        /\ n[i] \in Nat /\ n = [n EXCEPT ![i] = n[i]] /\ WellFormed(p) /\ Accounted(h, n[i], i)
        /\ a \in [Protocols -> BOOLEAN] /\ (Hears(h, a[i], i) <=> p.state = "Open")
    BY GoodAt DEF Good
  <1>2. CASE p.state \in {"Opening", "Open"}
    BY <1>2, OnOpenCases
  <1>3. CASE p.state \in {"Closed", "OpenDesiredByRemote"}
    <2>1. OnOpen(h, i) = WithProtocol(RequestSubstream(h, i), i, Opening(s))
      BY <1>3, OnOpenCases
    <2>2. s \in Substream \cup {NoSubstream} /\ HandshakeSent(s)
      BY <1>1, <1>3, WaitingStaysWaiting DEF WellFormed
    <2> DEFINE f == RequestSubstream(h, i)
               q == Opening(s)
    <2>3. q \in ProtocolDetails /\ WellFormed(q) /\ q.state = "Opening" /\ ~q.pending_opening
      BY <2>2, VariantTypes, VariantsWellFormed
    <2>4. /\ f \in Handler /\ f.protocols = h.protocols
          /\ Queued(f, i) <=> Queued(h, i) \/ ~p.pending_opening
          /\ \A j \in Protocols \ {i} : Queued(f, j) <=> Queued(h, j)
          /\ \A j \in Protocols \ {i} : QueuedOnce(h, j) => QueuedOnce(f, j)
          /\ QueuedOnce(h, i) /\ (Queued(h, i) => p.pending_opening) => QueuedOnce(f, i)
          /\ \A j \in Protocols : Hears(f, a[j], j) <=> Hears(h, a[j], j)
      <3>1. CASE p.pending_opening
        BY <1>1, <3>1 DEF RequestSubstream
      <3>2. CASE ~p.pending_opening
        <4>1. f = Push(h, "OutboundSubstreamRequest", i)
          BY <3>2 DEF RequestSubstream
        <4>2. "OutboundSubstreamRequest" \in EventTypes
          BY DEF EventTypes
        <4>3. f \in Handler /\ f.protocols = h.protocols
          BY <1>1, <4>1, <4>2, PushTypes
        <4>4. \A j \in Protocols : a[j] \in BOOLEAN
          BY <1>1
        <4> HIDE DEF f
        <4> QED BY <1>1, <3>2, <4>1, <4>2, <4>3, <4>4, PushEffect
      <3> QED BY <1>1, <3>1, <3>2
    <2> HIDE DEF f, q
    <2> DEFINE g == WithProtocol(f, i, q)
    <2>5. /\ g \in Handler /\ g.protocols = [f.protocols EXCEPT ![i] = q]
          /\ \A j \in Protocols :
              /\ Queued(g, j) <=> Queued(f, j)
              /\ QueuedOnce(f, j) => QueuedOnce(g, j)
              /\ Hears(g, a[j], j) <=> Hears(f, a[j], j)
          /\ Wants(g, i)
      BY <1>1, <2>3, <2>4, StoreEffect
    <2> HIDE DEF g
    <2>6. Wants(h, i) <=> p.pending_opening
      BY <1>3 DEF Wants
    <2>7. Accounted(g, n[i], i)
      BY <1>1, <2>4, <2>5, <2>6 DEF Accounted
    <2>8. Hears(g, a[i], i) <=> q.state = "Open"
      BY <1>1, <1>3, <2>3, <2>4, <2>5
    <2>9. Good(g, [n EXCEPT ![i] = n[i]], a)
      BY <1>1, <2>3, <2>4, <2>5, <2>7, <2>8, OneProtocolStep
    <2> QED BY <1>1, <2>1, <2>9 DEF f, q, g
  <1> QED BY <1>1, <1>2, <1>3 DEF StateNames

(* on_behaviour_event(Close) *)
LEMMA OnCloseGood ==
  ASSUME NEW h, NEW n, NEW a, Good(h, n, a), NEW i \in Protocols
  PROVE  Good(OnClose(h, i), n, a)
  <1> DEFINE p == h.protocols[i]
             left == p.state = "Opening" \/ p.pending_opening
             q == IF p.state = "Closed" THEN p ELSE Closed(left)
             f == IF p.state = "Opening" THEN Push(WithProtocol(h, i, q), "HandshakeError", i)
                                         ELSE WithProtocol(h, i, q)
             g == Push(f, "Close", i)
  <1>1. /\ h \in Handler /\ p \in ProtocolDetails /\ p.pending_opening \in BOOLEAN
        /\ p.state \in StateNames /\ n[i] \in Nat /\ n = [n EXCEPT ![i] = n[i]]
        /\ WellFormed(p) /\ Accounted(h, n[i], i)
        /\ a \in [Protocols -> BOOLEAN] /\ \A j \in Protocols : a[j] \in BOOLEAN
    BY GoodAt DEF Good
  <1>2. /\ q \in ProtocolDetails /\ WellFormed(q) /\ q.state = "Closed"
        /\ q.pending_opening = left
    <2>1. CASE p.state = "Closed"
      BY <1>1, <2>1
    <2>2. CASE p.state # "Closed"
      BY <1>1, <2>2, VariantTypes, VariantsWellFormed
    <2> QED BY <2>1, <2>2
  <1>3. OnClose(h, i) = g
    <2>1. CASE p.state = "Closed"
      <3>1. WithProtocol(h, i, p) = h
        BY <1>1 DEF WithProtocol, Handler
      <3> QED BY <2>1, <3>1, OnCloseCases
    <2>2. CASE p.state = "OpenDesiredByRemote"
      <3>1. left = p.pending_opening
        BY <1>1, <2>2
      <3>2. p.state # "Closed" /\ p.state # "Opening"
        BY <2>2
      <3>3. q = Closed(p.pending_opening)
        BY <3>1, <3>2, Zenon
      <3>4. f = WithProtocol(h, i, Closed(p.pending_opening))
        BY <3>2, <3>3, Zenon
      <3>5. OnClose(h, i) = Push(WithProtocol(h, i, Closed(p.pending_opening)), "Close", i)
        BY <2>2, Zenon DEF OnClose
      <3> HIDE DEF f
      <3> QED BY <3>4, <3>5
    <2>3. CASE p.state = "Opening"
      <3>1. Closed(left) = Closed(TRUE)
        BY <1>1, <2>3
      <3> QED BY <2>3, <3>1, OnCloseCases, ZenonT(40)
    <2>4. CASE p.state = "Open"
      <3>1. left = FALSE
        BY <1>1, <2>4 DEF WellFormed
      <3> QED BY <2>4, <3>1, OnCloseCases, ZenonT(40)
    <2> QED BY <1>1, <2>1, <2>2, <2>3, <2>4 DEF StateNames
  <1>4. /\ f \in Handler /\ f.protocols = [h.protocols EXCEPT ![i] = q]
        /\ \A j \in Protocols :
             /\ Queued(f, j) <=> Queued(h, j)
             /\ QueuedOnce(h, j) => QueuedOnce(f, j)
        /\ \A j \in Protocols \ {i} : Hears(f, a[j], j) <=> Hears(h, a[j], j)
        /\ Wants(f, i) <=> left
    <2>1. "HandshakeError" \in EventTypes \ {"OutboundSubstreamRequest"}
      BY DEF EventTypes
    <2>2. q.state # "Opening"
      BY <1>2
    <2>3. CASE p.state = "Opening"
      <3> HIDE DEF q, left
      <3> QED BY <1>1, <1>2, <2>1, <2>2, <2>3, StorePushEffect
    <2>4. CASE p.state # "Opening"
      <3> HIDE DEF q, left
      <3> QED BY <1>1, <1>2, <2>2, <2>4, StoreEffect
    <2> QED BY <2>3, <2>4
  <1> HIDE DEF f, q
  <1>5. "Close" \in EventTypes
    BY DEF EventTypes
  <1>6. g \in Handler /\ g.protocols = [h.protocols EXCEPT ![i] = q]
    BY <1>4, <1>5, PushTypes
  <1>7. /\ \A j \in Protocols :
             /\ Queued(g, j) <=> Queued(h, j)
             /\ QueuedOnce(h, j) => QueuedOnce(g, j)
        /\ \A j \in Protocols \ {i} : Hears(g, a[j], j) <=> Hears(h, a[j], j)
        /\ ~Hears(g, a[i], i)
        /\ Wants(g, i) <=> left
    BY <1>1, <1>4, <1>5, PushEffect
  <1> HIDE DEF g
  <1>8. Accounted(g, n[i], i)
    BY <1>1, <1>7 DEF Accounted, Wants
  <1>9. Good(g, [n EXCEPT ![i] = n[i]], a)
    BY <1>1, <1>2, <1>6, <1>7, <1>8, OneProtocolStep
  <1> QED BY <1>1, <1>3, <1>9

(* on_connection_event(FullyNegotiatedInbound) *)
LEMMA InboundGood ==
  ASSUME NEW h, NEW n, NEW a, Good(h, n, a), NEW i \in Protocols
  PROVE  Good(FullyNegotiatedInbound(h, i), n, a)
  <1> DEFINE p == h.protocols[i]
             F == FullyNegotiatedInbound(h, i)
  <1>1. /\ h \in Handler /\ p \in ProtocolDetails /\ p.pending_opening \in BOOLEAN
        /\ p.state \in StateNames /\ n[i] \in Nat /\ n = [n EXCEPT ![i] = n[i]]
        /\ WellFormed(p) /\ Accounted(h, n[i], i)
        /\ a \in [Protocols -> BOOLEAN] /\ (Hears(h, a[i], i) <=> p.state = "Open")
    BY GoodAt DEF Good
  <1>2. CASE F = h
    BY <1>2
  <1>3. CASE p.state = "Closed"
    <2> DEFINE q == OpenDesiredByRemote(NewInboundSubstream, p.pending_opening)
    <2>1. F = Push(WithProtocol(h, i, q), "OpenDesiredByRemote", i)
      BY <1>3, InboundCases
    <2>2. /\ q \in ProtocolDetails /\ WellFormed(q) /\ q.state = "OpenDesiredByRemote"
          /\ q.pending_opening = p.pending_opening
      BY <1>1, VariantTypes, VariantsWellFormed, WaitingStaysWaiting
    <2>3. "OpenDesiredByRemote" \in EventTypes \ {"OutboundSubstreamRequest"}
      BY DEF EventTypes
    <2> HIDE DEF q, F
    <2>4. /\ F \in Handler /\ F.protocols = [h.protocols EXCEPT ![i] = q]
          /\ \A j \in Protocols :
              /\ Queued(F, j) <=> Queued(h, j)
              /\ QueuedOnce(h, j) => QueuedOnce(F, j)
          /\ \A j \in Protocols : Hears(F, a[j], j) <=> Hears(h, a[j], j)
          /\ Wants(F, i) <=> p.pending_opening
      BY <1>1, <2>1, <2>2, <2>3, StorePushEffect, SMTT(30)
    <2>5. Accounted(F, n[i], i)
      BY <1>1, <1>3, <2>4 DEF Accounted, Wants
    <2>6. Good(F, [n EXCEPT ![i] = n[i]], a)
      BY <1>1, <1>3, <2>2, <2>4, <2>5, OneProtocolStep
    <2> QED BY <1>1, <2>6 DEF F
  <1>4. CASE p.state \in {"Opening", "Open"} /\ p.inbound_substream = NoSubstream
    <2> DEFINE q == [p EXCEPT !.inbound_substream = set_handshake(NewInboundSubstream)]
    <2>1. F = WithProtocol(h, i, q)
      BY <1>4, InboundCases
    <2>2. /\ q \in ProtocolDetails /\ WellFormed(q) /\ q.state = p.state
          /\ q.pending_opening = p.pending_opening
      BY <1>1, <1>4, WaitingStaysWaiting DEF ProtocolDetails, WellFormed
    <2> HIDE DEF q, F
    <2>3. /\ F \in Handler /\ F.protocols = [h.protocols EXCEPT ![i] = q]
          /\ \A j \in Protocols :
              /\ Queued(F, j) <=> Queued(h, j)
              /\ QueuedOnce(h, j) => QueuedOnce(F, j)
              /\ Hears(F, a[j], j) <=> Hears(h, a[j], j)
          /\ Wants(F, i) <=> Wants(h, i)
      BY <1>1, <2>1, <2>2, StoreEffect DEF Wants
    <2>4. Accounted(F, n[i], i)
      BY <1>1, <2>3 DEF Accounted
    <2>5. Good(F, [n EXCEPT ![i] = n[i]], a)
      BY <1>1, <2>2, <2>3, <2>4, OneProtocolStep
    <2> QED BY <1>1, <2>5 DEF F
  <1> QED BY <1>1, <1>2, <1>3, <1>4, InboundCases DEF StateNames

(* on_connection_event(FullyNegotiatedOutbound) and (DialUpgradeError): an *)
(* answer finds its protocol waiting, hence never Open.                    *)
LEMMA AnswerGood ==
  ASSUME NEW h, NEW n, NEW a, Good(h, n, a), NEW i \in Protocols, n[i] > 0,
         NEW F \in {FullyNegotiatedOutbound(h, i), DialUpgradeError(h, i)}
  PROVE  Good(F, [n EXCEPT ![i] = @ - 1], a)
  <1> DEFINE p == h.protocols[i]
  <1>1. /\ h \in Handler /\ p \in ProtocolDetails /\ p.pending_opening \in BOOLEAN
        /\ p.state \in StateNames /\ n[i] \in Nat
        /\ WellFormed(p) /\ Accounted(h, n[i], i)
        /\ a \in [Protocols -> BOOLEAN] /\ (Hears(h, a[i], i) <=> p.state = "Open")
    BY GoodAt DEF Good
  <1>2. n[i] = 1 /\ ~Queued(h, i) /\ QueuedOnce(h, i) /\ Wants(h, i)
    BY <1>1 DEF Accounted
  <1>3. p.state # "Open"
    BY <1>1, <1>2 DEF Wants, WellFormed
  <1>4. [n EXCEPT ![i] = @ - 1] = [n EXCEPT ![i] = 0]
    BY <1>2
  <1>5. CASE p.state \in {"Closed", "OpenDesiredByRemote"}
    <2> DEFINE q == [p EXCEPT !.pending_opening = FALSE]
    <2>1. F = WithProtocol(h, i, q)
      BY <1>5, Zenon DEF FullyNegotiatedOutbound, DialUpgradeError
    <2>2. q \in ProtocolDetails /\ WellFormed(q) /\ q.state = p.state /\ ~q.pending_opening
      BY <1>1, <1>5 DEF ProtocolDetails, WellFormed
    <2> HIDE DEF q
    <2>3. /\ F \in Handler /\ F.protocols = [h.protocols EXCEPT ![i] = q]
          /\ \A j \in Protocols :
              /\ Queued(F, j) <=> Queued(h, j)
              /\ QueuedOnce(h, j) => QueuedOnce(F, j)
              /\ Hears(F, a[j], j) <=> Hears(h, a[j], j)
          /\ ~Wants(F, i)
      BY <1>1, <1>5, <2>1, <2>2, StoreEffect
    <2>4. Accounted(F, 0, i)
      BY <1>2, <2>3 DEF Accounted
    <2>5. Good(F, [n EXCEPT ![i] = 0], a)
      BY <1>1, <2>2, <2>3, <2>4, OneProtocolStep
    <2> QED BY <1>4, <2>5
  <1>6. CASE p.state = "Opening"
    <2>1. PICK q \in {Open(p.inbound_substream), Closed(FALSE)},
               t \in {"HandshakeCompleted", "HandshakeError"} :
            /\ F = Push(WithProtocol(h, i, q), t, i)
            /\ t = "HandshakeCompleted" <=> q = Open(p.inbound_substream)
      <3>1. Open(p.inbound_substream) # Closed(FALSE)
        BY VariantsWellFormed
      <3> QED BY <1>6, <3>1, OutboundCases
    <2>2. p.inbound_substream \in Substream \cup {NoSubstream}
          /\ HandshakeSent(p.inbound_substream)
      BY <1>1 DEF ProtocolDetails, WellFormed
    <2>3. /\ q \in ProtocolDetails /\ WellFormed(q) /\ ~q.pending_opening
          /\ q.state \in {"Open", "Closed"}
          /\ q.state = "Open" <=> t = "HandshakeCompleted"
      BY <2>1, <2>2, VariantTypes, VariantsWellFormed
    <2>4. t \in EventTypes \ {"OutboundSubstreamRequest"} /\ t # "Close"
      BY <2>1 DEF EventTypes
    <2>5. /\ F \in Handler /\ F.protocols = [h.protocols EXCEPT ![i] = q]
          /\ \A j \in Protocols :
              /\ Queued(F, j) <=> Queued(h, j)
              /\ QueuedOnce(h, j) => QueuedOnce(F, j)
          /\ \A j \in Protocols \ {i} : Hears(F, a[j], j) <=> Hears(h, a[j], j)
          /\ t = "HandshakeCompleted" => Hears(F, a[i], i)
          /\ t # "HandshakeCompleted" => (Hears(F, a[i], i) <=> Hears(h, a[i], i))
          /\ ~Wants(F, i)
      BY <1>1, <2>1, <2>3, <2>4, StorePushEffect
    <2>6. Hears(F, a[i], i) <=> q.state = "Open"
      BY <1>1, <1>6, <2>3, <2>5
    <2>7. Accounted(F, 0, i)
      BY <1>2, <2>5 DEF Accounted
    <2>8. Good(F, [n EXCEPT ![i] = 0], a)
      BY <1>1, <2>3, <2>5, <2>6, <2>7, OneProtocolStep
    <2> QED BY <1>4, <2>8
  <1> QED BY <1>1, <1>3, <1>5, <1>6 DEF StateNames

(* A message in the channel of protocol i changes none of this.            *)
LEMMA SendGood ==
  ASSUME NEW h, NEW n, NEW a, Good(h, n, a), NEW i \in Protocols, NEW m \in Messages,
         \A k \in DOMAIN h.protocols[i].recv : h.protocols[i].recv[k] < m,
         \A k \in DOMAIN h.protocols[i].wire : h.protocols[i].wire[k] < m
  PROVE  Good(WithProtocol(h, i, [h.protocols[i] EXCEPT !.recv = Append(@, m)]), n, a)
  <1> DEFINE p == h.protocols[i]
             q == [p EXCEPT !.recv = Append(@, m)]
             F == WithProtocol(h, i, q)
  <1>1. /\ h \in Handler /\ p \in ProtocolDetails /\ WellFormed(p) /\ Accounted(h, n[i], i)
        /\ n[i] \in Nat /\ n = [n EXCEPT ![i] = n[i]]
        /\ a \in [Protocols -> BOOLEAN] /\ (Hears(h, a[i], i) <=> p.state = "Open")
    BY GoodAt DEF Good
  <1>2. Append(p.recv, m) \in Seq(Messages)
    BY <1>1 DEF ProtocolDetails
  <1>0. Ascending(p.wire \o Append(p.recv, m))
    <2>1. p.wire \in Seq(Messages) /\ p.recv \in Seq(Messages)
      BY <1>1 DEF ProtocolDetails
    <2> QED BY <1>1, <2>1, SendingOrdered DEF WellFormed
  <1>3. q \in ProtocolDetails /\ WellFormed(q) /\ q.state = p.state
        /\ q.pending_opening = p.pending_opening
    BY <1>0, <1>1, <1>2 DEF ProtocolDetails, WellFormed
  <1> HIDE DEF q
  <1>4. /\ F \in Handler /\ F.protocols = [h.protocols EXCEPT ![i] = q]
        /\ \A j \in Protocols :
              /\ Queued(F, j) <=> Queued(h, j)
              /\ QueuedOnce(h, j) => QueuedOnce(F, j)
              /\ Hears(F, a[j], j) <=> Hears(h, a[j], j)
        /\ Wants(F, i) <=> Wants(h, i)
    BY <1>1, <1>3, StoreEffect DEF Wants
  <1> HIDE DEF F
  <1>5. Accounted(F, n[i], i)
    BY <1>1, <1>4 DEF Accounted
  <1>6. Good(F, [n EXCEPT ![i] = n[i]], a)
    BY <1>1, <1>3, <1>4, <1>5, OneProtocolStep
  <1> QED BY <1>1, <1>6 DEF F, q

(* poll *)
LEMMA PollGood ==
  ASSUME NEW h, NEW n, NEW a, Good(h, n, a), NEW r \in poll(h)
  PROVE  Good(r.handler, Received(r.event, n), Heard(r.event, a))
  <1>1. h \in Handler /\ n \in [Protocols -> Nat] /\ a \in [Protocols -> BOOLEAN]
    BY DEF Good
  <1>2. CASE h.pending_events # << >>
    <2> DEFINE g == [h EXCEPT !.pending_events = Tail(@)]
               e == Head(h.pending_events)
    <2>1. r.handler = g /\ r.event = e
      BY <1>2 DEF poll, PollPending, Result
    <2>2. g \in Handler /\ g.protocols = h.protocols /\ e \in HandlerEvent
      <3> DEFINE q == h.pending_events
      <3>1. q \in Seq(HandlerEvent) /\ h.protocols \in [Protocols -> ProtocolDetails]
        BY <1>1 DEF Handler
      <3>2. Head(q) \in HandlerEvent /\ Tail(q) \in Seq(HandlerEvent)
        BY <1>2, <3>1
      <3> QED BY <1>1, <3>1, <3>2 DEF Handler
    <2>3. e.type \in EventTypes /\ e.index \in Protocols /\ e = Event(e.type, e.index)
      BY <2>2 DEF HandlerEvent, Event
    <2>4. \A t, j : e = Event(t, j) <=> e.type = t /\ e.index = j
      BY <2>3 DEF Event
    <2> HIDE DEF e
    <2>5. Received(e, n) \in [Protocols -> Nat]
          /\ \A j \in Protocols : Received(e, n)[j] = IF e = Request(j) THEN n[j] + 1 ELSE n[j]
      BY <1>1, <2>3, <2>4 DEF Received, Request
    <2>6. /\ Heard(e, a) \in [Protocols -> BOOLEAN]
          /\ \A j \in Protocols :
               /\ e = Event("HandshakeCompleted", j) => Heard(e, a)[j]
               /\ e = Event("Close", j) => ~Heard(e, a)[j]
               /\ e \notin {Event("HandshakeCompleted", j), Event("Close", j)}
                    => (Heard(e, a)[j] <=> a[j])
      <3>1. CASE e.type = "HandshakeCompleted"
        <4>1. Heard(e, a) = [a EXCEPT ![e.index] = TRUE]
          BY <3>1, Zenon DEF Heard
        <4> QED BY <1>1, <2>3, <2>4, <3>1, <4>1
      <3>2. CASE e.type = "Close"
        <4>1. Heard(e, a) = [a EXCEPT ![e.index] = FALSE]
          BY <3>2, Zenon DEF Heard
        <4> QED BY <1>1, <2>3, <2>4, <3>2, <4>1
      <3>3. CASE e.type \notin {"HandshakeCompleted", "Close"}
        <4>1. Heard(e, a) = a
          BY <3>3, Zenon DEF Heard
        <4> QED BY <1>1, <2>4, <3>3, <4>1
      <3> QED BY <3>1, <3>2, <3>3
    <2>7. \A j \in Protocols :
            /\ Wants(g, j) <=> Wants(h, j)
            /\ Queued(h, j) <=> Queued(g, j) \/ e = Request(j)
            /\ QueuedOnce(h, j) => QueuedOnce(g, j) /\ ~(e = Request(j) /\ Queued(g, j))
            /\ Hears(g, Heard(e, a)[j], j) <=> Hears(h, a[j], j)
      <3> TAKE j \in Protocols
      <3> DEFINE b == Heard(e, a)[j]
                 c == a[j]
      <3>1. c \in BOOLEAN /\ b \in BOOLEAN
        BY <1>1, <2>6
      <3>2. /\ e = Event("HandshakeCompleted", j) => b
            /\ e = Event("Close", j) => ~b
            /\ e \notin {Event("HandshakeCompleted", j), Event("Close", j)} => (b <=> c)
        BY <2>6
      <3>3. e = Head(h.pending_events) /\ g = [h EXCEPT !.pending_events = Tail(@)]
        BY DEF e
      <3> HIDE DEF b, c, g
      <3>4. /\ Wants(g, j) <=> Wants(h, j)
            /\ Queued(h, j) <=> Queued(g, j) \/ e = Request(j)
            /\ QueuedOnce(h, j) => QueuedOnce(g, j) /\ ~(e = Request(j) /\ Queued(g, j))
            /\ Hears(g, b, j) <=> Hears(h, c, j)
        BY <1>1, <1>2, <3>1, <3>2, <3>3, TailEffect
      <3> QED BY <3>4 DEF b, c
    <2> HIDE DEF g
    <2>8. ASSUME NEW j \in Protocols
          PROVE  /\ WellFormed(g.protocols[j])
                 /\ Accounted(g, Received(e, n)[j], j)
                 /\ Hears(g, Heard(e, a)[j], j) <=> g.protocols[j].state = "Open"
      <3>1. Accounted(h, n[j], j) /\ n[j] \in Nat
        BY <1>1 DEF Good
      <3>2. Accounted(g, Received(e, n)[j], j)
        BY <2>5, <2>7, <3>1 DEF Accounted
      <3>3. WellFormed(g.protocols[j])
        BY <2>2 DEF Good
      <3>4. Hears(g, Heard(e, a)[j], j) <=> g.protocols[j].state = "Open"
        BY <2>2, <2>7 DEF Good
      <3> QED BY <3>2, <3>3, <3>4
    <2> QED BY <2>1, <2>2, <2>5, <2>6, <2>8 DEF Good
  <1>3. CASE h.pending_events = << >>
    <2> DEFINE g == r.handler
    <2>1. r \in PollSockets(h)
      BY <1>3 DEF poll
    <2>2. /\ g \in Handler /\ g.pending_events = h.pending_events
          /\ SocketResult(h, g, r.event)
      BY <1>1, <2>1, SocketsKeep DEF Good
    <2>3. r.event.type \in {"Nothing", "CloseDesired", "Notification"}
      <3>1. Nothing.type = "Nothing" /\ \A t, j : Event(t, j).type = t
        BY DEF Nothing, Event
      <3> QED BY <2>2, <3>1 DEF SocketResult
    <2>4. Received(r.event, n) = n
      BY <2>3 DEF Received
    <2>5. Heard(r.event, a) = a
      BY <2>3, Zenon DEF Heard
    <2> HIDE DEF g
    <2>6. ASSUME NEW j \in Protocols
          PROVE  /\ WellFormed(g.protocols[j])
                 /\ Accounted(g, n[j], j)
                 /\ Hears(g, a[j], j) <=> g.protocols[j].state = "Open"
      <3>1. /\ g.protocols[j].state = h.protocols[j].state /\ WellFormed(g.protocols[j])
            /\ g.protocols[j].pending_opening = h.protocols[j].pending_opening
        BY <2>2 DEF SocketResult, Keeps, Breaks
      <3>2. /\ Wants(g, j) <=> Wants(h, j)
            /\ Queued(g, j) <=> Queued(h, j)
            /\ QueuedOnce(g, j) <=> QueuedOnce(h, j)
            /\ Hears(g, a[j], j) <=> Hears(h, a[j], j)
        BY <2>2, <3>1 DEF Wants, Queued, In, QueuedOnce, Once, Hears
      <3> QED BY <3>1, <3>2 DEF Good, Accounted
    <2> QED BY <1>1, <2>2, <2>4, <2>5, <2>6 DEF Good, g
  <1> QED BY <1>2, <1>3

(* The handler built by NotificationsHandler::new, without any request and *)
(* with a listener that has heard nothing.                                 *)
LEMMA NewHandlerGood ==
  Good(NewHandler, [i \in Protocols |-> 0], [i \in Protocols |-> FALSE])
  <1> DEFINE n == [i \in Protocols |-> 0]
             a == [i \in Protocols |-> FALSE]
  <1>1. n \in [Protocols -> Nat] /\ a \in [Protocols -> BOOLEAN]
    OBVIOUS
  <1>2. \A j \in Protocols : n[j] = 0 /\ a[j] = FALSE
    OBVIOUS
  <1>3. /\ NewHandler.protocols = [i \in Protocols |-> Closed(FALSE)]
        /\ NewHandler.pending_events = << >>
    BY DEF NewHandler
  <1>4. NewHandler \in Handler
    <2>1. << >> \in Seq(HandlerEvent)
      OBVIOUS
    <2> QED BY <2>1, VariantTypes DEF NewHandler, Handler
  <1> HIDE DEF n, a
  <1>5. ASSUME NEW j \in Protocols
        PROVE  /\ WellFormed(NewHandler.protocols[j])
               /\ Accounted(NewHandler, n[j], j)
               /\ Hears(NewHandler, a[j], j) <=> NewHandler.protocols[j].state = "Open"
    <2>1. WellFormed(Closed(FALSE)) /\ Closed(FALSE).state = "Closed"
          /\ Closed(FALSE).pending_opening = FALSE
      BY VariantsWellFormed
    <2>2. NewHandler.protocols[j] = Closed(FALSE) /\ NewHandler.pending_events = << >>
      BY <1>3
    <2>3. DOMAIN NewHandler.pending_events = {}
      BY <2>2
    <2>4. ~Wants(NewHandler, j)
      BY <2>1, <2>2 DEF Wants
    <2>5. ~Queued(NewHandler, j) /\ QueuedOnce(NewHandler, j) /\ ~Hears(NewHandler, FALSE, j)
      BY <2>3, Zenon DEF Queued, In, QueuedOnce, Once, Hears
    <2>6. Accounted(NewHandler, n[j], j)
      BY <1>2, <2>4, <2>5 DEF Accounted
    <2>7. ~Hears(NewHandler, a[j], j)
      BY <1>2, <2>5
    <2> QED BY <2>1, <2>2, <2>6, <2>7
  <1> QED BY <1>1, <1>4, <1>5 DEF Good, n, a
=============================================================================
