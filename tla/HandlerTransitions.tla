------------------------- MODULE HandlerTransitions -------------------------
(***************************************************************************)
(* The callbacks of NotificationsHandler (notifications/handler.rs) as     *)
(* functions from handler to handler.  NotificationsHandler.tla runs them  *)
(* against any behaviour, Notifications.tla against the real one.          *)
(*                                                                         *)
(* A handler is its protocols and its queue `pending_events'.  A protocol  *)
(* is one of the four variants of State; a field that a variant does not   *)
(* have holds the default that `Closed(FALSE)' gives it.  Handshake bytes, *)
(* protocol names, the endpoint and the `inbound' direction flag are only  *)
(* passed through by this code and are left out.                           *)
(***************************************************************************)
EXTENDS HandshakeSubstream, Queues

CONSTANTS
  NumProtocols,   \* self.protocols.len(): block-announces and transactions
  Messages        \* what the user may push into the channel of a protocol

ASSUME HandlerAssumption ==
  /\ NumProtocols \in Nat \ {0}
  /\ Messages \subseteq Nat

(* The index of a protocol is its position in self.protocols.              *)
Protocols == 0 .. NumProtocols - 1

NoSubstream == [state |-> "None", flushed |-> FALSE]

StateNames == {"Closed", "OpenDesiredByRemote", "Opening", "Open"}

(* `outbound_substream' is whether the Option is Some; `recv' is the       *)
(* content of the user's mpsc channel, oldest first; `wire' is what the    *)
(* outbound substream of this session has accepted.                        *)
ProtocolDetails ==
  [state              : StateNames,
   pending_opening    : BOOLEAN,
   inbound_substream  : Substream \cup {NoSubstream},
   outbound_substream : BOOLEAN,
   recv               : Seq(Messages),
   wire               : Seq(Messages)]

Closed(pending_opening) ==
  [state |-> "Closed", pending_opening |-> pending_opening,
   inbound_substream |-> NoSubstream, outbound_substream |-> FALSE,
   recv |-> << >>, wire |-> << >>]

OpenDesiredByRemote(inbound_substream, pending_opening) ==
  [Closed(pending_opening) EXCEPT !.state = "OpenDesiredByRemote",
                                  !.inbound_substream = inbound_substream]

Opening(inbound_substream) ==
  [Closed(FALSE) EXCEPT !.state = "Opening",
                        !.inbound_substream = inbound_substream]

Open(inbound_substream) ==
  [Closed(FALSE) EXCEPT !.state = "Open",
                        !.inbound_substream = inbound_substream,
                        !.outbound_substream = TRUE]

(* What the handler hands to libp2p: a request for a substream, or one of  *)
(* the NotificationsHandlerToBehavior messages.                            *)
EventTypes ==
  {"OutboundSubstreamRequest", "HandshakeCompleted", "HandshakeError",
   "OpenDesiredByRemote", "CloseDesired", "Close", "Notification"}

Event(type, i) == [type |-> type, index |-> i]

HandlerEvent == [type : EventTypes, index : Protocols]

Handler == [protocols : [Protocols -> ProtocolDetails],
            pending_events : Seq(HandlerEvent)]

NewHandler ==
  [protocols |-> [i \in Protocols |-> Closed(FALSE)], pending_events |-> << >>]

-----------------------------------------------------------------------------
(* Helpers: store a protocol, store it and queue events behind it.         *)
WithProtocol(h, i, p) == [h EXCEPT !.protocols[i] = p]

Push(h, type, i) ==
  [h EXCEPT !.pending_events = Append(@, Event(type, i))]

(* on_connection_event: the remote opened a substream on protocol i.  It   *)
(* is dropped when the protocol already has one.                           *)
FullyNegotiatedInbound(h, i) ==
  LET p == h.protocols[i]
      substream == NewInboundSubstream
  IN  CASE p.state = "Closed" ->
             Push(WithProtocol(h, i, OpenDesiredByRemote(substream, p.pending_opening)),
                  "OpenDesiredByRemote", i)
        [] p.state \in {"Opening", "Open"} /\ p.inbound_substream = NoSubstream ->
             WithProtocol(h, i, [p EXCEPT !.inbound_substream = set_handshake(substream)])
        [] OTHER -> h

(* Fault: pending_opening is not reset by the answer.                      *)
FullyNegotiatedOutboundForgets(h, i) ==
  IF h.protocols[i].state = "Opening"
  THEN Push(WithProtocol(h, i, Open(h.protocols[i].inbound_substream)),
            "HandshakeCompleted", i)
  ELSE h

(* on_connection_event: the substream we asked for is negotiated.          *)
FullyNegotiatedOutbound(h, i) ==
  LET p == h.protocols[i]
  IN  CASE p.state \in {"Closed", "OpenDesiredByRemote"} ->
             WithProtocol(h, i, [p EXCEPT !.pending_opening = FALSE])
        [] p.state = "Opening" ->
             Push(WithProtocol(h, i, Open(p.inbound_substream)), "HandshakeCompleted", i)
        [] OTHER -> h

(* on_connection_event: the substream we asked for could not be opened.    *)
DialUpgradeError(h, i) ==
  LET p == h.protocols[i]
  IN  CASE p.state \in {"Closed", "OpenDesiredByRemote"} ->
             WithProtocol(h, i, [p EXCEPT !.pending_opening = FALSE])
        [] p.state = "Opening" ->
             Push(WithProtocol(h, i, Closed(FALSE)), "HandshakeError", i)
        [] OTHER -> h

(* Fault: a substream is requested although one is on its way.             *)
RequestSubstreamAlways(h, i) == Push(h, "OutboundSubstreamRequest", i)

(* on_behaviour_event(Open): a substream is requested unless an earlier    *)
(* request is still unanswered.                                            *)
RequestSubstream(h, i) ==
  IF h.protocols[i].pending_opening THEN h ELSE Push(h, "OutboundSubstreamRequest", i)

OnOpen(h, i) ==
  LET p == h.protocols[i]
  IN  CASE p.state = "Closed" ->
             WithProtocol(RequestSubstream(h, i), i, Opening(NoSubstream))
        [] p.state = "OpenDesiredByRemote" ->
             WithProtocol(RequestSubstream(h, i), i, Opening(set_handshake(p.inbound_substream)))
        [] OTHER -> h

(* Fault: closing while opening forgets the request under way.             *)
OnCloseForgetsRequest(h, i) ==
  LET p == h.protocols[i]
  IN  Push(WithProtocol(IF p.state = "Opening" THEN Push(h, "HandshakeError", i) ELSE h,
                        i, Closed(p.pending_opening)), "Close", i)

(* Fault: Close is not answered.                                           *)
OnCloseSilent(h, i) ==
  LET p == h.protocols[i]
      asked == p.state = "Opening" \/ p.pending_opening
  IN  WithProtocol(IF p.state = "Opening" THEN Push(h, "HandshakeError", i) ELSE h,
                   i, Closed(asked))

(* on_behaviour_event(Close): the answer Close is queued in every state.   *)
OnClose(h, i) ==
  LET p == h.protocols[i]
      closed ==
        CASE p.state = "Closed" -> h
          [] p.state = "OpenDesiredByRemote" ->
               WithProtocol(h, i, Closed(p.pending_opening))
          [] p.state = "Opening" ->
               Push(WithProtocol(h, i, Closed(TRUE)), "HandshakeError", i)
          [] p.state = "Open" -> WithProtocol(h, i, Closed(FALSE))
  IN  Push(closed, "Close", i)

-----------------------------------------------------------------------------
(* poll.  The sockets may answer anything, so a call is the set of its     *)
(* possible results: the handler afterwards and the event it returns, or   *)
(* Nothing for Poll::Pending.                                              *)
Nothing == [type |-> "Nothing", index |-> 0]

Result(h, event) == [handler |-> h, event |-> event]

(* Every way to choose one member of S[i] for each protocol i.             *)
Choices(S) ==
  {f \in [Protocols -> UNION {S[i] : i \in Protocols}] : \A i \in Protocols : f[i] \in S[i]}

(* Fault: a message stays in the channel after it was sent.                *)
ForwardedPeeks(p) ==
  IF p.state = "Open" /\ p.outbound_substream
  THEN {[p EXCEPT !.wire = @ \o SubSeq(p.recv, 1, sent)] : sent \in 0 .. Len(p.recv)}
  ELSE {p}

(* Step 1, messages of the user: `taken' of them leave the channel, in     *)
(* order, and the socket accepts the first `sent' of these; the error of   *)
(* start_send is ignored, so the others are lost.                          *)
Forwarded(p) ==
  IF p.state = "Open" /\ p.outbound_substream
  THEN UNION {{[p EXCEPT !.recv = SubSeq(@, taken + 1, Len(@)),
                         !.wire = @ \o SubSeq(p.recv, 1, sent)] : sent \in 0 .. taken}
              : taken \in 0 .. Len(p.recv)}
  ELSE {p}

(* Step 2, flush: the first failing protocol loses its outbound substream  *)
(* and poll returns CloseDesired.                                          *)
FlushErrors(h) ==
  {Result(WithProtocol(h, i, [h.protocols[i] EXCEPT !.outbound_substream = FALSE]),
          Event("CloseDesired", i))
     : i \in {j \in Protocols : h.protocols[j].state = "Open"
                                /\ h.protocols[j].outbound_substream}}

(* Step 3, one protocol's inbound substream: the protocol afterwards, and  *)
(* the type of the event poll returns with, or "Nothing" to go on.         *)
Polled(p, type) == [protocol |-> p, type |-> type]

StoreSubstream(p, s) == [p EXCEPT !.inbound_substream = s]

PollInboundOpen(p) ==
  {CASE o.returned = "Pending" -> Polled(StoreSubstream(p, o.substream), "Nothing")
     [] o.returned = "Item"    -> Polled(StoreSubstream(p, o.substream), "Notification")
     [] OTHER                  -> Polled(StoreSubstream(p, NoSubstream), "Nothing")
   : o \in poll_next(p.inbound_substream)}

PollInboundDesired(p) ==
  {IF o.returned = "Pending"
   THEN Polled(StoreSubstream(p, o.substream), "Nothing")
   ELSE Polled(Closed(p.pending_opening), "CloseDesired")
   : o \in poll_process(p.inbound_substream)}

(* Fault: the substream survives a failed handshake.                       *)
PollInboundOpeningKeeps(p) ==
  {Polled(StoreSubstream(p, o.substream), "Nothing") : o \in poll_process(p.inbound_substream)}

PollInboundOpening(p) ==
  {Polled(StoreSubstream(p, IF o.returned = "Pending" THEN o.substream ELSE NoSubstream),
          "Nothing")
   : o \in poll_process(p.inbound_substream)}

InboundPolled(p) ==
  CASE p.state = "Open" /\ p.inbound_substream # NoSubstream -> PollInboundOpen(p)
    [] p.state = "OpenDesiredByRemote" -> PollInboundDesired(p)
    [] p.state = "Opening" /\ p.inbound_substream # NoSubstream -> PollInboundOpening(p)
    [] OTHER -> {Polled(p, "Nothing")}

(* The loop over the protocols stops at the first one with an event.       *)
PollInbound(h) ==
  LET Stop(out) == {i \in Protocols : out[i].type # "Nothing"}
      Reached(out, i) == \A j \in Stop(out) : i <= j
      After(out) ==
        [h EXCEPT !.protocols =
           [i \in Protocols |-> IF Reached(out, i) THEN out[i].protocol ELSE @[i]]]
      Returned(out) ==
        {Event(out[i].type, i) : i \in {j \in Stop(out) : Reached(out, j)}}
          \cup {e \in {Nothing} : Stop(out) = {}}
      outcomes == [i \in Protocols |-> InboundPolled(h.protocols[i])]
  IN  UNION {{Result(After(out), e) : e \in Returned(out)} : out \in Choices(outcomes)}

(* With an empty queue: forward, then either a flush fails or the inbound  *)
(* substreams are polled.                                                  *)
PollSockets(h) ==
  LET forwardings == [i \in Protocols |-> Forwarded(h.protocols[i])]
  IN  UNION {LET f == [h EXCEPT !.protocols = ps]
             IN  FlushErrors(f) \cup PollInbound(f)
             : ps \in Choices(forwardings)}

PollPending(h) ==
  {Result([h EXCEPT !.pending_events = Tail(@)], Head(h.pending_events))}

(* Fault: the sockets are polled before the queue is empty.                *)
pollSocketsFirst(h) ==
  PollSockets(h) \cup IF h.pending_events # << >> THEN PollPending(h) ELSE {}

poll(h) == IF h.pending_events # << >> THEN PollPending(h) ELSE PollSockets(h)
-----------------------------------------------------------------------------
(* The environment of a handler: libp2p works on the requests it receives, *)
(* a listener believes what the last event told it.                        *)
Received(event, reqs) ==
  IF event.type = "OutboundSubstreamRequest"
  THEN [reqs EXCEPT ![event.index] = @ + 1] ELSE reqs

Heard(event, ann) ==
  CASE event.type = "HandshakeCompleted" -> [ann EXCEPT ![event.index] = TRUE]
    [] event.type = "Close" -> [ann EXCEPT ![event.index] = FALSE]
    [] OTHER -> ann

-----------------------------------------------------------------------------
(* What holds of a handler h for which libp2p works on n[i] requests and   *)
(* whose listener believes a[i] of protocol i.                             *)

(* The protocol expects an answer to a request: it is Opening, or it was   *)
(* closed while opening and remembers the request in pending_opening.      *)
Wants(h, i) == h.protocols[i].state = "Opening" \/ h.protocols[i].pending_opening

Request(i) == Event("OutboundSubstreamRequest", i)

Queued(h, i) == In(Request(i), h.pending_events)

QueuedOnce(h, i) == Once(Request(i), h.pending_events)

(* A protocol waits iff exactly one request is queued or negotiated.       *)
Accounted(h, n, i) ==
  /\ Wants(h, i) <=> (Queued(h, i) \/ n = 1)
  /\ ~(Queued(h, i) /\ n = 1)
  /\ n \in {0, 1}
  /\ QueuedOnce(h, i)

(* A listener that hears every event still queued believes i to be open.   *)
Hears(h, believes, i) ==
  LET q == h.pending_events
  IN  \/ believes /\ \A l \in DOMAIN q : q[l] # Event("Close", i)
      \/ \E k \in DOMAIN q :
           /\ q[k] = Event("HandshakeCompleted", i)
           /\ \A l \in DOMAIN q : l > k => q[l] # Event("Close", i)

(* A substream that reads messages has really flushed our handshake.       *)
HandshakeSent(s) == s.state \in {"Done", "NeedsClose", "FullyClosed"} => s.flushed

Ascending(s) == \A k, l \in DOMAIN s : k < l => s[k] < s[l]

(* One protocol by itself: pending_opening is never left set in Opening or *)
(* Open; the substream of OpenDesiredByRemote still waits for its          *)
(* handshake, which makes the error arm of that state in poll dead code;   *)
(* messages on the wire and in the channel are in order.                   *)
WellFormed(p) ==
  /\ p.state \in {"Opening", "Open"} => ~p.pending_opening
  /\ p.state = "OpenDesiredByRemote" => p.inbound_substream = NewInboundSubstream
  /\ HandshakeSent(p.inbound_substream)
  /\ Ascending(p.wire \o p.recv)

(* The invariant every callback preserves.                                 *)
Good(h, n, a) ==
  /\ h \in Handler /\ n \in [Protocols -> Nat] /\ a \in [Protocols -> BOOLEAN]
  /\ \A j \in Protocols :
       /\ WellFormed(h.protocols[j])
       /\ Accounted(h, n[j], j)
       /\ Hears(h, a[j], j) <=> h.protocols[j].state = "Open"
=============================================================================
