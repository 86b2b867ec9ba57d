------------------------ MODULE NotificationsHandler ------------------------
(***************************************************************************)
(* One NotificationsHandler, the per-connection half of the notifications  *)
(* behaviour, driven by any behaviour, any remote and libp2p.              *)
(*                                                                         *)
(* libp2p serialises the callbacks of a handler: a step is one call of     *)
(* on_connection_event, on_behaviour_event or poll.  libp2p answers every  *)
(* OutboundSubstreamRequest exactly once, with FullyNegotiatedOutbound or  *)
(* DialUpgradeError; `requests' counts the unanswered ones.                *)
(***************************************************************************)
EXTENDS HandlerTransitions

CONSTANT
  MaxPending   \* bound on pending_events: past it the environment only polls

ASSUME MaxPendingAssumption == MaxPending \in Nat

VARIABLES
  handler,     \* the NotificationsHandler
  requests,    \* requests[i]: outbound substream requests libp2p works on
  announced    \* history: announced[i] is what a listener of the handler's
               \* events believes, open after HandshakeCompleted, not after Close

vars == <<handler, requests, announced>>

proto(i) == handler.protocols[i]
pending  == handler.pending_events

TypeOK ==
  /\ handler \in Handler
  /\ requests \in [Protocols -> Nat]
  /\ announced \in [Protocols -> BOOLEAN]

Init ==
  /\ handler = NewHandler
  /\ requests = [i \in Protocols |-> 0]
  /\ announced = [i \in Protocols |-> FALSE]

-----------------------------------------------------------------------------
Room == Len(pending) < MaxPending

(* The behaviour sends Open or Close whenever it likes.                    *)
BehaviourOpen(i) ==
  /\ Room
  /\ handler' = OnOpen(handler, i)
  /\ UNCHANGED <<requests, announced>>

BehaviourClose(i) ==
  /\ Room
  /\ handler' = OnClose(handler, i)
  /\ UNCHANGED <<requests, announced>>

(* The remote opens a substream.                                           *)
InboundNegotiated(i) ==
  /\ Room
  /\ handler' = FullyNegotiatedInbound(handler, i)
  /\ UNCHANGED <<requests, announced>>

(* libp2p answers an outstanding request.                                  *)
Answered(i) == requests' = [requests EXCEPT ![i] = @ - 1]

OutboundNegotiated(i) ==
  /\ requests[i] > 0
  /\ Answered(i)
  /\ handler' = FullyNegotiatedOutbound(handler, i)
  /\ UNCHANGED announced

(* Fault: a failure is reported without a request.                         *)
OutboundFailedUnsolicited(i) ==
  /\ Answered(i)
  /\ handler' = DialUpgradeError(handler, i)
  /\ UNCHANGED announced

OutboundFailed(i) ==
  /\ requests[i] > 0
  /\ Answered(i)
  /\ handler' = DialUpgradeError(handler, i)
  /\ UNCHANGED announced

(* The holder of the announced sender submits a message, numbered above    *)
(* the ones it has submitted before.                                       *)
UserSends(i) ==
  /\ proto(i).state = "Open" /\ announced[i]
  /\ \E m \in Messages :
       /\ \A k \in DOMAIN proto(i).recv : proto(i).recv[k] < m
       /\ \A k \in DOMAIN proto(i).wire : proto(i).wire[k] < m
       /\ handler' = WithProtocol(handler, i, [proto(i) EXCEPT !.recv = Append(@, m)])
  /\ UNCHANGED <<requests, announced>>

(* libp2p polls the handler and takes the event it returns.                *)
Poll ==
  \E r \in poll(handler) :
    /\ handler' = r.handler
    /\ requests' = Received(r.event, requests)
    /\ announced' = Heard(r.event, announced)

Next ==
  \/ \E i \in Protocols :
       \/ BehaviourOpen(i) \/ BehaviourClose(i) \/ InboundNegotiated(i)
       \/ OutboundNegotiated(i) \/ OutboundFailed(i) \/ UserSends(i)
  \/ Poll

Spec == Init /\ [][Next]_vars

(* The connection task polls the handler after every callback until it     *)
(* returns Pending, so queued events are taken; libp2p bounds every        *)
(* negotiation by a timeout.  Nothing is assumed of the sockets.           *)
Drain == pending # << >> /\ Poll

Fairness ==
  /\ WF_vars(Drain)
  /\ \A i \in Protocols : WF_vars(OutboundNegotiated(i) \/ OutboundFailed(i))

FairSpec == Spec /\ Fairness

-----------------------------------------------------------------------------
(* The bookkeeping of `pending_opening' is exact: a protocol waits for an  *)
(* answer iff exactly one request of its own is queued or being negotiated.*)
(* Never a second substream for one opening, never an opening without a    *)
(* substream on its way.                                                   *)
OneRequestPerOpening == \A i \in Protocols : Accounted(handler, requests[i], i)

(* The `missmatch-state' arms of FullyNegotiatedOutbound and               *)
(* DialUpgradeError are dead: no answer can arrive for an Open protocol,   *)
(* so no negotiated substream is thrown away under a live session.         *)
NoAnswerWhenOpen == \A i \in Protocols : requests[i] > 0 => proto(i).state # "Open"

(* A listener that hears every event still queued believes exactly what    *)
(* is: HandshakeCompleted and Close reach the behaviour in the order of    *)
(* the transitions they report, although poll returns some events around   *)
(* the queue.                                                              *)
AnnouncementsFollowState ==
  \A i \in Protocols : Hears(handler, announced[i], i) <=> proto(i).state = "Open"

(* `No message will come before this has been done' (handshake.rs): a      *)
(* substream that reads messages has really flushed our handshake, even    *)
(* though the error paths of the poll functions leave Done in the state.   *)
NoMessageBeforeHandshake == \A i \in Protocols : HandshakeSent(proto(i).inbound_substream)

(* The messages of the user reach the substream in order and at most once. *)
OrderedDelivery == \A i \in Protocols : Ascending(proto(i).wire \o proto(i).recv)

(* Every request is eventually answered and its protocol stops waiting:    *)
(* no opening hangs, whatever Opens and Closes come in between.            *)
RequestsResolve == \A i \in Protocols : Wants(handler, i) ~> ~Wants(handler, i)

(* The inductive invariant behind the safety properties.                   *)
IInv ==
  /\ TypeOK
  /\ \A i \in Protocols : WellFormed(proto(i))
  /\ OneRequestPerOpening
  /\ AnnouncementsFollowState
=============================================================================
