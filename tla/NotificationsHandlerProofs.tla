--------------------- MODULE NotificationsHandlerProofs ---------------------
(***************************************************************************)
(* Proofs about NotificationsHandler for any number of protocols, any      *)
(* messages and any queue bound.                                           *)
(***************************************************************************)
EXTENDS NotificationsHandler, HandlerLemmas

(* IInv in terms of Good, the predicate the callbacks are shown to         *)
(* preserve.                                                               *)
LEMMA InvariantIsGood == IInv <=> Good(handler, requests, announced)
  BY DEF IInv, TypeOK, OneRequestPerOpening, AnnouncementsFollowState, Good, proto

(* A new handler satisfies the invariant.                                  *)
LEMMA InitGood == Init => IInv
  BY InvariantIsGood, NewHandlerGood DEF Init

(* Every callback and every poll preserves the invariant.                  *)
LEMMA NextGood == IInv /\ [Next]_vars => IInv'
  <1> SUFFICES ASSUME IInv, [Next]_vars PROVE IInv'
    OBVIOUS
  <1>1. Good(handler, requests, announced)
    BY InvariantIsGood
  <1>2. Good(handler, requests, announced)' => IInv'
    BY DEF IInv, TypeOK, OneRequestPerOpening, AnnouncementsFollowState, Good, proto
  <1>3. ASSUME NEW i \in Protocols, BehaviourOpen(i) PROVE Good(handler, requests, announced)'
    BY <1>1, <1>3, OnOpenGood DEF BehaviourOpen
  <1>4. ASSUME NEW i \in Protocols, BehaviourClose(i) PROVE Good(handler, requests, announced)'
    BY <1>1, <1>4, OnCloseGood DEF BehaviourClose
  <1>5. ASSUME NEW i \in Protocols, InboundNegotiated(i) PROVE Good(handler, requests, announced)'
    BY <1>1, <1>5, InboundGood DEF InboundNegotiated
  <1>6. ASSUME NEW i \in Protocols, OutboundNegotiated(i) PROVE Good(handler, requests, announced)'
    BY <1>1, <1>6, AnswerGood DEF OutboundNegotiated, Answered
  <1>7. ASSUME NEW i \in Protocols, OutboundFailed(i) PROVE Good(handler, requests, announced)'
    BY <1>1, <1>7, AnswerGood DEF OutboundFailed, Answered
  <1>8. ASSUME NEW i \in Protocols, UserSends(i) PROVE Good(handler, requests, announced)'
    BY <1>1, <1>8, SendGood DEF UserSends, proto
  <1>9. ASSUME Poll PROVE Good(handler, requests, announced)'
    BY <1>1, <1>9, PollGood DEF Poll
  <1>10. ASSUME UNCHANGED vars PROVE Good(handler, requests, announced)'
    BY <1>1, <1>10 DEF vars
  <1> QED BY <1>2, <1>3, <1>4, <1>5, <1>6, <1>7, <1>8, <1>9, <1>10 DEF Next

(* The inductive invariant holds of every behaviour of the handler.        *)
THEOREM InductiveInvariant == Spec => []IInv
  BY InitGood, NextGood, PTL DEF Spec

(* Type correctness: no callback of the handler leaves its state space.    *)
THEOREM TypeCorrect == Spec => []TypeOK
  <1>1. IInv => TypeOK
    BY DEF IInv
  <1> QED BY <1>1, InductiveInvariant, PTL

(* The pending_opening bookkeeping of the handler is exact for every       *)
(* number of protocols and every order of callbacks.                       *)
THEOREM RequestsAccounted == Spec => []OneRequestPerOpening
  <1>1. IInv => OneRequestPerOpening
    BY DEF IInv
  <1> QED BY <1>1, InductiveInvariant, PTL

(* No answer of libp2p ever finds its protocol Open.                       *)
THEOREM OpenHasNoRequest == Spec => []NoAnswerWhenOpen
  <1>1. IInv => NoAnswerWhenOpen
    BY DEF IInv, TypeOK, WellFormed, OneRequestPerOpening, Accounted, Wants, proto,
           NoAnswerWhenOpen
  <1> QED BY <1>1, InductiveInvariant, PTL

(* The event stream of the handler is a faithful log of its sessions.      *)
THEOREM AnnouncementsFaithful == Spec => []AnnouncementsFollowState
  <1>1. IInv => AnnouncementsFollowState
    BY DEF IInv
  <1> QED BY <1>1, InductiveInvariant, PTL

(* No message is read from a substream whose handshake was not sent.       *)
THEOREM HandshakeComesFirst == Spec => []NoMessageBeforeHandshake
  <1>1. IInv => NoMessageBeforeHandshake
    BY DEF IInv, WellFormed, NoMessageBeforeHandshake
  <1> QED BY <1>1, InductiveInvariant, PTL

(* The user's messages are put on the wire in the order of submission, and *)
(* none twice, however poll takes them out of the channel.                 *)
THEOREM MessagesInOrder == Spec => []OrderedDelivery
  <1>1. IInv => OrderedDelivery
    BY DEF IInv, WellFormed, OrderedDelivery
  <1> QED BY <1>1, InductiveInvariant, PTL
=============================================================================
