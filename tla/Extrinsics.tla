----------------------------- MODULE Extrinsics -----------------------------
(***************************************************************************)
(* submit_extrinsics (cli/src/commands/extrinsics.rs): answer the          *)
(* notifications of peers with the extrinsic, through the senders that     *)
(* CustomProtocolOpen handed over.                                         *)
(*                                                                         *)
(* Of the notifications behaviour, which Notifications models, the command *)
(* sees sessions: one protocol open on one connection, with a channel to   *)
(* its handler.  It is told of openings and notifications, some time later *)
(* and in order for one connection only: every handler has a queue of      *)
(* events and a channel of its own, and the swarm takes from any of them.  *)
(* The command polls that swarm itself, and the behaviour holds at most    *)
(* the event just taken, so taking one and handling it are one step.  Of   *)
(* an end the command is never told (the arm for CustomProtocolClosed      *)
(* would only log, as do the other events).                                *)
(***************************************************************************)
EXTENDS Integers, Sequences, FiniteSets

CONSTANTS
  Conns, PeerOf,     \* connections, and the peer at the other end of each
  Indices,           \* protocol indices
  TransactionsIndex, \* TRANSACTIONS_INDEX
  CloseAfter,        \* the initial close_after
  ChannelSize,       \* the buffer of a session's channel
  MaxSessions,       \* bound on the sessions ever opened
  MaxToldEvents      \* bound on the events of a connection under way to the command

NotifiedPeers == {PeerOf[c] : c \in Conns}

(* The loop can never fill a channel.                                      *)
ASSUME ExtrinsicsAssumption ==
  /\ TransactionsIndex \in Indices
  /\ CloseAfter \in Nat /\ ChannelSize \in Nat /\ CloseAfter <= ChannelSize
  /\ MaxSessions \in Nat /\ MaxToldEvents \in Nat

VARIABLES
  connected,         \* the connections that have not ended
  sessions,          \* every session so far, in the order of opening
  told_events,       \* per connection: events the command has not taken
  protocol_senders,  \* the session whose sender is kept; 0: none
  close_after,
  submitting,        \* the loop runs
  notified, refused  \* history: notifications taken, sessions that refused a payload

submitVars == <<protocol_senders, close_after, submitting, notified, refused>>
extrinsicsVars == <<connected, sessions, told_events, submitVars>>

Session == [conn : Conns, index : Indices, live : BOOLEAN, queued : Nat]

SessionIds == 1 .. Len(sessions)
KeyOf(s)   == <<PeerOf[sessions[s].conn], sessions[s].index>>
Keys       == NotifiedPeers \X Indices

ExtrinsicsInit ==
  /\ connected = Conns
  /\ sessions = << >>
  /\ told_events = [c \in Conns |-> << >>]
  /\ protocol_senders = [k \in Keys |-> 0]
  /\ close_after = CloseAfter
  /\ submitting = TRUE
  /\ notified = 0 /\ refused = {}

-----------------------------------------------------------------------------
(* The handlers and the behaviour.                                         *)
OpenEvent(s) == [event |-> "CustomProtocolOpen", session |-> s]
NotificationEvent(s) == [event |-> "Notification", session |-> s]

Tell(c, e) ==
  /\ Len(told_events[c]) < MaxToldEvents
  /\ told_events' = [told_events EXCEPT ![c] = Append(@, e)]

(* The command has taken the opening, or it was lost with its connection.  *)
Announced(s) ==
  \A c \in Conns : \A k \in 1 .. Len(told_events[c]) : told_events[c][k] # OpenEvent(s)

(* The handler of c gets its outbound substream of protocol i.             *)
SessionOpens(c, i) ==
  /\ c \in connected /\ Len(sessions) < MaxSessions
  /\ ~\E s \in SessionIds : sessions[s].conn = c /\ sessions[s].index = i /\ sessions[s].live
  /\ sessions' = Append(sessions, [conn |-> c, index |-> i, live |-> TRUE, queued |-> 0])
  /\ Tell(c, OpenEvent(Len(sessions) + 1))
  /\ UNCHANGED <<connected, submitVars>>

(* The handler closes the protocol and drops the receiver of the channel.  *)
(* It does so on the behaviour's answer to its own CloseDesired, which is  *)
(* behind the opening in its queue.                                        *)
SessionEnds(s) ==
  /\ sessions[s].live /\ Announced(s)
  /\ sessions' = [sessions EXCEPT ![s].live = FALSE]
  /\ UNCHANGED <<connected, told_events, submitVars>>

(* The connection ends: its handler is dropped, with the receivers and the *)
(* events it has not yet handed over.                                      *)
ConnectionEnds(c) ==
  /\ c \in connected
  /\ connected' = connected \ {c}
  /\ sessions' = [s \in SessionIds |-> [sessions[s] EXCEPT !.live = @ /\ sessions[s].conn # c]]
  /\ \E n \in 0 .. Len(told_events[c]) :
       told_events' = [told_events EXCEPT ![c] = SubSeq(@, 1, n)]
  /\ UNCHANGED submitVars

RemoteNotifies(s) ==
  /\ sessions[s].live
  /\ Tell(sessions[s].conn, NotificationEvent(s))
  /\ UNCHANGED <<connected, sessions, submitVars>>

-----------------------------------------------------------------------------
(* Fault: the first sender of a peer is kept.                              *)
KeptFirst(key, s) ==
  IF protocol_senders[key] = 0 THEN [protocol_senders EXCEPT ![key] = s] ELSE protocol_senders

Kept(key, s) == [protocol_senders EXCEPT ![key] = s]

TakeOpen(c) ==
  /\ submitting
  /\ told_events[c] # << >> /\ Head(told_events[c]).event = "CustomProtocolOpen"
  /\ LET s == Head(told_events[c]).session
     IN  protocol_senders' = Kept(KeyOf(s), s)
  /\ told_events' = [told_events EXCEPT ![c] = Tail(@)]
  /\ UNCHANGED <<connected, sessions, close_after, submitting, notified, refused>>

(* start_send, whose result is ignored: an ended session or a full channel *)
(* refuses the payload.                                                    *)
StartSend(s) ==
  IF sessions[s].live /\ sessions[s].queued < ChannelSize
  THEN /\ sessions' = [sessions EXCEPT ![s].queued = @ + 1]
       /\ UNCHANGED refused
  ELSE /\ refused' = refused \cup {s}
       /\ UNCHANGED sessions

(* Fault: nothing is counted down.                                         *)
CountedNever == close_after

Counted == close_after - 1

(* A notification of any protocol makes the command submit the extrinsic,  *)
(* if it has a sender of the peer for transactions.                        *)
TakeNotification(c) ==
  /\ submitting
  /\ told_events[c] # << >> /\ Head(told_events[c]).event = "Notification"
  /\ told_events' = [told_events EXCEPT ![c] = Tail(@)]
  /\ notified' = notified + 1
  /\ IF close_after = 0
     THEN /\ submitting' = FALSE
          /\ UNCHANGED <<sessions, close_after, refused>>
     ELSE /\ close_after' = Counted
          /\ LET s == protocol_senders[<<PeerOf[c], TransactionsIndex>>]
             IN  IF s = 0 THEN UNCHANGED <<sessions, refused>> ELSE StartSend(s)
          /\ UNCHANGED submitting
  /\ UNCHANGED <<connected, protocol_senders>>

ExtrinsicsNext ==
  \/ \E c \in Conns : \/ \E i \in Indices : SessionOpens(c, i)
                      \/ ConnectionEnds(c) \/ TakeOpen(c) \/ TakeNotification(c)
  \/ \E s \in SessionIds : SessionEnds(s) \/ RemoteNotifies(s)

ExtrinsicsSpec == ExtrinsicsInit /\ [][ExtrinsicsNext]_extrinsicsVars

-----------------------------------------------------------------------------
SubmitEvent == [event : {"CustomProtocolOpen", "Notification"}, session : SessionIds]

ExtrinsicsTypeOK ==
  /\ connected \subseteq Conns
  /\ sessions \in Seq(Session)
  /\ told_events \in [Conns -> Seq(SubmitEvent)]
  /\ protocol_senders \in [Keys -> 0 .. Len(sessions)]
  /\ close_after \in 0 .. CloseAfter
  /\ submitting \in BOOLEAN /\ notified \in Nat
  /\ refused \subseteq SessionIds

(* The loop leaves exactly at the notification after close_after ones, and *)
(* has by then put at most close_after payloads into channels, so none of  *)
(* them was refused for want of room: a refusal means an ended session.    *)
LoopBounded ==
  /\ notified = CloseAfter - close_after + (IF submitting THEN 0 ELSE 1)
  /\ ~submitting => close_after = 0
  /\ \A s \in SessionIds : sessions[s].queued <= CloseAfter - close_after
  /\ \A s \in refused : ~sessions[s].live

Current(t) ==
  \E s \in SessionIds :
    /\ protocol_senders[KeyOf(t)] = s /\ KeyOf(s) = KeyOf(t)
    /\ s = t \/ sessions[s].conn # sessions[t].conn

(* Senders are kept per peer, sessions exist per connection.  Once a live  *)
(* session is announced, the sender kept for its peer and protocol is its  *)
(* own, or that of another connection of the peer: never an earlier one of *)
(* its own connection.  So a peer with one connection is always sent to    *)
(* through its live session.  With two connections no more holds: whatever *)
(* opening was told last wins, live or ended.                              *)
SenderIsCurrent ==
  submitting => \A t \in SessionIds : sessions[t].live /\ Announced(t) => Current(t)
=============================================================================
