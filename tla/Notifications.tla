--------------------------- MODULE Notifications ----------------------------
(***************************************************************************)
(* The Notifications behaviour (notifications/behavior.rs) with one        *)
(* NotificationsHandler per connection, and the libp2p swarm between them. *)
(*                                                                         *)
(* Every connection is a task of its own.  Its handler hears the behaviour *)
(* through the FIFO `commands[c]' and answers through `toBehaviour[c]',    *)
(* whose capacity libp2p bounds; the end of the connection is reported     *)
(* behind the events already sent.  The swarm polls the behaviour before   *)
(* it takes the next connection event, and drops a message for a           *)
(* connection that is gone.                                                *)
(***************************************************************************)
EXTENDS HandlerTransitions

CONSTANTS
  Conns,        \* connection ids, each used once
  PeerOf,       \* the remote peer of each connection
  EventBuffer,  \* capacity of the channel from a connection to the swarm
  MaxPending,   \* bound on a handler's pending_events
  MaxInbound    \* bound on the substreams a remote opens per connection

ASSUME NotificationsAssumption ==
  /\ EventBuffer \in Nat \ {0}
  /\ MaxPending \in Nat \ {0}
  /\ MaxInbound \in Nat

Peers == {PeerOf[c] : c \in Conns}

VARIABLES
  connection,     \* None, Live, Lost (task ended, not yet reported), Closed
  handlers,       \* the NotificationsHandler of each connection
  requests,       \* outbound substream requests under negotiation
  announced,      \* history: the open protocols by the events polled so far
  commands,       \* NotifyHandler events on their way to the handler
  toBehaviour,    \* connection events on their way to the behaviour
  inbounds,       \* how many substreams the remote has opened
  events,         \* Notifications::events, not yet polled
  peers_details,  \* Notifications::peers_details
  app             \* what the application was told: <<c, i>> open, not closed since

handlerVars   == <<handlers, requests, announced>>
behaviourVars == <<events, peers_details>>
vars == <<connection, handlers, requests, announced, commands, toBehaviour, inbounds,
          events, peers_details, app>>

(* ToSwarm events of the behaviour.                                        *)
NotifyHandler(c, command, i) ==
  [kind |-> "NotifyHandler", conn |-> c, what |-> command, index |-> i]
GenerateEvent(c, what, i) ==
  [kind |-> "GenerateEvent", conn |-> c, what |-> what, index |-> i]

ToSwarm ==
  [kind : {"NotifyHandler"}, conn : Conns, what : {"Open", "Close"}, index : Protocols]
    \cup [kind : {"GenerateEvent"}, conn : Conns, index : Protocols,
          what : {"CustomProtocolOpen", "CustomProtocolClosed", "Notification"}]

Command == [what : {"Open", "Close"}, index : Protocols]

(* The report that a connection ended, in the same channel as its events.  *)
ConnectionEnd == [type |-> "ConnectionEnd", index |-> 0]

TypeOK ==
  /\ connection \in [Conns -> {"None", "Live", "Lost", "Closed"}]
  /\ handlers \in [Conns -> Handler]
  /\ requests \in [Conns -> [Protocols -> Nat]]
  /\ announced \in [Conns -> [Protocols -> BOOLEAN]]
  /\ commands \in [Conns -> Seq(Command)]
  /\ toBehaviour \in [Conns -> Seq(HandlerEvent \cup {ConnectionEnd})]
  /\ inbounds \in [Conns -> 0 .. MaxInbound]
  /\ events \in Seq(ToSwarm)
  /\ peers_details \in [Peers -> SUBSET Conns]
  /\ app \subseteq Conns \X Protocols

Init ==
  /\ connection = [c \in Conns |-> "None"]
  /\ handlers = [c \in Conns |-> NewHandler]
  /\ requests = [c \in Conns |-> [i \in Protocols |-> 0]]
  /\ announced = [c \in Conns |-> [i \in Protocols |-> FALSE]]
  /\ commands = [c \in Conns |-> << >>]
  /\ toBehaviour = [c \in Conns |-> << >>]
  /\ inbounds = [c \in Conns |-> 0]
  /\ events = << >>
  /\ peers_details = [p \in Peers |-> {}]
  /\ app = {}

-----------------------------------------------------------------------------
(* The behaviour.                                                          *)

(* Fault: indices counted from one.                                        *)
NotifyAllOffByOne(c, command) == [k \in 1 .. NumProtocols |-> NotifyHandler(c, command, k)]

(* NotifyHandler for every protocol, in index order.                       *)
NotifyAll(c, command) == [k \in 1 .. NumProtocols |-> NotifyHandler(c, command, k - 1)]

(* on_swarm_event(ConnectionEstablished)                                   *)
ConnectionEstablished(c) ==
  /\ connection[c] = "None"
  /\ connection' = [connection EXCEPT ![c] = "Live"]
  /\ peers_details' = [peers_details EXCEPT ![PeerOf[c]] = @ \cup {c}]
  /\ events' = events \o NotifyAll(c, "Open")
  /\ UNCHANGED <<handlerVars, commands, toBehaviour, inbounds, app>>

(* on_swarm_event(ConnectionClosed)                                        *)
ConnectionClosed(c) ==
  /\ connection' = [connection EXCEPT ![c] = "Closed"]
  /\ peers_details' = [peers_details EXCEPT ![PeerOf[c]] = @ \ {c}]
  /\ events' = events \o NotifyAll(c, "Close")

(* Faults: CloseDesired, or OpenDesiredByRemote, is only logged.           *)
ReactionKeepsBroken(c, e) ==
  CASE e.type = "HandshakeCompleted"  -> <<GenerateEvent(c, "CustomProtocolOpen", e.index)>>
    [] e.type = "OpenDesiredByRemote" -> <<NotifyHandler(c, "Open", e.index)>>
    [] e.type = "Notification"        -> <<GenerateEvent(c, "Notification", e.index)>>
    [] OTHER                          -> << >>

ReactionIgnoresRemote(c, e) ==
  CASE e.type = "HandshakeCompleted"  -> <<GenerateEvent(c, "CustomProtocolOpen", e.index)>>
    [] e.type = "CloseDesired"        -> <<NotifyHandler(c, "Close", e.index)>>
    [] e.type = "Notification"        -> <<GenerateEvent(c, "Notification", e.index)>>
    [] OTHER                          -> << >>

(* on_connection_handler_event: what the behaviour makes of an event.      *)
Reaction(c, e) ==
  CASE e.type = "HandshakeCompleted"  -> <<GenerateEvent(c, "CustomProtocolOpen", e.index)>>
    [] e.type = "OpenDesiredByRemote" -> <<NotifyHandler(c, "Open", e.index)>>
    [] e.type = "CloseDesired"        -> <<NotifyHandler(c, "Close", e.index)>>
    [] e.type = "Notification"        -> <<GenerateEvent(c, "Notification", e.index)>>
    [] OTHER                          -> << >>

OnHandlerEvent(c, e) ==
  /\ events' = events \o Reaction(c, e)
  /\ UNCHANGED <<connection, peers_details>>

(* The swarm takes the next event of a connection once the behaviour has   *)
(* nothing left to poll.                                                   *)
PoolEvent(c) ==
  /\ events = << >>
  /\ toBehaviour[c] # << >>
  /\ toBehaviour' = [toBehaviour EXCEPT ![c] = Tail(@)]
  /\ LET e == Head(toBehaviour[c])
     IN  IF e = ConnectionEnd THEN ConnectionClosed(c) ELSE OnHandlerEvent(c, e)
  /\ UNCHANGED <<handlerVars, commands, inbounds, app>>

(* poll: the oldest event leaves; the swarm routes it.                     *)
Told(e) ==
  CASE e.what = "CustomProtocolOpen"   -> app \cup {<<e.conn, e.index>>}
    [] e.what = "CustomProtocolClosed" -> app \ {<<e.conn, e.index>>}
    [] OTHER                           -> app

BehaviourPoll ==
  /\ events # << >>
  /\ events' = Tail(events)
  /\ LET e == Head(events)
     IN  IF e.kind = "NotifyHandler"
         THEN /\ commands' =
                   IF connection[e.conn] = "Live"
                   THEN [commands EXCEPT ![e.conn] =
                           Append(@, [what |-> e.what, index |-> e.index])]
                   ELSE commands
              /\ UNCHANGED app
         ELSE app' = Told(e) /\ UNCHANGED commands
  /\ UNCHANGED <<connection, handlerVars, toBehaviour, inbounds, peers_details>>

-----------------------------------------------------------------------------
(* The task of a live connection.                                          *)
Room(c) == Len(handlers[c].pending_events) < MaxPending

(* Fault: a command is applied to the protocol after its own as well.      *)
CommandDeliveredTwice(c) ==
  /\ connection[c] = "Live" /\ Room(c)
  /\ commands[c] # << >>
  /\ commands' = [commands EXCEPT ![c] = Tail(@)]
  /\ LET m == Head(commands[c])
         On(h, i) == IF m.what = "Open" THEN OnOpen(h, i) ELSE OnClose(h, i)
     IN  handlers' = [handlers EXCEPT
                        ![c] = On(On(@, m.index), (m.index + 1) % NumProtocols)]
  /\ UNCHANGED <<connection, requests, announced, toBehaviour, inbounds, behaviourVars, app>>

(* on_behaviour_event                                                      *)
CommandDelivered(c) ==
  /\ connection[c] = "Live" /\ Room(c)
  /\ commands[c] # << >>
  /\ commands' = [commands EXCEPT ![c] = Tail(@)]
  /\ LET m == Head(commands[c])
     IN  handlers' = [handlers EXCEPT ![c] = IF m.what = "Open" THEN OnOpen(@, m.index)
                                                                ELSE OnClose(@, m.index)]
  /\ UNCHANGED <<connection, requests, announced, toBehaviour, inbounds, behaviourVars, app>>

(* on_connection_event                                                     *)
InboundNegotiated(c, i) ==
  /\ connection[c] = "Live" /\ Room(c)
  /\ inbounds[c] < MaxInbound
  /\ inbounds' = [inbounds EXCEPT ![c] = @ + 1]
  /\ handlers' = [handlers EXCEPT ![c] = FullyNegotiatedInbound(@, i)]
  /\ UNCHANGED <<connection, requests, announced, commands, toBehaviour, behaviourVars, app>>

Answered(c, i, h) ==
  /\ connection[c] = "Live"
  /\ requests[c][i] > 0
  /\ requests' = [requests EXCEPT ![c][i] = @ - 1]
  /\ handlers' = [handlers EXCEPT ![c] = h]
  /\ UNCHANGED <<connection, announced, commands, toBehaviour, inbounds, behaviourVars, app>>

OutboundNegotiated(c, i) == Answered(c, i, FullyNegotiatedOutbound(handlers[c], i))
OutboundFailed(c, i)     == Answered(c, i, DialUpgradeError(handlers[c], i))

(* poll: the task takes the event, and sends it on unless it is a request. *)
Sent(c, e) ==
  IF e \in {Nothing} \/ e.type = "OutboundSubstreamRequest"
  THEN toBehaviour[c] ELSE Append(toBehaviour[c], e)

HandlerPoll(c) ==
  /\ connection[c] = "Live"
  /\ Len(toBehaviour[c]) < EventBuffer
  /\ \E r \in poll(handlers[c]) :
       /\ handlers' = [handlers EXCEPT ![c] = r.handler]
       /\ toBehaviour' = [toBehaviour EXCEPT ![c] = Sent(c, r.event)]
       /\ requests' = [requests EXCEPT ![c] = Received(r.event, @)]
       /\ announced' = [announced EXCEPT ![c] = Heard(r.event, @)]
  /\ UNCHANGED <<connection, commands, inbounds, behaviourVars, app>>

(* The connection fails or is closed; its handler, with whatever it still  *)
(* had queued, is dropped (it takes no further step), and so are commands. *)
ConnectionLost(c) ==
  /\ connection[c] = "Live"
  /\ connection' = [connection EXCEPT ![c] = "Lost"]
  /\ toBehaviour' = [toBehaviour EXCEPT ![c] = Append(@, ConnectionEnd)]
  /\ commands' = [commands EXCEPT ![c] = << >>]
  /\ UNCHANGED <<handlerVars, inbounds, behaviourVars, app>>

Next ==
  \/ BehaviourPoll
  \/ \E c \in Conns :
       \/ ConnectionEstablished(c) \/ PoolEvent(c)
       \/ CommandDelivered(c) \/ HandlerPoll(c) \/ ConnectionLost(c)
       \/ \E i \in Protocols :
            InboundNegotiated(c, i) \/ OutboundNegotiated(c, i) \/ OutboundFailed(c, i)

Spec == Init /\ [][Next]_vars

(* The swarm and the connection tasks run whenever they can, negotiations  *)
(* time out.  The pool serves its connections in turn, hence the strong    *)
(* fairness of PoolEvent: between two events of one connection the others  *)
(* get theirs.  Nothing is assumed of the remote or of the sockets.        *)
Drain(c) == handlers[c].pending_events # << >> /\ HandlerPoll(c)

Fairness ==
  /\ WF_vars(BehaviourPoll)
  /\ \A c \in Conns :
       /\ SF_vars(PoolEvent(c)) /\ WF_vars(CommandDelivered(c)) /\ WF_vars(Drain(c))
       /\ \A i \in Protocols : WF_vars(OutboundNegotiated(c, i) \/ OutboundFailed(c, i))

FairSpec == Spec /\ Fairness

-----------------------------------------------------------------------------
Live(c) == connection[c] = "Live"
ProtoOf(c, i) == handlers[c].protocols[i]

(* The behaviour's Open or Close for (c, i) is under way: as the handler's *)
(* event that will cause it, as a ToSwarm event or as a command.           *)
OnItsWay(c, i, command, cause) ==
  \/ In(Event(cause, i), handlers[c].pending_events)
  \/ In(Event(cause, i), toBehaviour[c])
  \/ In(NotifyHandler(c, command, i), events)
  \/ In([what |-> command, index |-> i], commands[c])

Broken(c, i) == ProtoOf(c, i).state = "Open" /\ ~ProtoOf(c, i).outbound_substream

(* A Close reaches a handler only to end the session whose outbound        *)
(* substream broke, and such a session always has its Close under way: no  *)
(* Close is lost, none arrives late and tears down a newer session or      *)
(* interrupts a handshake.                                                 *)
CloseEndsBrokenSession ==
  \A c \in Conns, i \in Protocols :
    Live(c) => (Broken(c, i) <=> OnItsWay(c, i, "Close", "CloseDesired"))

(* A remote that asks to open a protocol is answered: while the handler    *)
(* waits in OpenDesiredByRemote, the behaviour's Open is under way.        *)
RemoteOpenIsAnswered ==
  \A c \in Conns, i \in Protocols :
    Live(c) /\ ProtoOf(c, i).state = "OpenDesiredByRemote"
      => OnItsWay(c, i, "Open", "OpenDesiredByRemote")

(* The application hears CustomProtocolOpen before any Notification of the *)
(* protocol, although the two come from different places of poll.          *)
OpenBeforeNotification ==
  \A k \in DOMAIN events :
    events[k].what = "Notification" =>
      \/ <<events[k].conn, events[k].index>> \in app
      \/ \E j \in DOMAIN events :
           j < k /\ events[j] = GenerateEvent(events[k].conn, "CustomProtocolOpen",
                                              events[k].index)

(* The inductive invariant.  Every handler is good by itself, and the two  *)
(* events that poll returns around the queue are never in it.  A           *)
(* connection that is not there yet has left no trace, a live one has not  *)
(* reported its end.  At most one Close is under way, so that the one that *)
(* arrives is the last.  Where an open protocol was announced can be told  *)
(* at each stage on the way to the application.                            *)
Unqueued(h) ==
  \A i \in Protocols, type \in {"CloseDesired", "Notification"} :
    ~In(Event(type, i), h.pending_events)

Untouched(c) ==
  /\ handlers[c] = NewHandler
  /\ commands[c] = << >> /\ toBehaviour[c] = << >>
  /\ \A k \in DOMAIN events : events[k].conn # c

OneClose(c, i) ==
  LET desired == Event("CloseDesired", i)
      asked   == NotifyHandler(c, "Close", i)
      command == [what |-> "Close", index |-> i]
  IN  /\ Once(desired, toBehaviour[c]) /\ Once(asked, events) /\ Once(command, commands[c])
      /\ ~(In(desired, toBehaviour[c]) /\ In(asked, events))
      /\ ~(In(desired, toBehaviour[c]) /\ In(command, commands[c]))
      /\ ~(In(asked, events) /\ In(command, commands[c]))

ConnectionsInv ==
  \A c \in Conns :
    /\ Good(handlers[c], requests[c], announced[c])
    /\ Unqueued(handlers[c])
    /\ connection[c] = "None" => Untouched(c)
    /\ Live(c) => ~In(ConnectionEnd, toBehaviour[c])

CloseInv ==
  CloseEndsBrokenSession /\ \A c \in Conns, i \in Protocols : Live(c) => OneClose(c, i)

OpenTold(c, i) == GenerateEvent(c, "CustomProtocolOpen", i)

Announced(c, i) == <<c, i>> \in app \/ In(OpenTold(c, i), events)

AnnouncedInv ==
  /\ \A c \in Conns, i \in Protocols :
       /\ <<c, i>> \in app \/ Led(GenerateEvent(c, "Notification", i), OpenTold(c, i), events)
       /\ Announced(c, i) \/ Led(Event("Notification", i), Event("HandshakeCompleted", i),
                                 toBehaviour[c])
       /\ ProtoOf(c, i).state = "Open" =>
            \/ Announced(c, i)
            \/ In(Event("HandshakeCompleted", i), toBehaviour[c])
            \/ In(Event("HandshakeCompleted", i), handlers[c].pending_events)
  /\ \A k \in DOMAIN events : events[k].what # "CustomProtocolClosed"

IInv ==
  TypeOK /\ ConnectionsInv /\ CloseInv /\ RemoteOpenIsAnswered /\ AnnouncedInv

(* Every handler is used as NotificationsHandler.tla allows, so what is    *)
(* shown there of one handler under any behaviour holds of each of these.  *)
H(c) == INSTANCE NotificationsHandler WITH
          handler <- handlers[c], requests <- requests[c], announced <- announced[c]

HandlersConform ==
  /\ \A c \in Conns : H(c)!Init
  /\ [][\A c \in Conns : [H(c)!Next]_(H(c)!vars)]_vars

(* Nothing in between is forever: a protocol that the remote asked for,    *)
(* that is opening or whose session broke ends up closed or properly open, *)
(* or its connection goes away.                                            *)
Settled(c, i) ==
  \/ ~Live(c)
  \/ ProtoOf(c, i).state = "Closed"
  \/ ProtoOf(c, i).state = "Open" /\ ProtoOf(c, i).outbound_substream

ProtocolsSettle == \A c \in Conns, i \in Protocols : ~Settled(c, i) ~> Settled(c, i)

(* The documented contract of CustomProtocolClosed (behavior.rs): when a   *)
(* protocol the application was told about has closed, it is told that     *)
(* what it captured (the sender) is stale.                                 *)
ClosedIsReported ==
  \A c \in Conns, i \in Protocols :
    (<<c, i>> \in app /\ (~Live(c) \/ ProtoOf(c, i).state = "Closed"))
      ~> <<c, i>> \notin app
=============================================================================
