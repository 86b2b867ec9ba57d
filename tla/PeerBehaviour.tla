--------------------------- MODULE PeerBehaviour ---------------------------
(***************************************************************************)
(* PeerBehaviour (subp2p-explorer/src/peer_behavior.rs): ping and identify *)
(* of libp2p in one behaviour that keeps details about every peer.         *)
(*                                                                         *)
(* The two inner behaviours are queues of what their poll will return; the *)
(* events that `poll' treats alike have one name: Ignored is logged or     *)
(* skipped, Forwarded is returned to the swarm.  Of the Info of a peer the *)
(* three stored fields change together, so it is one value.                *)
(***************************************************************************)
EXTENDS Integers, Sequences, FiniteSets

CONSTANTS
  Connections,      \* connection ids
  RemoteOf,         \* the peer at the other end of each
  EndpointOf,       \* the ConnectedPoint, which two connections may share
  Infos, NoInfo,    \* what a peer tells of itself
  ExternalAddrs,    \* our own addresses as remotes see them
  MaxPing, MaxHeard \* bounds on the events of ping and of identify

Remotes   == {RemoteOf[c] : c \in Connections}
Endpoints == {EndpointOf[c] : c \in Connections}

(* `connections' is a Vec of which the order is never used: it is how      *)
(* often each endpoint is in it.                                           *)
NoDetails == [known |-> FALSE, connections |-> [e \in Endpoints |-> 0], info |-> NoInfo]

ASSUME PeerBehaviourAssumption ==
  /\ IsFiniteSet(Connections)
  /\ NoInfo \notin Infos
  /\ MaxPing \in Nat /\ MaxHeard \in Nat

VARIABLES
  conn,                   \* external: new, denied, up or closed
  details,                \* per peer: NodeDetails, or NoDetails
  external_addresses,
  ping, identify,         \* what the inner behaviours have queued
  heard, reported,        \* history: Infos received, Identified events
  pinged                  \* history: events of ping

historyVars == <<heard, reported, pinged>>
peerVars == <<conn, details, external_addresses, ping, identify, historyVars>>

NodeDetails == [known : BOOLEAN, connections : [Endpoints -> Nat], info : Infos \cup {NoInfo}]

NodeDetailsNew(endpoint) ==
  [NoDetails EXCEPT !.known = TRUE, !.connections[endpoint] = 1]

PeerInit ==
  /\ conn = [c \in Connections |-> "new"]
  /\ details = [p \in Remotes |-> NoDetails]
  /\ external_addresses = {}
  /\ ping = << >> /\ identify = << >>
  /\ heard = << >> /\ reported = << >> /\ pinged = 0

-----------------------------------------------------------------------------
(* handle_established_inbound_connection and its outbound counterpart ask  *)
(* ping and then identify for a handler; either may refuse the connection, *)
(* of which on_swarm_event then never hears.                               *)
ConnectionDenied(c) ==
  /\ conn[c] = "new"
  /\ conn' = [conn EXCEPT ![c] = "denied"]
  /\ UNCHANGED <<details, external_addresses, ping, identify, historyVars>>

WithConnection(node, endpoint) ==
  IF node.known THEN [node EXCEPT !.connections[endpoint] = @ + 1]
  ELSE NodeDetailsNew(endpoint)

ConnectionEstablished(c) ==
  /\ conn[c] = "new"
  /\ conn' = [conn EXCEPT ![c] = "up"]
  /\ details' = [details EXCEPT ![RemoteOf[c]] = WithConnection(@, EndpointOf[c])]
  /\ UNCHANGED <<external_addresses, ping, identify, historyVars>>

(* Fault: the endpoint is dropped only when it is the last one.            *)
WithoutConnectionLast(node, endpoint) ==
  IF \E e \in Endpoints : e # endpoint /\ node.connections[e] > 0 THEN node
  ELSE [node EXCEPT !.connections[endpoint] = 0]

(* retain drops every equal endpoint.                                      *)
WithoutConnection(node, endpoint) == [node EXCEPT !.connections[endpoint] = 0]

ConnectionClosed(c) ==
  /\ conn[c] = "up"
  /\ conn' = [conn EXCEPT ![c] = "closed"]
  /\ details' = [details EXCEPT ![RemoteOf[c]] = WithoutConnection(@, EndpointOf[c])]
  /\ UNCHANGED <<external_addresses, ping, identify, historyVars>>

ExternalAddrConfirmed(x) ==
  /\ external_addresses' = external_addresses \cup {x}
  /\ UNCHANGED <<conn, details, ping, identify, historyVars>>

ExternalAddrExpired(x) ==
  /\ external_addresses' = external_addresses \ {x}
  /\ UNCHANGED <<conn, details, ping, identify, historyVars>>

-----------------------------------------------------------------------------
(* on_connection_handler_event hands a Left event to ping and a Right one  *)
(* to identify, which queue what follows from it.                          *)
PingEvents == {"Ignored", "Forwarded"}

(* `nr' is a history field: the number of the answer.                      *)
ReceivedEvent(p, info) ==
  [kind |-> "Received", peer |-> p, info |-> info, nr |-> Len(heard) + 1]

IgnoredEvent == [kind |-> "Ignored"]

IdentifyEvents ==
  [kind : {"Ignored", "Forwarded"}]
    \cup [kind : {"Received"}, peer : Remotes, info : Infos, nr : Nat]

HandlerLeft(c, event) ==
  /\ conn[c] = "up" /\ pinged < MaxPing
  /\ ping' = Append(ping, event)
  /\ pinged' = pinged + 1
  /\ UNCHANGED <<conn, details, external_addresses, identify, heard, reported>>

HandlerRightReceived(c, info) ==
  /\ conn[c] = "up" /\ Len(heard) < MaxHeard
  /\ identify' = Append(identify, ReceivedEvent(RemoteOf[c], info))
  /\ heard' = Append(heard, <<RemoteOf[c], info>>)
  /\ UNCHANGED <<conn, details, external_addresses, ping, reported, pinged>>

(* Errors, pushed and sent notices, requests to the swarm.                 *)
HandlerRightOther(c, kind) ==
  /\ conn[c] = "up" /\ Len(identify) < MaxHeard
  /\ identify' = Append(identify, [kind |-> kind])
  /\ UNCHANGED <<conn, details, external_addresses, ping, historyVars>>

-----------------------------------------------------------------------------
(* The loops of poll drop ignored events up to the first that is returned; *)
(* `i' is its place, one past the end when there is none.                  *)
FirstReturned(queue, i, ignored) ==
  /\ i <= Len(queue) => queue[i] # ignored
  /\ \A k \in 1 .. i - 1 : queue[k] = ignored

Behind(queue, i) == SubSeq(queue, i + 1, Len(queue))

WithInfo(node, info) == IF node.known THEN [node EXCEPT !.info = info] ELSE node

(* What is returned for an event of identify.                              *)
ReturnIdentify(event) ==
  IF event.kind = "Received"
  THEN /\ details' = [details EXCEPT ![event.peer] = WithInfo(@, event.info)]
       /\ reported' = Append(reported, <<event.peer, event.info>>)
  ELSE UNCHANGED <<details, reported>>

(* Fault: an event of ping ends the turn of identify too, whose event is   *)
(* lost.                                                                   *)
PollBoth ==
  /\ ping # << >> \/ identify # << >>
  /\ \E i \in 1 .. Len(ping) + 1, j \in 1 .. Len(identify) + 1 :
       /\ FirstReturned(ping, i, "Ignored") /\ FirstReturned(identify, j, IgnoredEvent)
       /\ ping' = Behind(ping, i) /\ identify' = Behind(identify, j)
       /\ IF i <= Len(ping) \/ j > Len(identify) THEN UNCHANGED <<details, reported>>
          ELSE ReturnIdentify(identify[j])
  /\ UNCHANGED <<conn, external_addresses, heard, pinged>>

(* Identify is polled only when ping has nothing to return.                *)
PollIdentify ==
  \E j \in 1 .. Len(identify) + 1 :
    /\ FirstReturned(identify, j, IgnoredEvent)
    /\ identify' = Behind(identify, j)
    /\ IF j > Len(identify) THEN UNCHANGED <<details, reported>>
       ELSE ReturnIdentify(identify[j])

Poll ==
  /\ ping # << >> \/ identify # << >>
  /\ \E i \in 1 .. Len(ping) + 1 :
       /\ FirstReturned(ping, i, "Ignored")
       /\ ping' = Behind(ping, i)
       /\ IF i <= Len(ping) THEN UNCHANGED <<identify, details, reported>> ELSE PollIdentify
  /\ UNCHANGED <<conn, external_addresses, heard, pinged>>

PeerNext ==
  \/ \E c \in Connections :
       \/ ConnectionDenied(c) \/ ConnectionEstablished(c) \/ ConnectionClosed(c)
       \/ \E event \in PingEvents : HandlerLeft(c, event)
       \/ \E info \in Infos : HandlerRightReceived(c, info)
       \/ \E kind \in {"Ignored", "Forwarded"} : HandlerRightOther(c, kind)
  \/ \E x \in ExternalAddrs : ExternalAddrConfirmed(x) \/ ExternalAddrExpired(x)
  \/ Poll

PeerSpec == PeerInit /\ [][PeerNext]_peerVars

-----------------------------------------------------------------------------
PeerTypeOK ==
  /\ conn \in [Connections -> {"new", "denied", "up", "closed"}]
  /\ details \in [Remotes -> NodeDetails]
  /\ external_addresses \subseteq ExternalAddrs
  /\ ping \in Seq(PingEvents) /\ identify \in Seq(IdentifyEvents)
  /\ heard \in Seq(Remotes \X Infos) /\ reported \in Seq(Remotes \X Infos)
  /\ pinged \in Nat

Up(p, endpoint) ==
  {c \in Connections : conn[c] = "up" /\ RemoteOf[c] = p /\ EndpointOf[c] = endpoint}

Listed(p, endpoint) == details[p].connections[endpoint]

(* The documentation of NodeDetails::connections, `Connected endpoints     *)
(* with this peer': an endpoint is listed if and only if a connection with *)
(* it is up.  The code breaks it: of two connections to one address, the   *)
(* close of the first takes the endpoint of the second off the list too.   *)
EndpointsListed ==
  \A p \in Remotes, e \in Endpoints : Listed(p, e) > 0 <=> Up(p, e) # {}

(* What does hold: an endpoint is never listed more often than connections *)
(* with it are up, in whatever order connections of a peer come and go.    *)
(* In particular no closed connection is listed.                           *)
ListedAreUp ==
  \A p \in Remotes, e \in Endpoints : Listed(p, e) <= Cardinality(Up(p, e))

(* Identify's answers are reported once each and in order, although polls  *)
(* skip what is between them and ping's events come first, and the details *)
(* of a peer hold what was reported of it last, also when its connections  *)
(* are gone or new ones came.                                              *)
Awaited == {k \in DOMAIN identify : identify[k].kind = "Received"}

LastReported(p, info) ==
  LET of == {i \in 1 .. Len(reported) : reported[i][1] = p}
  IN  IF of = {} THEN info = NoInfo
      ELSE \E i \in of : reported[i][2] = info /\ \A k \in of : k <= i

IdentifiedExact ==
  /\ Len(reported) <= Len(heard) /\ \A n \in 1 .. Len(reported) : reported[n] = heard[n]
  /\ {identify[k].nr : k \in Awaited} = Len(reported) + 1 .. Len(heard)
  /\ \A k, l \in Awaited : k < l => identify[k].nr < identify[l].nr
  /\ \A k \in Awaited : heard[identify[k].nr] = <<identify[k].peer, identify[k].info>>
  /\ \A p \in Remotes : LastReported(p, details[p].info)
=============================================================================
