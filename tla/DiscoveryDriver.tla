--------------------------- MODULE DiscoveryDriver ---------------------------
(***************************************************************************)
(* discovery of bench-cli (discovery_backends.rs), the user of both        *)
(* backends, as functions of its state.  Between two events it is a list   *)
(* of calls: `adds' addresses to make known, then find_node until `goal'   *)
(* queries are tracked, then backend.next().                               *)
(*                                                                         *)
(* peers_data only decides when to stop, so any event may be the one after *)
(* which the driver stops.                                                 *)
(***************************************************************************)
EXTENDS Naturals, FiniteSets

CONSTANTS
  BootnodeAddresses,   \* addresses made known at the start
  FirstQueries,        \* 10
  Slots                \* 50

ASSUME DriverAssumption ==
  /\ BootnodeAddresses \in Nat
  /\ FirstQueries \in 1 .. Slots
  /\ Slots \in Nat

Driver == [pc : {"call", "answer", "next", "done"}, adds : Nat,
           goal : {FirstQueries, Slots}, stop : BOOLEAN, queries : SUBSET Nat]

(* The call that comes next.                                               *)
Wants(d) ==
  CASE d.adds > 0 -> "AddKnownAddress"
    [] d.adds = 0 /\ d.stop -> "done"
    [] d.adds = 0 /\ ~d.stop /\ Cardinality(d.queries) < d.goal -> "FindNode"
    [] OTHER -> "next"

Settled(d) ==
  [d EXCEPT !.pc = IF Wants(d) \in {"done", "next"} THEN Wants(d) ELSE "call"]

NewDriver ==
  Settled([pc |-> "call", adds |-> BootnodeAddresses, goal |-> FirstQueries,
           stop |-> FALSE, queries |-> {}])

(* Fault: the same address is made known again and again.                  *)
AddressSentAgain(d) == d

AddressSent(d) == Settled([d EXCEPT !.adds = @ - 1])

QueryStarted(d, id) == Settled([d EXCEPT !.queries = @ \cup {id}])

(* NetworkEvent::PeerIdentified with n addresses.                          *)
PeerIdentified(d, n, stop) ==
  Settled([d EXCEPT !.adds = n, !.goal = Slots, !.stop = stop])

(* Fault: a finished query keeps its entry.                                *)
FindNodeKept(d, id, n, stop) == PeerIdentified(d, n, stop)

(* NetworkEvent::FindNode with n addresses.                                *)
FindNode(d, id, n, stop) ==
  PeerIdentified([d EXCEPT !.queries = @ \ {id}], n, stop)
=============================================================================
