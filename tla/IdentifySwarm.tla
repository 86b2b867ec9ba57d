--------------------------- MODULE IdentifySwarm ---------------------------
(***************************************************************************)
(* A swarm that runs nothing but libp2p's identify behaviour and does not  *)
(* listen, as the commands verify-bootnodes and dial-peer build it.        *)
(*                                                                         *)
(* Every dial ends in a connection or in an error.  A remote that is       *)
(* connected answers identify, and may answer again: it may push updates,  *)
(* and each connection of one peer is identified by itself.  A dial to an  *)
(* address with a peer id connects to that peer only.                      *)
(***************************************************************************)
EXTENDS Integers, FiniteSets

CONSTANTS
  Dials,       \* the addresses given on the command line, in a list
  MaxAnswers   \* bound on the identify answers of one connection

ASSUME SwarmAssumption == IsFiniteSet(Dials) /\ MaxAnswers \in Nat

VARIABLES
  link,     \* per dial: idle, dialing, up or down
  answers   \* per dial: how often the remote answered

swarmVars == <<link, answers>>

SwarmInit ==
  /\ link = [d \in Dials |-> "idle"]
  /\ answers = [d \in Dials |-> 0]

(* swarm.dial accepted every address.                                      *)
DialEach ==
  /\ link' = [d \in Dials |-> "dialing"]
  /\ UNCHANGED answers

Established(d) ==
  /\ link[d] = "dialing"
  /\ link' = [link EXCEPT ![d] = "up"]
  /\ UNCHANGED answers

(* OutgoingConnectionError, or the connection is closed.                   *)
Broken(d) ==
  /\ link[d] \in {"dialing", "up"}
  /\ link' = [link EXCEPT ![d] = "down"]
  /\ UNCHANGED answers

(* identify::Event::Received for the connection of dial d.                 *)
Answered(d) ==
  /\ link[d] = "up" /\ answers[d] < MaxAnswers
  /\ answers' = [answers EXCEPT ![d] = @ + 1]
  /\ UNCHANGED link

SwarmTypeOK ==
  /\ link \in [Dials -> {"idle", "dialing", "up", "down"}]
  /\ answers \in [Dials -> 0 .. MaxAnswers]
=============================================================================
