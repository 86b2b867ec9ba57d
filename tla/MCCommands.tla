----------------------------- MODULE MCCommands -----------------------------
(***************************************************************************)
(* The small parts side by side: a behaviour is one of submit-extrinsic,   *)
(* verify-bootnodes, dial-peer, the identity lookup of authority-check or  *)
(* the behaviour that keeps peer details, and the state of the others      *)
(* stays as it was initially.                                              *)
(***************************************************************************)
EXTENDS Extrinsics, Bootnodes, DialPeer, IdentityNames, PeerBehaviour, TLC

CONSTANTS c1, c2, c3, c4, x1, x2, p1, p2, a1, a2, s1, s2, nobody

VARIABLE command

commandVars ==
  <<command, extrinsicsVars, bootnodeVars, dialing, received, chain, identity, peerVars>>

(* Three connections of p1, two of them dialed to the same address, and    *)
(* one of p2; submit-extrinsic has the first two.                          *)
PeerOfConn     == (c1 :> p1) @@ (c2 :> p1) @@ (c3 :> p1) @@ (c4 :> p2)
EndpointOfConn == (c1 :> x1) @@ (c2 :> x1) @@ (c3 :> x2) @@ (c4 :> x2)

(* Two addresses of p1 and one of p2.                                      *)
BootnodeOfDial == <<p1, p1, p2>>

AuthorityList == <<a1, a2>>

Registered(layout, additional, rest, display, legal) ==
  [layout |-> layout, additional |-> additional, rest |-> rest, display |-> display,
   legal |-> legal]

(* The last four legacy ones: read as a string with the fewest bytes it    *)
(* needs, with one too few, read as a hash, and with the shortest tag.     *)
Registrations ==
  {nobody, Registered("simple", 0, 0, "name", "legal"), Registered("simple", 0, 0, nobody, nobody),
   Registered("simple", 0, 0, nobody, "legal"), Registered("legacy", 0, 40, "name", nobody),
   Registered("legacy", 8, 31, "name", nobody), Registered("legacy", 8, 30, "name", nobody),
   Registered("legacy", 9, 40, "name", nobody), Registered("legacy", 1, 10, "name", nobody)}

AllChains ==
  [KeyOwner   : [{a1, a2} -> {s1, s2, nobody}],
   IdentityOf : [{s1, s2} -> Registrations],
   SuperOf    : [{s1, s2} -> {s2, nobody}]]

EmptyChain ==
  [KeyOwner |-> [a \in {a1, a2} |-> nobody], IdentityOf |-> [s \in {s1, s2} |-> nobody],
   SuperOf |-> [s \in {s1, s2} |-> nobody]]

CommandInit ==
  /\ command \in {"extrinsics", "bootnodes", "dial", "identity", "peer"}
  /\ ExtrinsicsInit /\ BootnodesInit /\ DialPeerInit /\ IdentityInit /\ PeerInit
  /\ command # "identity" => chain = EmptyChain
  /\ command # "bootnodes" => ~genesis_given

CommandNext ==
  /\ UNCHANGED command
  /\ \/ /\ command = "extrinsics"
        /\ ExtrinsicsNext
        /\ UNCHANGED <<bootnodeVars, dialing, received, chain, identity, peerVars>>
     \/ /\ command = "bootnodes"
        /\ BootnodesNext
        /\ UNCHANGED <<extrinsicsVars, dialing, received, chain, identity, peerVars>>
     \/ /\ command = "dial"
        /\ DialPeerNext
        /\ UNCHANGED <<extrinsicsVars, verifying, genesis_given, pending_peer_responses,
                       identify_data, refused_dial, timed_out, chain, identity, peerVars>>
     \/ /\ command = "identity"
        /\ IdentityNext
        /\ UNCHANGED <<extrinsicsVars, bootnodeVars, dialing, received, peerVars>>
     \/ /\ command = "peer"
        /\ PeerNext
        /\ UNCHANGED <<extrinsicsVars, bootnodeVars, dialing, received, chain, identity>>

CommandSpec == CommandInit /\ [][CommandNext]_commandVars
=============================================================================
