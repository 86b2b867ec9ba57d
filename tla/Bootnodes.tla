----------------------------- MODULE Bootnodes -----------------------------
(***************************************************************************)
(* verify_bootnodes (cli/src/commands/bootnodes.rs): dial every bootnode   *)
(* and call those valid that answer identify, with a protocol of the given *)
(* genesis if there is one.                                                *)
(*                                                                         *)
(* An Info is what is_peer_valid sees of it: whether some protocol         *)
(* contains the genesis hash.  Dialing has no await, so it is one step.    *)
(***************************************************************************)
EXTENDS IdentifySwarm

CONSTANTS BootnodeOf  \* the peer id in the address of each dial

BootnodePeers == {BootnodeOf[d] : d \in Dials}

VARIABLES
  verifying,               \* new, waiting, done
  genesis_given,           \* the option was given
  pending_peer_responses,
  identify_data,           \* None, or whether the last Info names the genesis
  refused_dial, timed_out  \* history: why the waiting was cut short

bootnodeVars == <<swarmVars, verifying, genesis_given, pending_peer_responses,
                  identify_data, refused_dial, timed_out>>

BootnodesInit ==
  /\ SwarmInit
  /\ verifying = "new"
  /\ genesis_given \in BOOLEAN
  /\ pending_peer_responses = BootnodePeers
  /\ identify_data = [p \in BootnodePeers |-> "None"]
  /\ refused_dial = FALSE /\ timed_out = FALSE

-----------------------------------------------------------------------------
(* The loop is left when nobody is pending, and not entered when nobody is *)
(* to be asked.                                                            *)
Waiting(pending) == IF pending = {} THEN "done" ELSE "waiting"

DialBootnodes ==
  /\ verifying = "new"
  /\ DialEach
  /\ verifying' = Waiting(pending_peer_responses)
  /\ UNCHANGED <<genesis_given, pending_peer_responses, identify_data, refused_dial, timed_out>>

(* swarm.dial refuses an address: the `?' drops the swarm and with it the  *)
(* dials that were accepted.                                               *)
DialRefused ==
  /\ verifying = "new" /\ Dials # {}
  /\ verifying' = "done" /\ refused_dial' = TRUE
  /\ UNCHANGED <<swarmVars, genesis_given, pending_peer_responses, identify_data, timed_out>>

Stored(p, info) == [identify_data EXCEPT ![p] = info]

Received(d, info) ==
  /\ verifying = "waiting"
  /\ Answered(d)
  /\ identify_data' = Stored(BootnodeOf[d], info)
  /\ pending_peer_responses' = pending_peer_responses \ {BootnodeOf[d]}
  /\ verifying' = Waiting(pending_peer_responses')
  /\ UNCHANGED <<genesis_given, refused_dial, timed_out>>

(* Fault: a connection counts as an answer.                                *)
OtherEventAnswers(d) ==
  /\ verifying = "waiting"
  /\ Established(d) \/ Broken(d)
  /\ pending_peer_responses' = pending_peer_responses \ {BootnodeOf[d]}
  /\ verifying' = Waiting(pending_peer_responses')
  /\ UNCHANGED <<genesis_given, identify_data, refused_dial, timed_out>>

(* The other events are printed or skipped.                                *)
OtherEvent(d) ==
  /\ verifying = "waiting"
  /\ Established(d) \/ Broken(d)
  /\ UNCHANGED <<verifying, genesis_given, pending_peer_responses, identify_data,
                 refused_dial, timed_out>>

(* The timeout of 25 seconds drops the future, with answers under way.     *)
VerifyTimeout ==
  /\ verifying = "waiting"
  /\ verifying' = "done" /\ timed_out' = TRUE
  /\ UNCHANGED <<swarmVars, genesis_given, pending_peer_responses, identify_data, refused_dial>>

BootnodesNext ==
  \/ DialBootnodes \/ DialRefused \/ VerifyTimeout
  \/ \E d \in Dials : OtherEvent(d) \/ \E info \in {"genesis", "foreign"} : Received(d, info)

BootnodesSpec == BootnodesInit /\ [][BootnodesNext]_bootnodeVars

is_peer_valid(p) ==
  /\ identify_data[p] # "None"
  /\ genesis_given => identify_data[p] = "genesis"

ValidBootnodes == {p \in BootnodePeers : is_peer_valid(p)}

-----------------------------------------------------------------------------
BootnodesTypeOK ==
  /\ SwarmTypeOK
  /\ verifying \in {"new", "waiting", "done"}
  /\ genesis_given \in BOOLEAN /\ refused_dial \in BOOLEAN /\ timed_out \in BOOLEAN
  /\ pending_peer_responses \subseteq BootnodePeers
  /\ identify_data \in [BootnodePeers -> {"None", "genesis", "foreign"}]

(* `guaranteed to contain entries for all bootnodes.keys(), or a subset of *)
(* those ... after the query timeout': an entry exists for exactly the     *)
(* bootnodes that are not pending, each of which answered on one of its    *)
(* connections; somebody is pending at the end only after the timeout or a *)
(* refused dial; and a bootnode is then reported as invalid only if it     *)
(* gave no answer or named another genesis last.                           *)
VerdictsJustified ==
  /\ \A p \in BootnodePeers :
       /\ identify_data[p] = "None" <=> p \in pending_peer_responses
       /\ identify_data[p] # "None" =>
            \E d \in Dials : BootnodeOf[d] = p /\ answers[d] > 0
  /\ verifying = "done" /\ pending_peer_responses # {} => refused_dial \/ timed_out
  /\ verifying = "done" /\ ~refused_dial /\ ~timed_out /\ ~genesis_given =>
       ValidBootnodes = BootnodePeers
  /\ refused_dial => ValidBootnodes = {}
=============================================================================
