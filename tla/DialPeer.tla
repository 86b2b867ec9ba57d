------------------------------ MODULE DialPeer ------------------------------
(***************************************************************************)
(* dial_peer (cli/src/commands/dial_peer.rs): dial the given addresses and *)
(* print what identify tells, until as many answers as addresses have come *)
(* or the time is over.                                                    *)
(***************************************************************************)
EXTENDS IdentifySwarm

VARIABLES
  dialing,   \* new, waiting, failed, answered (left by break), timeout
  received   \* the counter of answers

dialPeerVars == <<swarmVars, dialing, received>>

num_addresses == Cardinality(Dials)

DialPeerInit ==
  /\ SwarmInit
  /\ dialing = "new" /\ received = 0

(* Every address is parsed and dialed in turn; the first error returns.    *)
DialAddresses ==
  /\ dialing = "new"
  /\ DialEach
  /\ dialing' = "waiting"
  /\ UNCHANGED received

DialAddressesFail ==
  /\ dialing = "new" /\ Dials # {}
  /\ dialing' = "failed"
  /\ UNCHANGED <<swarmVars, received>>

(* Fault: the loop waits for one answer more.                              *)
EnoughAfter(n) == n > num_addresses

Enough(n) == n >= num_addresses

PrintIdentify(d) ==
  /\ dialing = "waiting"
  /\ Answered(d)
  /\ received' = received + 1
  /\ dialing' = IF Enough(received') THEN "answered" ELSE "waiting"

(* Connection errors are printed, the other events skipped.                *)
PrintOther(d) ==
  /\ dialing = "waiting"
  /\ Established(d) \/ Broken(d)
  /\ UNCHANGED <<dialing, received>>

DialTimeout ==
  /\ dialing = "waiting"
  /\ dialing' = "timeout"
  /\ UNCHANGED <<swarmVars, received>>

DialPeerNext ==
  \/ DialAddresses \/ DialAddressesFail \/ DialTimeout
  \/ \E d \in Dials : PrintIdentify(d) \/ PrintOther(d)

DialPeerSpec == DialPeerInit /\ [][DialPeerNext]_dialPeerVars

-----------------------------------------------------------------------------
DialPeerTypeOK ==
  /\ SwarmTypeOK
  /\ dialing \in {"new", "waiting", "failed", "answered", "timeout"}
  /\ received \in Nat

(* received counts answers, not addresses.  The command never waits on     *)
(* when every address has answered, and when it leaves early, or prints    *)
(* that `received' addresses answered, that is so unless some address has  *)
(* answered more than once.                                                *)
Answering == {d \in Dials : answers[d] > 0}
Repeated  == \E d \in Dials : answers[d] > 1

AnswersCounted ==
  dialing # "new" =>
    /\ dialing = "waiting" => Answering # Dials \/ Dials = {}
    /\ Cardinality(Answering) <= received
    /\ ~Repeated => received = Cardinality(Answering)
    /\ dialing = "answered" => Answering = Dials \/ Repeated
=============================================================================
