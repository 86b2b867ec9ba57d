--------------------------- MODULE CommandsProofs ---------------------------
(***************************************************************************)
(* Proofs about verify-bootnodes, dial-peer, submit-extrinsic,             *)
(* discover-network, the identity lookup of the authority commands and the *)
(* PeerBehaviour below them, for any connections, peers, addresses,        *)
(* storage and bounds.                                                     *)
(***************************************************************************)
EXTENDS Extrinsics, Bootnodes, DialPeer, Crawler, IdentityNames, PeerBehaviour,
        FiniteSetTheorems, TLAPS

LEMMA SwarmInitTyped == SwarmInit => SwarmTypeOK
  <1>1. 0 \in 0 .. MaxAnswers
    BY SwarmAssumption
  <1> QED BY <1>1 DEF SwarmInit, SwarmTypeOK

-----------------------------------------------------------------------------
(* verify-bootnodes.  VerdictsJustified needs the types, that nobody has   *)
(* been asked or cut short in the beginning, that the loop runs only while *)
(* somebody is pending, and that a refused dial ends everything.           *)
BootnodesInv ==
  /\ BootnodesTypeOK
  /\ VerdictsJustified
  /\ verifying = "waiting" => pending_peer_responses # {}
  /\ verifying # "done" => ~refused_dial /\ ~timed_out
  /\ verifying = "new" => pending_peer_responses = BootnodePeers
  /\ refused_dial => pending_peer_responses = BootnodePeers

LEMMA BootnodesInitGood == BootnodesInit => BootnodesInv
  <1> SUFFICES ASSUME BootnodesInit PROVE BootnodesInv
    OBVIOUS
  <1>1. BootnodesTypeOK
    BY SwarmInitTyped DEF BootnodesInit, BootnodesTypeOK
  <1>2. VerdictsJustified
    BY DEF BootnodesInit, VerdictsJustified
  <1> QED BY <1>1, <1>2 DEF BootnodesInv, BootnodesInit

(* What the steps have in common.                                          *)
LEMMA BootnodesStep ==
  ASSUME BootnodesInv,
         BootnodesTypeOK',
         \A p \in BootnodePeers :
           /\ identify_data'[p] = "None" <=> p \in pending_peer_responses'
           /\ identify_data'[p] # "None" =>
                \E d \in Dials : BootnodeOf[d] = p /\ answers'[d] > 0,
         verifying' = "waiting" => pending_peer_responses' # {},
         verifying' = "new" => pending_peer_responses' = BootnodePeers,
         verifying' = "done" /\ pending_peer_responses' # {} => refused_dial' \/ timed_out',
         verifying' # "done" => ~refused_dial' /\ ~timed_out',
         refused_dial' => pending_peer_responses' = BootnodePeers
  PROVE  BootnodesInv'
  <1>1. refused_dial' => ValidBootnodes' = {}
    BY DEF ValidBootnodes, is_peer_valid
  <1>2. verifying' = "done" /\ ~refused_dial' /\ ~timed_out' /\ ~genesis_given' =>
          ValidBootnodes' = BootnodePeers
    BY DEF ValidBootnodes, is_peer_valid
  <1>3. VerdictsJustified'
    BY <1>1, <1>2 DEF VerdictsJustified
  <1> QED BY <1>3 DEF BootnodesInv

LEMMA BootnodesNextGood == BootnodesInv /\ [BootnodesNext]_bootnodeVars => BootnodesInv'
  <1> SUFFICES ASSUME BootnodesInv, [BootnodesNext]_bootnodeVars PROVE BootnodesInv'
    OBVIOUS
  <1> USE DEF BootnodesInv, BootnodesTypeOK, SwarmTypeOK, Waiting
  <1>1. CASE DialBootnodes
    BY <1>1, BootnodesStep DEF DialBootnodes, DialEach, VerdictsJustified
  <1>2. CASE DialRefused
    BY <1>2, BootnodesStep DEF DialRefused, swarmVars, VerdictsJustified
  <1>3. CASE VerifyTimeout
    BY <1>3, BootnodesStep DEF VerifyTimeout, swarmVars, VerdictsJustified
  <1>4. ASSUME NEW d \in Dials, OtherEvent(d) PROVE BootnodesInv'
    <2>1. link' \in [Dials -> {"idle", "dialing", "up", "down"}] /\ answers' = answers
      BY <1>4 DEF OtherEvent, Established, Broken
    <2> QED BY <1>4, <2>1, BootnodesStep DEF OtherEvent, VerdictsJustified
  <1>5. ASSUME NEW d \in Dials, NEW info \in {"genesis", "foreign"}, Received(d, info)
        PROVE  BootnodesInv'
    <2> DEFINE q == BootnodeOf[d]
    <2>1. q \in BootnodePeers
      BY DEF BootnodePeers
    <2>2. /\ answers' = [answers EXCEPT ![d] = @ + 1] /\ link' = link
          /\ answers[d] \in 0 .. MaxAnswers /\ answers[d] < MaxAnswers
      BY <1>5 DEF Received, Answered
    <2>3. answers' \in [Dials -> 0 .. MaxAnswers] /\ answers'[d] > 0
            /\ \A e \in Dials : answers[e] > 0 => answers'[e] > 0
      BY <2>2, SwarmAssumption
    <2>4. identify_data' = [identify_data EXCEPT ![q] = info]
      BY <1>5 DEF Received, Stored
    <2>5. pending_peer_responses' = pending_peer_responses \ {q}
      BY <1>5 DEF Received
    <2>6. BootnodesTypeOK'
      BY <1>5, <2>1, <2>2, <2>3, <2>4, <2>5 DEF Received
    <2>7. \A p \in BootnodePeers :
            /\ identify_data'[p] = "None" <=> p \in pending_peer_responses'
            /\ identify_data'[p] # "None" =>
                 \E e \in Dials : BootnodeOf[e] = p /\ answers'[e] > 0
      BY <2>1, <2>3, <2>4, <2>5 DEF VerdictsJustified
    <2> QED BY <1>5, <2>5, <2>6, <2>7, BootnodesStep DEF Received
  <1>6. CASE UNCHANGED bootnodeVars
    BY <1>6, BootnodesStep DEF bootnodeVars, swarmVars, VerdictsJustified
  <1> QED BY <1>1, <1>2, <1>3, <1>4, <1>5, <1>6 DEF BootnodesNext

(* Every verdict of verify-bootnodes has its reason: an entry of           *)
(* identify_data is an answer, and a bootnode is left without one only by  *)
(* the timeout or by the early return of a refused dial.                   *)
THEOREM BootnodeVerdicts == BootnodesSpec => []VerdictsJustified
  <1>1. BootnodesInv => VerdictsJustified
    BY DEF BootnodesInv
  <1> QED BY <1>1, BootnodesInitGood, BootnodesNextGood, PTL DEF BootnodesSpec

-----------------------------------------------------------------------------
(* dial-peer.  received equals the number of answering addresses until one *)
(* of them answers twice, and stays at least that number for ever; while   *)
(* the loop waits it is below the number of addresses.                     *)
DialPeerInv ==
  /\ DialPeerTypeOK
  /\ Cardinality(Answering) <= received
  /\ ~Repeated => received = Cardinality(Answering)
  /\ dialing = "waiting" => received < num_addresses \/ Dials = {}
  /\ dialing = "answered" => received >= num_addresses
  /\ dialing = "new" => \A d \in Dials : answers[d] = 0

LEMMA AnsweringFinite ==
  /\ IsFiniteSet(Answering)
  /\ Cardinality(Answering) \in Nat
  /\ Cardinality(Answering) <= num_addresses
  /\ Cardinality(Answering) = num_addresses <=> Answering = Dials
  /\ num_addresses \in Nat
  BY SwarmAssumption, FS_Subset, FS_CardinalityType DEF Answering, num_addresses

(* An answer adds at most one address, and exactly one unless it repeats.  *)
LEMMA AnswerCounts ==
  ASSUME NEW d \in Dials, SwarmTypeOK, Answered(d)
  PROVE  /\ SwarmTypeOK'
         /\ Repeated => Repeated'
         /\ d \in Answering => Answering' = Answering /\ Repeated'
         /\ d \notin Answering => Cardinality(Answering') = Cardinality(Answering) + 1
  <1>1. answers' = [answers EXCEPT ![d] = @ + 1] /\ link' = link
          /\ answers[d] \in 0 .. MaxAnswers /\ answers[d] < MaxAnswers
    BY DEF Answered, SwarmTypeOK
  <1>2. answers'[d] = answers[d] + 1 /\ \A e \in Dials : e # d => answers'[e] = answers[e]
    BY <1>1 DEF SwarmTypeOK
  <1>3. SwarmTypeOK'
    BY <1>1, SwarmAssumption DEF SwarmTypeOK
  <1>4. \A e \in Dials : answers[e] \in Nat
    BY SwarmAssumption DEF SwarmTypeOK
  <1>5. Repeated => Repeated'
    BY <1>2, <1>4 DEF Repeated
  <1>6. Answering' = Answering \cup {d}
    BY <1>2, <1>4 DEF Answering
  <1>7. d \in Answering => Answering' = Answering /\ Repeated'
    BY <1>2, <1>4, <1>6 DEF Answering, Repeated
  <1>8. d \notin Answering => Cardinality(Answering') = Cardinality(Answering) + 1
    BY <1>6, AnsweringFinite, FS_AddElement
  <1> QED BY <1>3, <1>5, <1>7, <1>8

LEMMA DialPeerInitGood == DialPeerInit => DialPeerInv
  <1> SUFFICES ASSUME DialPeerInit PROVE DialPeerInv
    OBVIOUS
  <1>1. DialPeerTypeOK
    BY SwarmInitTyped DEF DialPeerInit, DialPeerTypeOK
  <1>2. \A d \in Dials : answers[d] = 0
    BY DEF DialPeerInit, SwarmInit
  <1>3. Cardinality(Answering) = 0
    BY <1>2, FS_EmptySet DEF Answering
  <1> QED BY <1>1, <1>2, <1>3 DEF DialPeerInv, DialPeerInit

LEMMA DialPeerNextGood == DialPeerInv /\ [DialPeerNext]_dialPeerVars => DialPeerInv'
  <1> SUFFICES ASSUME DialPeerInv, [DialPeerNext]_dialPeerVars PROVE DialPeerInv'
    OBVIOUS
  <1> USE DEF DialPeerInv, DialPeerTypeOK
  <1>0. answers' = answers => Answering' = Answering /\ (Repeated' <=> Repeated)
    BY DEF Answering, Repeated
  <1>1. CASE DialAddresses
    <2>1. /\ dialing = "new" /\ dialing' = "waiting" /\ answers' = answers
          /\ received' = received /\ SwarmTypeOK'
      BY <1>1 DEF DialAddresses, DialEach, SwarmTypeOK
    <2>2. \A d \in Dials : ~(answers[d] > 1) /\ ~(answers[d] > 0)
      BY <2>1
    <2>3. Answering = {} /\ ~Repeated
      BY <2>2 DEF Answering, Repeated
    <2>4. received = 0
      BY <2>3, FS_EmptySet
    <2>5. 0 < num_addresses \/ Dials = {}
      BY SwarmAssumption, FS_EmptySet, FS_CardinalityType DEF num_addresses
    <2> QED BY <1>0, <2>1, <2>4, <2>5 DEF num_addresses
  <1>2. CASE DialAddressesFail
    BY <1>0, <1>2 DEF DialAddressesFail, swarmVars, SwarmTypeOK
  <1>3. CASE DialTimeout
    BY <1>0, <1>3 DEF DialTimeout, swarmVars, SwarmTypeOK
  <1>4. ASSUME NEW d \in Dials, PrintOther(d) PROVE DialPeerInv'
    <2>1. answers' = answers /\ SwarmTypeOK'
      BY <1>4 DEF PrintOther, Established, Broken, SwarmTypeOK
    <2> QED BY <1>0, <1>4, <2>1 DEF PrintOther, num_addresses
  <1>5. ASSUME NEW d \in Dials, PrintIdentify(d) PROVE DialPeerInv'
    <2>1. /\ SwarmTypeOK'
          /\ Repeated => Repeated'
          /\ d \in Answering => Answering' = Answering /\ Repeated'
          /\ d \notin Answering => Cardinality(Answering') = Cardinality(Answering) + 1
      BY <1>5, AnswerCounts DEF PrintIdentify
    <2>2. /\ received' = received + 1 /\ received \in Nat
          /\ dialing' = IF received' >= num_addresses THEN "answered" ELSE "waiting"
      BY <1>5 DEF PrintIdentify, Enough
    <2>3. num_addresses' = num_addresses
      BY DEF num_addresses
    <2> QED BY <2>1, <2>2, <2>3, AnsweringFinite
  <1>6. CASE UNCHANGED dialPeerVars
    BY <1>0, <1>6 DEF dialPeerVars, swarmVars, SwarmTypeOK, num_addresses
  <1> QED BY <1>1, <1>2, <1>3, <1>4, <1>5, <1>6 DEF DialPeerNext

(* dial-peer never waits on when every address has answered, and leaves    *)
(* early only when all have, or one has answered more than once.           *)
THEOREM DialPeerCounts == DialPeerSpec => []AnswersCounted
  <1>1. DialPeerInv => AnswersCounted
    <2> SUFFICES ASSUME DialPeerInv PROVE AnswersCounted
      OBVIOUS
    <2>1. dialing = "waiting" => Answering # Dials \/ Dials = {}
      BY AnsweringFinite DEF DialPeerInv, DialPeerTypeOK
    <2>2. dialing = "answered" => Answering = Dials \/ Repeated
      BY AnsweringFinite DEF DialPeerInv, DialPeerTypeOK
    <2> QED BY <2>1, <2>2 DEF DialPeerInv, AnswersCounted
  <1> QED BY <1>1, DialPeerInitGood, DialPeerNextGood, PTL DEF DialPeerSpec

-----------------------------------------------------------------------------
(* submit-extrinsic.  The events of one connection are a queue: what       *)
(* adding, taking and losing events does to it.                            *)
OpensIn(q, s) == \E k \in 1 .. Len(q) : q[k] = OpenEvent(s)

Ascending(q) ==
  \A j, k \in 1 .. Len(q) : \A s, t \in Nat :
    j < k /\ q[j] = OpenEvent(s) /\ q[k] = OpenEvent(t) => s < t

LEMMA EventsDiffer ==
  /\ \A s, t : OpenEvent(s) = OpenEvent(t) <=> s = t
  /\ \A s, t : NotificationEvent(s) # OpenEvent(t)
  <1>1. \A s, t : OpenEvent(s) = OpenEvent(t) => s = t
    <2> SUFFICES ASSUME NEW s, NEW t, OpenEvent(s) = OpenEvent(t) PROVE s = t
      OBVIOUS
    <2>1. OpenEvent(s).session = OpenEvent(t).session
      OBVIOUS
    <2> QED BY <2>1 DEF OpenEvent
  <1>2. \A s, t : NotificationEvent(s) # OpenEvent(t)
    <2> SUFFICES ASSUME NEW s, NEW t, NotificationEvent(s) = OpenEvent(t) PROVE FALSE
      OBVIOUS
    <2>1. NotificationEvent(s).event = OpenEvent(t).event
      OBVIOUS
    <2> QED BY <2>1 DEF OpenEvent, NotificationEvent
  <1> QED BY <1>1, <1>2

LEMMA QueueAppend ==
  ASSUME NEW S, NEW q \in Seq(S), NEW e
  PROVE  /\ \A s : OpensIn(Append(q, e), s) <=> OpensIn(q, s) \/ e = OpenEvent(s)
         /\ Ascending(q) /\ (\A s, t \in Nat : OpensIn(q, s) /\ e = OpenEvent(t) => s < t)
              => Ascending(Append(q, e))
  <1>1. PICK n \in Nat : n = Len(q)
    OBVIOUS
  <1>2. PICK r : r = Append(q, e)
    OBVIOUS
  <1>3. Len(r) = n + 1 /\ r[n + 1] = e /\ \A k \in 1 .. n : r[k] = q[k]
    BY <1>1, <1>2
  <1>4. \A k \in 1 .. n + 1 : k \in 1 .. n \/ k = n + 1
    BY <1>1
  <1>5. \A s : OpensIn(r, s) <=> OpensIn(q, s) \/ e = OpenEvent(s)
    <2>1. ASSUME NEW s, OpensIn(r, s) PROVE OpensIn(q, s) \/ e = OpenEvent(s)
      BY <1>1, <1>3, <1>4, <2>1 DEF OpensIn
    <2>2. ASSUME NEW s, OpensIn(q, s) PROVE OpensIn(r, s)
      <3>1. PICK k \in 1 .. n : q[k] = OpenEvent(s)
        BY <1>1, <2>2 DEF OpensIn
      <3>2. k \in 1 .. n + 1 /\ r[k] = OpenEvent(s)
        BY <1>3, <3>1
      <3> QED BY <1>3, <3>2 DEF OpensIn
    <2>3. ASSUME NEW s, e = OpenEvent(s) PROVE OpensIn(r, s)
      <3>1. n + 1 \in 1 .. n + 1
        BY <1>1
      <3> QED BY <1>3, <2>3, <3>1 DEF OpensIn
    <2> QED BY <2>1, <2>2, <2>3
  <1>6. ASSUME Ascending(q), \A s, t \in Nat : OpensIn(q, s) /\ e = OpenEvent(t) => s < t
        PROVE  Ascending(r)
    <2> SUFFICES ASSUME NEW j \in 1 .. n + 1, NEW k \in 1 .. n + 1, NEW s \in Nat, NEW t \in Nat,
                        j < k, r[j] = OpenEvent(s), r[k] = OpenEvent(t)
                 PROVE  s < t
      BY <1>3 DEF Ascending
    <2>1. j \in 1 .. n /\ q[j] = OpenEvent(s)
      BY <1>1, <1>3
    <2>2. CASE k = n + 1
      BY <1>1, <1>3, <1>6, <2>1, <2>2 DEF OpensIn
    <2>3. CASE k \in 1 .. n
      BY <1>1, <1>3, <1>6, <2>1, <2>3 DEF Ascending
    <2> QED BY <1>4, <2>2, <2>3
  <1> QED BY <1>2, <1>5, <1>6

(* The head is taken: what is left opens later sessions.                   *)
LEMMA QueueTail ==
  ASSUME NEW S, NEW q \in Seq(S), q # << >>
  PROVE  /\ Tail(q) \in Seq(S) /\ Head(q) \in S
         /\ \A s : OpensIn(q, s) <=> OpensIn(Tail(q), s) \/ Head(q) = OpenEvent(s)
         /\ Ascending(q) =>
              /\ Ascending(Tail(q))
              /\ \A s, t \in Nat : Head(q) = OpenEvent(s) /\ OpensIn(Tail(q), t) => s < t
  <1>1. PICK n \in Nat : n = Len(q)
    OBVIOUS
  <1>2. PICK r : r = Tail(q)
    OBVIOUS
  <1>3. /\ n > 0 /\ r \in Seq(S) /\ Len(r) = n - 1 /\ Head(q) = q[1] /\ Head(q) \in S
        /\ \A k \in 1 .. n - 1 : r[k] = q[k + 1]
    BY <1>1, <1>2
  <1>4. \A k \in 1 .. n - 1 : k + 1 \in 1 .. n /\ 1 < k + 1
    BY <1>1
  <1>5. \A k \in 1 .. n : k = 1 \/ (k - 1 \in 1 .. n - 1 /\ r[k - 1] = q[k])
    BY <1>1, <1>3
  <1>6. ASSUME NEW s PROVE OpensIn(q, s) <=> OpensIn(r, s) \/ Head(q) = OpenEvent(s)
    <2>1. ASSUME OpensIn(q, s) PROVE OpensIn(r, s) \/ q[1] = OpenEvent(s)
      BY <1>1, <1>3, <1>5, <2>1 DEF OpensIn
    <2>2. ASSUME OpensIn(r, s) PROVE OpensIn(q, s)
      BY <1>1, <1>3, <1>4, <2>2 DEF OpensIn
    <2>3. 1 \in 1 .. n
      BY <1>3
    <2> QED BY <1>1, <1>3, <2>1, <2>2, <2>3 DEF OpensIn
  <1>7. ASSUME Ascending(q)
        PROVE  /\ Ascending(r)
               /\ \A s, t \in Nat : q[1] = OpenEvent(s) /\ OpensIn(r, t) => s < t
    <2>1. \A j, k \in 1 .. n : \A s, t \in Nat :
            j < k /\ q[j] = OpenEvent(s) /\ q[k] = OpenEvent(t) => s < t
      BY <1>1, <1>7 DEF Ascending
    <2>2. Ascending(r)
      <3> SUFFICES ASSUME NEW j \in 1 .. n - 1, NEW k \in 1 .. n - 1, NEW s \in Nat, NEW t \in Nat,
                          j < k, r[j] = OpenEvent(s), r[k] = OpenEvent(t)
                   PROVE  s < t
        BY <1>3 DEF Ascending
      <3>1. j + 1 \in 1 .. n /\ k + 1 \in 1 .. n /\ j + 1 < k + 1
        BY <1>1
      <3>2. q[j + 1] = OpenEvent(s) /\ q[k + 1] = OpenEvent(t)
        BY <1>3
      <3> QED BY <2>1, <3>1, <3>2
    <2>3. ASSUME NEW s \in Nat, NEW t \in Nat, q[1] = OpenEvent(s), OpensIn(r, t) PROVE s < t
      <3>1. PICK k \in 1 .. n - 1 : r[k] = OpenEvent(t)
        BY <1>3, <2>3 DEF OpensIn
      <3>2. 1 \in 1 .. n /\ k + 1 \in 1 .. n /\ 1 < k + 1 /\ q[k + 1] = OpenEvent(t)
        BY <1>3, <1>4, <3>1
      <3> QED BY <2>1, <2>3, <3>2
    <2> QED BY <2>2, <2>3
  <1> QED BY <1>2, <1>3, <1>6, <1>7

LEMMA QueuePrefix ==
  ASSUME NEW S, NEW q \in Seq(S), NEW n \in 0 .. Len(q)
  PROVE  /\ SubSeq(q, 1, n) \in Seq(S)
         /\ \A s : OpensIn(SubSeq(q, 1, n), s) => OpensIn(q, s)
         /\ Ascending(q) => Ascending(SubSeq(q, 1, n))
  <1>1. PICK m \in Nat : m = Len(q)
    OBVIOUS
  <1>2. PICK r : r = SubSeq(q, 1, n)
    OBVIOUS
  <1>3. r \in Seq(S) /\ Len(r) = n /\ n \in Nat /\ \A k \in 1 .. n : r[k] = q[k] /\ k \in 1 .. m
    BY <1>1, <1>2
  <1>4. \A s : OpensIn(r, s) => OpensIn(q, s)
    BY <1>1, <1>3 DEF OpensIn
  <1>5. Ascending(q) => Ascending(r)
    BY <1>1, <1>3 DEF Ascending
  <1> QED BY <1>2, <1>3, <1>4, <1>5

LEMMA SessionFields ==
  ASSUME ExtrinsicsTypeOK, NEW s \in SessionIds
  PROVE  /\ sessions[s] \in Session
         /\ sessions[s].conn \in Conns /\ sessions[s].index \in Indices
         /\ sessions[s].live \in BOOLEAN /\ sessions[s].queued \in Nat
         /\ KeyOf(s) \in Keys /\ s \in Nat
  <1>1. sessions[s] \in Session
    BY DEF ExtrinsicsTypeOK, SessionIds
  <1>2. /\ sessions[s].conn \in Conns /\ sessions[s].index \in Indices
        /\ sessions[s].live \in BOOLEAN /\ sessions[s].queued \in Nat
    BY <1>1 DEF Session
  <1>3. PeerOf[sessions[s].conn] \in NotifiedPeers
    BY <1>2 DEF NotifiedPeers
  <1> QED BY <1>1, <1>2, <1>3 DEF KeyOf, Keys, SessionIds

(* A step that changes one session in place.                               *)
LEMMA SessionUpdate ==
  ASSUME ExtrinsicsTypeOK, NEW s \in SessionIds, NEW v \in Session,
         sessions' = [sessions EXCEPT ![s] = v]
  PROVE  /\ sessions' \in Seq(Session) /\ Len(sessions') = Len(sessions)
         /\ sessions'[s] = v
         /\ \A t \in SessionIds : t # s => sessions'[t] = sessions[t]
  BY DEF ExtrinsicsTypeOK, SessionIds

(* What every step but an opening leaves of the sessions.                  *)
SessionsKept ==
  /\ sessions' \in Seq(Session) /\ Len(sessions') = Len(sessions)
  /\ \A t \in SessionIds :
       /\ sessions'[t].conn = sessions[t].conn /\ sessions'[t].index = sessions[t].index
       /\ sessions'[t].live => sessions[t].live

LEMMA SessionEnded ==
  ASSUME ExtrinsicsTypeOK, NEW s \in SessionIds, SessionEnds(s)
  PROVE  SessionsKept /\ \A t \in SessionIds : sessions'[t].queued = sessions[t].queued
  <1> DEFINE v == [sessions[s] EXCEPT !.live = FALSE]
  <1>1. /\ v \in Session /\ v.conn = sessions[s].conn /\ v.index = sessions[s].index
        /\ v.queued = sessions[s].queued /\ v.live = FALSE
    BY SessionFields DEF Session
  <1>2. sessions' = [sessions EXCEPT ![s] = v]
    BY DEF SessionEnds
  <1> HIDE DEF v
  <1> QED BY <1>1, <1>2, SessionUpdate DEF SessionsKept

LEMMA ConnectionEnded ==
  ASSUME ExtrinsicsTypeOK, NEW c \in Conns, ConnectionEnds(c)
  PROVE  /\ SessionsKept
         /\ \A t \in SessionIds : /\ sessions'[t].queued = sessions[t].queued
                                  /\ sessions'[t].live => sessions[t].conn # c
  <1> DEFINE v(t) == [sessions[t] EXCEPT !.live = @ /\ sessions[t].conn # c]
  <1>1. ASSUME NEW t \in SessionIds
        PROVE  /\ v(t) \in Session /\ v(t).conn = sessions[t].conn
               /\ v(t).index = sessions[t].index /\ v(t).queued = sessions[t].queued
               /\ v(t).live => sessions[t].live /\ sessions[t].conn # c
    BY SessionFields DEF Session
  <1>2. PICK n \in Nat : n = Len(sessions)
    BY DEF ExtrinsicsTypeOK
  <1>3. sessions' = [t \in 1 .. n |-> v(t)] /\ SessionIds = 1 .. n
    BY <1>2 DEF ConnectionEnds, SessionIds
  <1> HIDE DEF v
  <1>4. sessions' \in Seq(Session) /\ Len(sessions') = n /\ \A t \in 1 .. n : sessions'[t] = v(t)
    BY <1>1, <1>2, <1>3
  <1> QED BY <1>1, <1>2, <1>3, <1>4 DEF SessionsKept

LEMMA SessionSent ==
  ASSUME ExtrinsicsTypeOK, NEW s \in SessionIds, StartSend(s)
  PROVE  /\ SessionsKept
         /\ \A t \in SessionIds : /\ sessions'[t].queued <= sessions[t].queued + 1
                                  /\ sessions'[t].live = sessions[t].live
         /\ \/ refused' = refused
            \/ /\ refused' = refused \cup {s}
               /\ ~sessions[s].live \/ sessions[s].queued >= ChannelSize
  <1>0. \A t \in SessionIds : sessions[t].queued \in Nat
    BY SessionFields
  <1>1. CASE sessions[s].live /\ sessions[s].queued < ChannelSize
    <2> DEFINE v == [sessions[s] EXCEPT !.queued = @ + 1]
    <2>1. /\ v \in Session /\ v.conn = sessions[s].conn /\ v.index = sessions[s].index
          /\ v.queued = sessions[s].queued + 1 /\ v.live = sessions[s].live
      BY SessionFields DEF Session
    <2>2. sessions' = [sessions EXCEPT ![s] = v] /\ refused' = refused
      BY <1>1 DEF StartSend
    <2> HIDE DEF v
    <2>3. /\ sessions' \in Seq(Session) /\ Len(sessions') = Len(sessions)
          /\ sessions'[s] = v
          /\ \A t \in SessionIds : t # s => sessions'[t] = sessions[t]
      BY <2>1, <2>2, SessionUpdate
    <2>4. ASSUME NEW t \in SessionIds
          PROVE  /\ sessions'[t].conn = sessions[t].conn /\ sessions'[t].index = sessions[t].index
                 /\ sessions'[t].queued <= sessions[t].queued + 1
                 /\ sessions'[t].live = sessions[t].live
      <3>1. CASE t = s
        BY <1>0, <2>1, <2>3, <3>1
      <3>2. CASE t # s
        BY <1>0, <2>3, <3>2
      <3> QED BY <3>1, <3>2
    <2> QED BY <2>2, <2>3, <2>4 DEF SessionsKept
  <1>2. CASE ~(sessions[s].live /\ sessions[s].queued < ChannelSize)
    <2>1. sessions' = sessions /\ refused' = refused \cup {s}
      BY <1>2 DEF StartSend
    <2>2. ~sessions[s].live \/ sessions[s].queued >= ChannelSize
      BY <1>0, <1>2, ExtrinsicsAssumption
    <2>3. sessions \in Seq(Session)
      BY DEF ExtrinsicsTypeOK
    <2> QED BY <1>0, <2>1, <2>2, <2>3 DEF SessionsKept
  <1> QED BY <1>1, <1>2

LEMMA SessionOpened ==
  ASSUME ExtrinsicsTypeOK, NEW c \in Conns, NEW i \in Indices, SessionOpens(c, i)
  PROVE  /\ sessions' \in Seq(Session) /\ Len(sessions') = Len(sessions) + 1
         /\ Len(sessions) \in Nat
         /\ \A t \in SessionIds : sessions'[t] = sessions[t]
         /\ sessions'[Len(sessions) + 1] =
              [conn |-> c, index |-> i, live |-> TRUE, queued |-> 0]
  <1>1. [conn |-> c, index |-> i, live |-> TRUE, queued |-> 0] \in Session
    BY DEF Session
  <1> QED BY <1>1 DEF SessionOpens, ExtrinsicsTypeOK, SessionIds

LEMMA WiderSeq ==
  ASSUME NEW S, NEW T, S \subseteq T, NEW q \in Seq(S)
  PROVE  q \in Seq(T)
  <1>1. \A k \in 1 .. Len(q) : q[k] \in T
    OBVIOUS
  <1>2. q = [k \in 1 .. Len(q) |-> q[k]] /\ Len(q) \in Nat
    OBVIOUS
  <1> QED BY <1>1, <1>2

(* A new session leaves the old events typed; one more is appended.        *)
LEMMA TypesOpen ==
  ASSUME ExtrinsicsTypeOK, NEW c \in Conns, NEW i \in Indices, SessionOpens(c, i)
  PROVE  ExtrinsicsTypeOK'
  <1>1. PICK n \in Nat : n = Len(sessions)
    BY DEF ExtrinsicsTypeOK
  <1>2. sessions' \in Seq(Session) /\ SessionIds = 1 .. n /\ SessionIds' = 1 .. n + 1
    BY <1>1, SessionOpened DEF SessionIds
  <1>3. SessionIds \subseteq SessionIds' /\ 0 .. n \subseteq 0 .. n + 1 /\ n + 1 \in SessionIds'
    BY <1>1, <1>2
  <1>4. SubmitEvent \subseteq SubmitEvent' /\ OpenEvent(n + 1) \in SubmitEvent'
    BY <1>3 DEF SubmitEvent, OpenEvent
  <1>5. \A d \in Conns : told_events[d] \in Seq(SubmitEvent')
    <2>1. \A d \in Conns : told_events[d] \in Seq(SubmitEvent)
      BY DEF ExtrinsicsTypeOK
    <2> QED BY <1>4, <2>1, WiderSeq
  <1>6. told_events' = [told_events EXCEPT ![c] = Append(@, OpenEvent(n + 1))]
    BY <1>1 DEF SessionOpens, Tell
  <1>7. Append(told_events[c], OpenEvent(n + 1)) \in Seq(SubmitEvent')
    BY <1>4, <1>5
  <1>8. told_events' \in [Conns -> Seq(SubmitEvent')]
    BY <1>5, <1>6, <1>7 DEF ExtrinsicsTypeOK
  <1>9. /\ protocol_senders' \in [Keys -> 0 .. n + 1] /\ refused' \subseteq SessionIds'
        /\ close_after' \in 0 .. CloseAfter /\ submitting' \in BOOLEAN /\ notified' \in Nat
        /\ connected' \subseteq Conns
    BY <1>1, <1>3 DEF SessionOpens, submitVars, ExtrinsicsTypeOK
  <1>10. Len(sessions') = n + 1
    BY <1>1, SessionOpened
  <1> QED BY <1>2, <1>8, <1>9, <1>10 DEF ExtrinsicsTypeOK

(* The other steps keep the number of sessions.                            *)
LEMMA TypesKept ==
  ASSUME ExtrinsicsTypeOK, SessionsKept, connected' \subseteq connected,
         \/ told_events' = told_events
         \/ \E c \in Conns : \E q \in Seq(SubmitEvent) :
              told_events' = [told_events EXCEPT ![c] = q],
         protocol_senders' \in [Keys -> 0 .. Len(sessions)],
         close_after' \in 0 .. CloseAfter, submitting' \in BOOLEAN, notified' \in Nat,
         refused' \subseteq SessionIds
  PROVE  ExtrinsicsTypeOK'
  <1>1. SessionIds' = SessionIds /\ Len(sessions') = Len(sessions) /\ sessions' \in Seq(Session)
    BY DEF SessionIds, SessionsKept
  <1>2. SubmitEvent' = SubmitEvent
    BY <1>1 DEF SubmitEvent
  <1>3. told_events' \in [Conns -> Seq(SubmitEvent)]
    BY DEF ExtrinsicsTypeOK
  <1> QED BY <1>1, <1>2, <1>3 DEF ExtrinsicsTypeOK

(* The inductive invariant.  A queue opens sessions of its own connection, *)
(* in their order.  Of two sessions of one connection and protocol the     *)
(* earlier has ended, and as long as the command has yet to be told of it, *)
(* so it has of the later one, if that is live.                            *)
Untold(s) == \E c \in Conns : OpensIn(told_events[c], s)

SameConn(s, t) == sessions[s].conn = sessions[t].conn

EarlierEnded ==
  \A s, t \in SessionIds :
    s < t /\ SameConn(s, t) /\ sessions[s].index = sessions[t].index => ~sessions[s].live

OpeningsOrdered ==
  \A c \in Conns :
    /\ Ascending(told_events[c])
    /\ \A s \in SessionIds : OpensIn(told_events[c], s) => sessions[s].conn = c

LatestUntold ==
  \A s, t \in SessionIds :
    s < t /\ SameConn(s, t) /\ sessions[t].live /\ Untold(s) => Untold(t)

OrderInv == EarlierEnded /\ OpeningsOrdered /\ LatestUntold /\ SenderIsCurrent

LEMMA AnnouncedIffTold == \A s : Announced(s) <=> ~Untold(s)
  BY DEF Announced, Untold, OpensIn

LEMMA AnnouncedIffToldNext == \A s : Announced(s)' <=> ~Untold(s)'
  BY DEF Announced, Untold, OpensIn

(* Queues hold events of sessions only.                                    *)
LEMMA QueuedSessions ==
  ASSUME ExtrinsicsTypeOK, NEW c \in Conns
  PROVE  /\ told_events[c] \in Seq(SubmitEvent)
         /\ \A s : OpensIn(told_events[c], s) => s \in SessionIds
         /\ told_events[c] # << >> =>
              /\ Head(told_events[c]).session \in SessionIds
              /\ Head(told_events[c]).event = "CustomProtocolOpen" =>
                   Head(told_events[c]) = OpenEvent(Head(told_events[c]).session)
              /\ Head(told_events[c]).event = "Notification" =>
                   \A s : Head(told_events[c]) # OpenEvent(s)
  <1>1. told_events[c] \in Seq(SubmitEvent)
    BY DEF ExtrinsicsTypeOK
  <1>2. \A e \in SubmitEvent : e.session \in SessionIds
    BY DEF SubmitEvent
  <1>3. ASSUME NEW s, OpensIn(told_events[c], s) PROVE s \in SessionIds
    <2>1. PICK k \in 1 .. Len(told_events[c]) : told_events[c][k] = OpenEvent(s)
      BY <1>3 DEF OpensIn
    <2>2. OpenEvent(s) \in SubmitEvent
      BY <1>1, <2>1
    <2>3. OpenEvent(s).session = s
      BY DEF OpenEvent
    <2> QED BY <1>2, <2>2, <2>3
  <1>4. told_events[c] # << >> => Head(told_events[c]) \in SubmitEvent
    BY <1>1
  <1>5. \A e \in SubmitEvent : e.event = "CustomProtocolOpen" => e = OpenEvent(e.session)
    BY DEF SubmitEvent, OpenEvent
  <1>6. \A e : e.event = "Notification" => \A s : e # OpenEvent(s)
    BY DEF OpenEvent
  <1> QED BY <1>1, <1>2, <1>3, <1>4, <1>5, <1>6

(* Steps after which no session is newly live and no opening newly told of *)
(* a session that is still live.                                           *)
LEMMA OrderKept ==
  ASSUME ExtrinsicsTypeOK, OrderInv, OpeningsOrdered', SessionsKept,
         \A s \in SessionIds :
           /\ Untold(s)' => Untold(s)
           /\ sessions'[s].live /\ Untold(s) => Untold(s)',
         protocol_senders' = protocol_senders, submitting' => submitting
  PROVE  OrderInv'
  <1>1. SessionIds' = SessionIds
    BY DEF SessionIds, SessionsKept
  <1>2. /\ \A t \in SessionIds : KeyOf(t)' = KeyOf(t)
        /\ \A s, t \in SessionIds : SameConn(s, t)' <=> SameConn(s, t)
    BY DEF KeyOf, SameConn, SessionsKept
  <1>3. EarlierEnded'
    BY <1>1, <1>2 DEF OrderInv, EarlierEnded, SessionsKept
  <1>4. LatestUntold'
    BY <1>1, <1>2 DEF OrderInv, LatestUntold, SessionsKept
  <1>5. SenderIsCurrent'
    <2> SUFFICES ASSUME submitting', NEW t \in SessionIds, sessions'[t].live, Announced(t)'
                 PROVE  Current(t)'
      BY <1>1 DEF SenderIsCurrent
    <2>1. sessions[t].live /\ Announced(t)
      BY AnnouncedIffTold, AnnouncedIffToldNext DEF SessionsKept
    <2>2. PICK s \in SessionIds : /\ protocol_senders[KeyOf(t)] = s /\ KeyOf(s) = KeyOf(t)
                                  /\ s = t \/ sessions[s].conn # sessions[t].conn
      BY <2>1 DEF OrderInv, SenderIsCurrent, Current
    <2>3. KeyOf(t)' = KeyOf(t) /\ KeyOf(s)' = KeyOf(s)
      BY <1>2
    <2> QED BY <1>1, <2>2, <2>3 DEF SessionsKept, Current
  <1> QED BY <1>3, <1>4, <1>5 DEF OrderInv

(* A new session is the latest, and untold.                                *)
LEMMA OrderOpen ==
  ASSUME ExtrinsicsTypeOK, OrderInv, NEW c \in Conns, NEW i \in Indices, SessionOpens(c, i)
  PROVE  OrderInv'
  <1>n. PICK n \in Nat : n = Len(sessions)
    BY DEF ExtrinsicsTypeOK
  <1>1. /\ SessionIds = 1 .. n /\ SessionIds' = 1 .. n + 1
        /\ \A t \in 1 .. n : sessions'[t] = sessions[t]
        /\ sessions'[n + 1] = [conn |-> c, index |-> i, live |-> TRUE, queued |-> 0]
    BY <1>n, SessionOpened DEF SessionIds
  <1>c. sessions'[n + 1].conn = c /\ sessions'[n + 1].index = i
    BY <1>1
  <1>2. \A t \in 1 .. n + 1 : t \in 1 .. n \/ t = n + 1
    BY <1>n
  <1>3. \A s, t \in 1 .. n + 1 : s < t => s \in 1 .. n
    BY <1>n
  <1>4. told_events' = [told_events EXCEPT ![c] = Append(@, OpenEvent(n + 1))]
    BY <1>n DEF SessionOpens, Tell
  <1>5. /\ told_events'[c] = Append(told_events[c], OpenEvent(n + 1))
        /\ \A d \in Conns : d # c => told_events'[d] = told_events[d]
    BY <1>4 DEF ExtrinsicsTypeOK
  <1>6. /\ \A s : OpensIn(told_events'[c], s) <=> OpensIn(told_events[c], s) \/ s = n + 1
        /\ Ascending(told_events'[c])
    <2>1. told_events[c] \in Seq(SubmitEvent)
      BY QueuedSessions
    <2>2. \A s : OpensIn(told_events'[c], s) <=>
                   OpensIn(told_events[c], s) \/ OpenEvent(n + 1) = OpenEvent(s)
      BY <1>5, <2>1, QueueAppend
    <2>3. \A s : OpensIn(told_events[c], s) => s \in 1 .. n
      BY <1>1, QueuedSessions
    <2>4. \A s, t \in Nat : OpensIn(told_events[c], s) /\ OpenEvent(n + 1) = OpenEvent(t) => s < t
      BY <1>n, <2>3, EventsDiffer
    <2>5. Ascending(told_events[c])
      BY DEF OrderInv, OpeningsOrdered
    <2>6. Ascending(told_events'[c])
      BY <1>5, <2>1, <2>4, <2>5, QueueAppend
    <2> QED BY <2>2, <2>6, EventsDiffer
  <1>7. /\ \A s \in 1 .. n : Untold(s)' <=> Untold(s)
        /\ Untold(n + 1)'
    <2>1. ASSUME NEW s \in 1 .. n PROVE Untold(s)' <=> Untold(s)
      <3>1. s # n + 1
        BY <1>n
      <3>2. \A d \in Conns : OpensIn(told_events'[d], s) <=> OpensIn(told_events[d], s)
        BY <1>5, <1>6, <3>1
      <3> QED BY <3>2 DEF Untold
    <2> QED BY <1>6, <2>1 DEF Untold
  <1>8. EarlierEnded'
    <2> SUFFICES ASSUME NEW s \in 1 .. n + 1, NEW t \in 1 .. n + 1, s < t,
                        sessions'[s].conn = sessions'[t].conn,
                        sessions'[s].index = sessions'[t].index
                 PROVE  ~sessions'[s].live
      BY <1>1 DEF EarlierEnded, SameConn
    <2>1. s \in 1 .. n /\ sessions'[s] = sessions[s]
      BY <1>1, <1>3
    <2>2. CASE t = n + 1
      <3>1. sessions[s].conn = c /\ sessions[s].index = i
        BY <1>c, <2>1, <2>2
      <3> QED BY <1>1, <2>1, <3>1 DEF SessionOpens
    <2>3. CASE t \in 1 .. n
      BY <1>1, <2>1, <2>3 DEF OrderInv, EarlierEnded, SameConn
    <2> QED BY <1>2, <2>2, <2>3
  <1>9. OpeningsOrdered'
    <2> SUFFICES ASSUME NEW d \in Conns
                 PROVE  /\ Ascending(told_events'[d])
                        /\ \A s \in 1 .. n + 1 : OpensIn(told_events'[d], s) => sessions'[s].conn = d
      BY <1>1 DEF OpeningsOrdered
    <2>1. Ascending(told_events'[d])
      BY <1>5, <1>6 DEF OrderInv, OpeningsOrdered
    <2>2. ASSUME NEW s \in 1 .. n + 1, OpensIn(told_events'[d], s) PROVE sessions'[s].conn = d
      <3>1. CASE OpensIn(told_events[d], s)
        <4>1. s \in 1 .. n /\ sessions[s].conn = d
          BY <1>1, <3>1, QueuedSessions DEF OrderInv, OpeningsOrdered
        <4> QED BY <1>1, <4>1
      <3>2. CASE ~OpensIn(told_events[d], s)
        <4>1. d = c /\ s = n + 1
          BY <1>5, <1>6, <2>2, <3>2
        <4> QED BY <1>c, <4>1
      <3> QED BY <3>1, <3>2
    <2> QED BY <2>1, <2>2
  <1>10. LatestUntold'
    <2> SUFFICES ASSUME NEW s \in 1 .. n + 1, NEW t \in 1 .. n + 1, s < t,
                        sessions'[s].conn = sessions'[t].conn, sessions'[t].live, Untold(s)'
                 PROVE  Untold(t)'
      BY <1>1 DEF LatestUntold, SameConn
    <2>1. s \in 1 .. n
      BY <1>3
    <2>2. CASE t = n + 1
      BY <1>7, <2>2
    <2>3. CASE t \in 1 .. n
      BY <1>1, <1>7, <2>1, <2>3 DEF OrderInv, LatestUntold, SameConn
    <2> QED BY <1>2, <2>2, <2>3
  <1>11. SenderIsCurrent'
    <2> SUFFICES ASSUME submitting', NEW t \in 1 .. n + 1, sessions'[t].live, Announced(t)'
                 PROVE  Current(t)'
      BY <1>1 DEF SenderIsCurrent
    <2>1. t \in 1 .. n /\ Announced(t) /\ sessions[t].live
      BY <1>1, <1>2, <1>7, AnnouncedIffTold, AnnouncedIffToldNext
    <2>2. submitting /\ protocol_senders' = protocol_senders
      BY DEF SessionOpens, submitVars
    <2>3. PICK s \in 1 .. n : /\ protocol_senders[KeyOf(t)] = s /\ KeyOf(s) = KeyOf(t)
                              /\ s = t \/ sessions[s].conn # sessions[t].conn
      BY <1>1, <2>1, <2>2 DEF OrderInv, SenderIsCurrent, Current
    <2>4. KeyOf(s)' = KeyOf(s) /\ KeyOf(t)' = KeyOf(t) /\ s \in 1 .. n + 1
      BY <1>1, <1>n, <2>1 DEF KeyOf
    <2> QED BY <1>1, <2>1, <2>2, <2>3, <2>4 DEF Current
  <1> QED BY <1>8, <1>9, <1>10, <1>11 DEF OrderInv

(* An event of a connection is taken, or events of it are lost.            *)
LEMMA QueueReplaced ==
  ASSUME ExtrinsicsTypeOK, OpeningsOrdered, SessionsKept, NEW c \in Conns, NEW q,
         told_events' = [told_events EXCEPT ![c] = q],
         Ascending(q), \A s : OpensIn(q, s) => OpensIn(told_events[c], s)
  PROVE  /\ OpeningsOrdered'
         /\ \A s \in SessionIds :
              /\ Untold(s)' => Untold(s)
              /\ Untold(s) => Untold(s)' \/ (sessions[s].conn = c /\ ~OpensIn(q, s))
              /\ OpensIn(told_events[c], s) => (Untold(s)' <=> OpensIn(q, s))
  <1>1. /\ told_events'[c] = q
        /\ \A d \in Conns : d # c => told_events'[d] = told_events[d]
    BY DEF ExtrinsicsTypeOK
  <1>2. SessionIds' = SessionIds
    BY DEF SessionIds, SessionsKept
  <1>3. \A d \in Conns : \A s : OpensIn(told_events'[d], s) => OpensIn(told_events[d], s)
    BY <1>1
  <1>4. \A d \in Conns : Ascending(told_events'[d])
    BY <1>1 DEF OpeningsOrdered
  <1>5. OpeningsOrdered'
    BY <1>2, <1>3, <1>4 DEF OpeningsOrdered, SessionsKept
  <1>6. ASSUME NEW s \in SessionIds
        PROVE  /\ Untold(s)' => Untold(s)
               /\ Untold(s) => Untold(s)' \/ (sessions[s].conn = c /\ ~OpensIn(q, s))
               /\ OpensIn(told_events[c], s) => (Untold(s)' <=> OpensIn(q, s))
    <2>1. Untold(s)' => Untold(s)
      BY <1>3 DEF Untold
    <2>2. ASSUME Untold(s), ~Untold(s)' PROVE sessions[s].conn = c /\ ~OpensIn(q, s)
      <3>1. PICK d \in Conns : OpensIn(told_events[d], s)
        BY <2>2 DEF Untold
      <3>2. d = c /\ ~OpensIn(q, s)
        BY <1>1, <2>2, <3>1 DEF Untold
      <3> QED BY <3>1, <3>2 DEF OpeningsOrdered
    <2>3. ASSUME OpensIn(told_events[c], s), Untold(s)' PROVE OpensIn(q, s)
      <3>1. PICK d \in Conns : OpensIn(told_events'[d], s)
        BY <2>3 DEF Untold
      <3>2. d = c
        BY <1>3, <2>3, <3>1 DEF OpeningsOrdered
      <3> QED BY <1>1, <3>1, <3>2
    <2>4. OpensIn(q, s) => Untold(s)'
      BY <1>1 DEF Untold
    <2> QED BY <2>1, <2>2, <2>3, <2>4
  <1> QED BY <1>5, <1>6

(* The session of the opening that is taken is later than every session of *)
(* its connection announced before it, so those of its protocol have ended.*)
LEMMA OrderTakeOpen ==
  ASSUME ExtrinsicsTypeOK, OrderInv, NEW c \in Conns, TakeOpen(c)
  PROVE  OrderInv'
  <1> DEFINE q == Tail(told_events[c])
  <1>h. PICK h : h = Head(told_events[c]).session
    OBVIOUS
  <1>1. /\ told_events[c] # << >> /\ told_events' = [told_events EXCEPT ![c] = q]
        /\ sessions' = sessions /\ submitting' = submitting
        /\ protocol_senders' = [protocol_senders EXCEPT ![KeyOf(h)] = h]
    BY <1>h DEF TakeOpen, Kept
  <1>2. /\ told_events[c] \in Seq(SubmitEvent)
        /\ h \in SessionIds /\ h \in Nat /\ Head(told_events[c]) = OpenEvent(h)
    BY <1>1, <1>h, QueuedSessions, SessionFields DEF TakeOpen
  <1>3. /\ Ascending(q)
        /\ \A s : OpensIn(told_events[c], s) <=> OpensIn(q, s) \/ OpenEvent(h) = OpenEvent(s)
        /\ \A t \in Nat : OpensIn(q, t) => h < t
    <2>1. Ascending(told_events[c])
      BY DEF OrderInv, OpeningsOrdered
    <2> QED BY <1>1, <1>2, <2>1, QueueTail
  <1> HIDE DEF q
  <1>4. \A s : OpensIn(told_events[c], s) <=> OpensIn(q, s) \/ s = h
    BY <1>3, EventsDiffer
  <1>5. SessionsKept /\ SessionIds' = SessionIds
    BY <1>1 DEF SessionsKept, SessionIds, ExtrinsicsTypeOK
  <1>6. /\ OpeningsOrdered'
        /\ \A s \in SessionIds :
             /\ Untold(s)' => Untold(s)
             /\ Untold(s) => Untold(s)' \/ (sessions[s].conn = c /\ ~OpensIn(q, s))
             /\ OpensIn(told_events[c], s) => (Untold(s)' <=> OpensIn(q, s))
    BY <1>1, <1>3, <1>4, <1>5, QueueReplaced DEF OrderInv
  <1>7. \A s \in SessionIds : s \in Nat
    BY DEF SessionIds
  <1>8. sessions[h].conn = c /\ Untold(h) /\ ~Untold(h)'
    <2>1. OpensIn(told_events[c], h) /\ ~OpensIn(q, h)
      BY <1>2, <1>3, <1>4
    <2>2. sessions[h].conn = c
      BY <1>2, <2>1 DEF OrderInv, OpeningsOrdered
    <2>3. Untold(h)
      BY <2>1 DEF Untold
    <2>4. ~Untold(h)'
      BY <1>2, <1>6, <2>1
    <2> QED BY <2>2, <2>3, <2>4
  <1>9. \A s \in SessionIds : Untold(s) => Untold(s)' \/ s = h
    <2> SUFFICES ASSUME NEW s \in SessionIds, Untold(s), ~Untold(s)' PROVE s = h
      OBVIOUS
    <2>1. sessions[s].conn = c /\ ~OpensIn(q, s)
      BY <1>6
    <2>2. PICK d \in Conns : OpensIn(told_events[d], s)
      BY DEF Untold
    <2>3. d = c
      BY <2>1, <2>2 DEF OrderInv, OpeningsOrdered
    <2> QED BY <1>4, <2>1, <2>2, <2>3
  <1>10. \A s \in SessionIds : Untold(s)' /\ sessions[s].conn = c => h < s
    <2> SUFFICES ASSUME NEW s \in SessionIds, Untold(s)', sessions[s].conn = c PROVE h < s
      OBVIOUS
    <2>1. PICK d \in Conns : OpensIn(told_events[d], s)
      BY <1>6 DEF Untold
    <2>2. OpensIn(told_events[c], s)
      BY <2>1 DEF OrderInv, OpeningsOrdered
    <2> QED BY <1>3, <1>6, <1>7, <2>2
  <1>11. EarlierEnded'
    BY <1>1, <1>5 DEF OrderInv, EarlierEnded, SameConn
  <1>12. LatestUntold'
    <2> SUFFICES ASSUME NEW s \in SessionIds, NEW t \in SessionIds, s < t, SameConn(s, t),
                        sessions[t].live, Untold(s)'
                 PROVE  Untold(t)'
      BY <1>1, <1>5 DEF LatestUntold, SameConn
    <2>1. Untold(t)
      BY <1>6 DEF OrderInv, LatestUntold
    <2>2. CASE t = h
      <3>1. h < s
        BY <1>8, <1>10, <2>2 DEF SameConn
      <3> QED BY <1>7, <2>2, <3>1
    <2> QED BY <1>9, <2>1, <2>2
  <1>13. SenderIsCurrent'
    <2> SUFFICES ASSUME submitting, NEW t \in SessionIds, sessions[t].live, ~Untold(t)'
                 PROVE  Current(t)'
      BY <1>1, <1>5, AnnouncedIffToldNext DEF SenderIsCurrent
    <2>0. KeyOf(t) \in Keys /\ KeyOf(h) \in Keys /\ protocol_senders \in [Keys -> 0 .. Len(sessions)]
      BY <1>2, SessionFields DEF ExtrinsicsTypeOK
    <2>1. \A s : KeyOf(s)' = KeyOf(s)
      BY <1>1 DEF KeyOf
    <2>2. CASE t = h
      <3>1. protocol_senders'[KeyOf(t)] = h
        BY <1>1, <2>0, <2>2
      <3> QED BY <1>2, <1>5, <2>1, <2>2, <3>1 DEF Current
    <2>3. CASE t # h /\ KeyOf(t) = KeyOf(h)
      <3>1. ~Untold(t)
        BY <1>9, <2>3
      <3>2. ASSUME sessions[t].conn = c PROVE FALSE
        <4>1. sessions[t].index = sessions[h].index /\ SameConn(t, h)
          BY <1>8, <2>3, <3>2 DEF KeyOf, SameConn
        <4>2. t < h \/ h < t
          BY <1>2, <1>7, <2>3
        <4>3. CASE t < h
          BY <1>2, <4>1, <4>3 DEF OrderInv, EarlierEnded
        <4>4. CASE h < t
          BY <1>2, <1>8, <3>1, <4>1, <4>4 DEF OrderInv, LatestUntold, SameConn
        <4> QED BY <4>2, <4>3, <4>4
      <3>3. protocol_senders'[KeyOf(t)] = h
        BY <1>1, <2>0, <2>3
      <3>4. sessions'[h].conn # sessions'[t].conn
        BY <1>1, <1>8, <3>2
      <3> QED BY <1>2, <1>5, <2>1, <2>3, <3>3, <3>4 DEF Current
    <2>4. CASE KeyOf(t) # KeyOf(h)
      <3>1. Announced(t)
        BY <1>9, <2>4, AnnouncedIffTold
      <3>2. Current(t)
        BY <3>1 DEF OrderInv, SenderIsCurrent
      <3>3. protocol_senders'[KeyOf(t)] = protocol_senders[KeyOf(t)]
        BY <1>1, <2>0, <2>4
      <3> QED BY <1>1, <1>5, <2>1, <3>2, <3>3 DEF Current
    <2> QED BY <2>2, <2>3, <2>4
  <1> QED BY <1>6, <1>11, <1>12, <1>13 DEF OrderInv

(* A step of a handler that drops, or of the command that takes, what      *)
(* opens no live session.                                                  *)
LEMMA OrderReplaced ==
  ASSUME ExtrinsicsTypeOK, OrderInv, SessionsKept, NEW c \in Conns, NEW q,
         told_events' = [told_events EXCEPT ![c] = q],
         Ascending(q), \A s : OpensIn(q, s) => OpensIn(told_events[c], s),
         \A s \in SessionIds :
           sessions'[s].live /\ sessions[s].conn = c /\ OpensIn(told_events[c], s) => OpensIn(q, s),
         protocol_senders' = protocol_senders, submitting' => submitting
  PROVE  OrderInv'
  <1>1. /\ OpeningsOrdered'
        /\ \A s \in SessionIds :
             /\ Untold(s)' => Untold(s)
             /\ Untold(s) => Untold(s)' \/ (sessions[s].conn = c /\ ~OpensIn(q, s))
    BY QueueReplaced DEF OrderInv
  <1>2. ASSUME NEW s \in SessionIds, sessions'[s].live, Untold(s) PROVE Untold(s)'
    <2>1. PICK d \in Conns : OpensIn(told_events[d], s)
      BY <1>2 DEF Untold
    <2>2. sessions[s].conn = c => d = c
      BY <2>1 DEF OrderInv, OpeningsOrdered
    <2> QED BY <1>1, <1>2, <2>1, <2>2
  <1> QED BY <1>1, <1>2, OrderKept

ExtrinsicsInv == ExtrinsicsTypeOK /\ LoopBounded /\ OrderInv

LEMMA ExtrinsicsInitGood == ExtrinsicsInit => ExtrinsicsInv
  <1> SUFFICES ASSUME ExtrinsicsInit PROVE ExtrinsicsInv
    OBVIOUS
  <1>1. SessionIds = {} /\ Len(sessions) = 0
    BY DEF ExtrinsicsInit, SessionIds
  <1>2. \A c \in Conns : told_events[c] = << >>
    BY DEF ExtrinsicsInit
  <1>3. ExtrinsicsTypeOK
    BY <1>1, ExtrinsicsAssumption DEF ExtrinsicsInit, ExtrinsicsTypeOK
  <1>4. LoopBounded
    BY <1>1, ExtrinsicsAssumption DEF ExtrinsicsInit, LoopBounded
  <1>5. \A c \in Conns : Ascending(told_events[c])
    BY <1>2 DEF Ascending
  <1>6. OrderInv
    BY <1>1, <1>5 DEF OrderInv, EarlierEnded, OpeningsOrdered, LatestUntold, SenderIsCurrent
  <1> QED BY <1>3, <1>4, <1>6 DEF ExtrinsicsInv

LEMMA ExtrinsicsNextGood ==
  ExtrinsicsInv /\ [ExtrinsicsNext]_extrinsicsVars => ExtrinsicsInv'
  <1> SUFFICES ASSUME ExtrinsicsInv, [ExtrinsicsNext]_extrinsicsVars PROVE ExtrinsicsInv'
    OBVIOUS
  <1>0. ExtrinsicsTypeOK /\ LoopBounded /\ OrderInv
    BY DEF ExtrinsicsInv
  <1>t. /\ sessions \in Seq(Session) /\ Len(sessions) \in Nat
        /\ protocol_senders \in [Keys -> 0 .. Len(sessions)]
        /\ close_after \in 0 .. CloseAfter /\ submitting \in BOOLEAN /\ notified \in Nat
        /\ refused \subseteq SessionIds /\ connected \subseteq Conns
    BY <1>0 DEF ExtrinsicsTypeOK
  <1>q. \A s \in SessionIds : sessions[s].queued \in Nat
    BY <1>0, SessionFields
  <1>u. sessions' = sessions => SessionsKept
    BY <1>t DEF SessionsKept
  <1>o. \A c \in Conns : told_events[c] \in Seq(SubmitEvent) /\ Ascending(told_events[c])
    BY <1>0, QueuedSessions DEF OrderInv, OpeningsOrdered
  <1>1. ASSUME NEW c \in Conns, NEW i \in Indices, SessionOpens(c, i) PROVE ExtrinsicsInv'
    <2>1. ExtrinsicsTypeOK' /\ OrderInv'
      BY <1>0, <1>1, TypesOpen, OrderOpen
    <2>2. LoopBounded'
      <3>1. /\ Len(sessions') = Len(sessions) + 1
            /\ \A t \in SessionIds : sessions'[t] = sessions[t]
            /\ sessions'[Len(sessions) + 1].queued = 0
        <4>1. /\ Len(sessions') = Len(sessions) + 1
              /\ \A t \in SessionIds : sessions'[t] = sessions[t]
              /\ sessions'[Len(sessions) + 1] =
                   [conn |-> c, index |-> i, live |-> TRUE, queued |-> 0]
          BY <1>0, <1>1, SessionOpened
        <4> QED BY <4>1
      <3>2. \A s \in SessionIds' : s \in SessionIds \/ s = Len(sessions) + 1
        BY <1>t, <3>1 DEF SessionIds
      <3>3. UNCHANGED submitVars
        BY <1>1 DEF SessionOpens
      <3> QED BY <1>0, <1>t, <1>q, <3>1, <3>2, <3>3, ExtrinsicsAssumption
            DEF LoopBounded, submitVars
    <2> QED BY <2>1, <2>2 DEF ExtrinsicsInv
  <1>2. ASSUME NEW s \in SessionIds, SessionEnds(s) PROVE ExtrinsicsInv'
    <2>1. SessionsKept /\ \A t \in SessionIds : sessions'[t].queued = sessions[t].queued
      BY <1>0, <1>2, SessionEnded
    <2>2. UNCHANGED <<connected, told_events, submitVars>>
      BY <1>2 DEF SessionEnds
    <2>3. ExtrinsicsTypeOK'
      BY <1>0, <1>t, <2>1, <2>2, TypesKept DEF submitVars
    <2>4. \A t : Untold(t)' <=> Untold(t)
      BY <2>2 DEF Untold
    <2>5. OpeningsOrdered'
      BY <1>0, <2>1, <2>2 DEF OrderInv, OpeningsOrdered, SessionsKept, SessionIds
    <2>6. OrderInv'
      BY <1>0, <2>1, <2>2, <2>4, <2>5, OrderKept DEF submitVars
    <2>7. LoopBounded'
      BY <1>0, <1>t, <2>1, <2>2 DEF LoopBounded, submitVars, SessionIds, SessionsKept
    <2> QED BY <2>3, <2>6, <2>7 DEF ExtrinsicsInv
  <1>3. ASSUME NEW s \in SessionIds, RemoteNotifies(s) PROVE ExtrinsicsInv'
    <2> DEFINE c == sessions[s].conn
               q == Append(told_events[c], NotificationEvent(s))
    <2>1. /\ told_events' = [told_events EXCEPT ![c] = q]
          /\ UNCHANGED <<connected, sessions, submitVars>>
      BY <1>3 DEF RemoteNotifies, Tell
    <2>2. c \in Conns
      BY <1>0, SessionFields
    <2>3. NotificationEvent(s) \in SubmitEvent
      BY DEF NotificationEvent, SubmitEvent
    <2>4. q \in Seq(SubmitEvent)
      BY <1>o, <2>2, <2>3
    <2>5. Ascending(q) /\ \A t : OpensIn(q, t) <=> OpensIn(told_events[c], t)
      BY <1>o, <2>2, QueueAppend, EventsDiffer
    <2> HIDE DEF q, c
    <2>6. ExtrinsicsTypeOK'
      BY <1>0, <1>t, <1>u, <2>1, <2>2, <2>4, TypesKept DEF submitVars
    <2>7. OrderInv'
      BY <1>0, <1>u, <2>1, <2>2, <2>5, OrderReplaced DEF submitVars
    <2>8. LoopBounded'
      BY <1>0, <2>1 DEF LoopBounded, submitVars, SessionIds
    <2> QED BY <2>6, <2>7, <2>8 DEF ExtrinsicsInv
  <1>4. ASSUME NEW c \in Conns, TakeOpen(c) PROVE ExtrinsicsInv'
    <2>1. /\ told_events[c] # << >>
          /\ told_events' = [told_events EXCEPT ![c] = Tail(told_events[c])]
          /\ UNCHANGED <<connected, sessions, close_after, submitting, notified, refused>>
      BY <1>4 DEF TakeOpen
    <2>2. Head(told_events[c]).session \in SessionIds
      BY <1>0, <2>1, QueuedSessions
    <2>3. protocol_senders' \in [Keys -> 0 .. Len(sessions)]
      <3>1. Head(told_events[c]).session \in 0 .. Len(sessions)
        BY <1>t, <2>2 DEF SessionIds
      <3> QED BY <1>4, <1>t, <3>1 DEF TakeOpen, Kept
    <2>4. Tail(told_events[c]) \in Seq(SubmitEvent)
      BY <1>o, <2>1, QueueTail
    <2>5. ExtrinsicsTypeOK'
      BY <1>0, <1>t, <1>u, <2>1, <2>3, <2>4, TypesKept
    <2>6. OrderInv'
      BY <1>0, <1>4, OrderTakeOpen
    <2>7. LoopBounded'
      BY <1>0, <2>1 DEF LoopBounded, SessionIds
    <2> QED BY <2>5, <2>6, <2>7 DEF ExtrinsicsInv
  <1>5. ASSUME NEW c \in Conns, TakeNotification(c) PROVE ExtrinsicsInv'
    <2> DEFINE q == Tail(told_events[c])
    <2>1. /\ submitting /\ told_events[c] # << >>
          /\ told_events' = [told_events EXCEPT ![c] = q]
          /\ Head(told_events[c]).event = "Notification" /\ notified' = notified + 1
          /\ UNCHANGED <<connected, protocol_senders>>
      BY <1>5 DEF TakeNotification
    <2>2. /\ SessionsKept
          /\ refused' \subseteq SessionIds
          /\ close_after' \in 0 .. CloseAfter /\ submitting' \in BOOLEAN
          /\ LoopBounded'
      <3>1. CASE close_after = 0
        <4>1. submitting' = FALSE /\ UNCHANGED <<sessions, close_after, refused>>
          BY <1>5, <3>1 DEF TakeNotification
        <4>2. SessionIds' = SessionIds
          BY <4>1 DEF SessionIds
        <4>3. notified' = CloseAfter - close_after' + 1
          BY <1>0, <1>t, <2>1, <4>1, ExtrinsicsAssumption DEF LoopBounded
        <4>4. LoopBounded'
          BY <1>0, <3>1, <4>1, <4>2, <4>3 DEF LoopBounded
        <4> QED BY <1>t, <1>u, <4>1, <4>4
      <3>2. CASE close_after # 0
        <4>1. close_after' = close_after - 1 /\ submitting' = submitting
          BY <1>5, <3>2 DEF TakeNotification, Counted
        <4>2. \/ UNCHANGED <<sessions, refused>>
              \/ \E s \in SessionIds : StartSend(s)
          <5> DEFINE key == <<PeerOf[c], TransactionsIndex>>
                     s == protocol_senders[key]
          <5>1. key \in Keys
            BY ExtrinsicsAssumption DEF Keys, NotifiedPeers
          <5>2. s = 0 \/ s \in SessionIds
            BY <1>t, <5>1 DEF SessionIds
          <5>3. IF s = 0 THEN UNCHANGED <<sessions, refused>> ELSE StartSend(s)
            BY <1>5, <3>2 DEF TakeNotification
          <5> HIDE DEF s
          <5> QED BY <5>2, <5>3
        <4>3. CASE UNCHANGED <<sessions, refused>>
          BY <1>0, <1>t, <1>q, <1>u, <2>1, <3>2, <4>1, <4>3, ExtrinsicsAssumption
            DEF LoopBounded, SessionIds
        <4>4. CASE \E s \in SessionIds : StartSend(s)
          <5>1. PICK s \in SessionIds : StartSend(s)
            BY <4>4
          <5>2. /\ SessionsKept
                /\ \A t \in SessionIds : /\ sessions'[t].queued <= sessions[t].queued + 1
                                         /\ sessions'[t].live = sessions[t].live
                /\ \/ refused' = refused
                   \/ /\ refused' = refused \cup {s}
                      /\ ~sessions[s].live \/ sessions[s].queued >= ChannelSize
            BY <1>0, <5>1, SessionSent
          <5>3. sessions[s].queued < ChannelSize
            <6>1. sessions[s].queued <= CloseAfter - close_after
              BY <1>0 DEF LoopBounded
            <6>2. close_after \in 1 .. CloseAfter /\ sessions[s].queued \in Nat
              BY <1>t, <1>q, <3>2
            <6> QED BY <6>1, <6>2, ExtrinsicsAssumption
          <5>4. SessionIds' = SessionIds
            BY <5>2 DEF SessionIds, SessionsKept
          <5>5. \A t \in SessionIds : sessions'[t].queued \in Nat
            <6>1. \A t \in SessionIds : sessions'[t] \in Session
              BY <5>2 DEF SessionIds, SessionsKept
            <6> QED BY <6>1 DEF Session
          <5>6. refused' \subseteq SessionIds /\ \A t \in refused' : ~sessions'[t].live
            <6>1. CASE refused' = refused
              BY <1>0, <1>t, <5>2, <6>1 DEF LoopBounded
            <6>2. CASE refused' # refused
              <7>1. ~(sessions[s].queued >= ChannelSize)
                BY <1>q, <5>3, ExtrinsicsAssumption
              <7>2. refused' = refused \cup {s} /\ ~sessions[s].live
                BY <5>2, <6>2, <7>1
              <7> QED BY <1>0, <1>t, <5>2, <7>2 DEF LoopBounded
            <6> QED BY <6>1, <6>2
          <5>7. \A t \in SessionIds : sessions'[t].queued <= CloseAfter - close_after'
            BY <1>0, <1>t, <1>q, <4>1, <5>2, <5>5, ExtrinsicsAssumption DEF LoopBounded
          <5>8. LoopBounded'
            BY <1>0, <1>t, <2>1, <4>1, <5>4, <5>6, <5>7, ExtrinsicsAssumption DEF LoopBounded
          <5> QED BY <1>t, <3>2, <4>1, <5>2, <5>6, <5>8, ExtrinsicsAssumption
        <4> QED BY <4>2, <4>3, <4>4
      <3> QED BY <3>1, <3>2
    <2>3. q \in Seq(SubmitEvent)
      BY <1>o, <2>1, QueueTail
    <2>4. Ascending(q) /\ \A s : OpensIn(q, s) <=> OpensIn(told_events[c], s)
      <3>1. \A s : Head(told_events[c]) # OpenEvent(s)
        BY <1>0, <2>1, QueuedSessions
      <3> QED BY <1>o, <2>1, <3>1, QueueTail
    <2> HIDE DEF q
    <2>5. ExtrinsicsTypeOK'
      <3>1. \E d \in Conns : \E r \in Seq(SubmitEvent) : told_events' = [told_events EXCEPT ![d] = r]
        BY <2>1, <2>3
      <3>2. /\ protocol_senders' \in [Keys -> 0 .. Len(sessions)] /\ notified' \in Nat
            /\ connected' \subseteq connected
        BY <1>t, <2>1
      <3> QED BY <1>0, <2>2, <3>1, <3>2, TypesKept
    <2>6. OrderInv'
      BY <1>0, <2>1, <2>2, <2>4, OrderReplaced
    <2> QED BY <2>2, <2>5, <2>6 DEF ExtrinsicsInv
  <1>6. ASSUME NEW c \in Conns, ConnectionEnds(c) PROVE ExtrinsicsInv'
    <2>1. PICK n \in 0 .. Len(told_events[c]) :
            told_events' = [told_events EXCEPT ![c] = SubSeq(told_events[c], 1, n)]
      BY <1>6 DEF ConnectionEnds
    <2> DEFINE q == SubSeq(told_events[c], 1, n)
    <2>2. /\ SessionsKept
          /\ \A t \in SessionIds : /\ sessions'[t].queued = sessions[t].queued
                                   /\ sessions'[t].live => sessions[t].conn # c
          /\ UNCHANGED submitVars /\ connected' \subseteq connected
      BY <1>0, <1>6, ConnectionEnded DEF ConnectionEnds
    <2>3. /\ q \in Seq(SubmitEvent) /\ Ascending(q)
          /\ \A s : OpensIn(q, s) => OpensIn(told_events[c], s)
      BY <1>o, QueuePrefix
    <2> HIDE DEF q
    <2>4. told_events' = [told_events EXCEPT ![c] = q]
      BY <2>1 DEF q
    <2>5. ExtrinsicsTypeOK'
      BY <1>0, <1>t, <2>2, <2>3, <2>4, TypesKept DEF submitVars
    <2>6. OrderInv'
      BY <1>0, <2>2, <2>3, <2>4, OrderReplaced DEF submitVars
    <2>7. LoopBounded'
      BY <1>0, <1>t, <2>2 DEF LoopBounded, submitVars, SessionIds, SessionsKept
    <2> QED BY <2>5, <2>6, <2>7 DEF ExtrinsicsInv
  <1>7. CASE UNCHANGED extrinsicsVars
    <2>1. OpeningsOrdered' /\ \A t : Untold(t)' <=> Untold(t)
      BY <1>0, <1>7 DEF extrinsicsVars, OrderInv, OpeningsOrdered, Untold, SessionIds
    <2>2. ExtrinsicsTypeOK'
      BY <1>0, <1>t, <1>u, <1>7, TypesKept DEF extrinsicsVars, submitVars
    <2>3. OrderInv'
      BY <1>0, <1>u, <1>7, <2>1, OrderKept DEF extrinsicsVars, submitVars
    <2>4. LoopBounded'
      BY <1>0, <1>7 DEF extrinsicsVars, submitVars, LoopBounded, SessionIds
    <2> QED BY <2>2, <2>3, <2>4 DEF ExtrinsicsInv
  <1> QED BY <1>1, <1>2, <1>3, <1>4, <1>5, <1>6, <1>7 DEF ExtrinsicsNext

(* The invariant of submit-extrinsic behind the two theorems that follow:  *)
(* every connection tells of its own sessions in their order, and only     *)
(* the latest of a connection and protocol can be live.                    *)
THEOREM ExtrinsicsInvariant == ExtrinsicsSpec => []ExtrinsicsInv
  BY ExtrinsicsInitGood, ExtrinsicsNextGood, PTL DEF ExtrinsicsSpec

(* submit-extrinsic leaves at the notification after close_after ones, and *)
(* no payload is refused for want of room in a channel.                    *)
THEOREM ExtrinsicsBounded == ExtrinsicsSpec => []LoopBounded
  <1>1. ExtrinsicsInv => LoopBounded
    BY DEF ExtrinsicsInv
  <1> QED BY <1>1, ExtrinsicsInvariant, PTL

(* Once a live session is announced, the kept sender is its own or one of  *)
(* another connection of the peer, however the connections' events         *)
(* interleave: no opening told late puts an ended sender of a connection   *)
(* in the place of its live one.                                           *)
THEOREM ExtrinsicsSender == ExtrinsicsSpec => []SenderIsCurrent
  <1>1. ExtrinsicsInv => SenderIsCurrent
    BY DEF ExtrinsicsInv, OrderInv
  <1> QED BY <1>1, ExtrinsicsInvariant, PTL

-----------------------------------------------------------------------------
(* discover-network.  The pool of queries and what was discovered do not   *)
(* depend on each other, so the invariant is preserved part by part.       *)
PoolPart ==
  /\ phase \in {"new", "running", "done"}
  /\ pool \in Pool(pool.next_id)
  /\ PoolFull

RouteTypes ==
  /\ discovered_with_addresses \in [Peers -> SUBSET Addresses]
  /\ dialed_addresses \subseteq Addresses
  /\ book \in [Peers -> SUBSET Addresses]
  /\ updates \subseteq [peer : Peers, addresses : (SUBSET Addresses) \ {{}}]
  /\ dials \in [Addresses -> Nat]

PeerTypes ==
  /\ peer_details \subseteq Peers
  /\ peer_role \in [Peers -> Roles \cup {NoRole}]
  /\ dialed_peers \subseteq Peers
  /\ told \in 0 .. MaxTold

TargetTypes ==
  target \in [identified : BOOLEAN, dht_reports : Nat, known_addresses : SUBSET Addresses]

(* The parts make up the invariant.                                        *)
LEMMA Parts ==
  IInv <=> /\ PoolPart /\ RouteTypes /\ PeerTypes /\ TargetTypes
           /\ DialsMatchDiscovered /\ NoRouteMissed /\ TargetConsistent
  BY DEF IInv, TypeOK, PoolPart, RouteTypes, PeerTypes, TargetTypes

(* top_up_queries fills the pool to MAX_QUERIES with fresh ids, each of    *)
(* them running.                                                           *)
LEMMA TopUp ==
  ASSUME NEW d, NEW n \in Nat, d \in Pool(n), d.next_id = n, d.queries = d.running,
         Cardinality(d.queries) <= MaxQueries
  PROVE  LET e == top_up_queries(d) IN
         /\ e \in Pool(e.next_id) /\ e.queries = e.running
         /\ Cardinality(e.queries) = MaxQueries
  <1> DEFINE missing == MaxQueries - Cardinality(d.queries)
             ids == n .. n + missing - 1
             e == top_up_queries(d)
  <1>1. d.queries \subseteq 0 .. n - 1 /\ 0 \in Int /\ n - 1 \in Int
    BY DEF Pool
  <1>2. IsFiniteSet(d.queries) /\ Cardinality(d.queries) \in Nat
    BY <1>1, FS_Interval, FS_Subset, FS_CardinalityType
  <1>3. missing \in Nat /\ MaxQueries \in Nat
    BY <1>2, CrawlerAssumption
  <1>4. CASE missing = 0
    <2>1. e = d
      BY <1>4, CrawlerAssumption DEF top_up_queries
    <2> QED BY <2>1, <1>2, <1>3, <1>4
  <1>5. CASE missing > 0
    <2>1. /\ e.queries = d.queries \cup ids /\ e.running = d.running \cup ids
          /\ e.next_id = n + missing
          /\ e = [queries |-> d.queries \cup ids, running |-> d.running \cup ids,
                  next_id |-> n + missing]
      BY <1>5 DEF top_up_queries
    <2>2. n \in Int /\ n + missing - 1 \in Int /\ n <= n + missing - 1
      BY <1>3, <1>5
    <2>3. IsFiniteSet(ids) /\ Cardinality(ids) = missing
      <3> DEFINE b == n + missing - 1
      <3>1. b - n + 1 = missing /\ b \in Int /\ ~(n > b)
        BY <1>3, <1>5
      <3> HIDE DEF b
      <3>2. IsFiniteSet(n .. b) /\ Cardinality(n .. b) = IF n > b THEN 0 ELSE b - n + 1
        BY <3>1, FS_Interval
      <3>3. IsFiniteSet(n .. b) /\ Cardinality(n .. b) = missing
        BY <3>1, <3>2
      <3> QED BY <3>3 DEF b
    <2>4. d.queries \cap ids = {}
      BY <1>1, <1>3
    <2>5. Cardinality(d.queries \cup ids) =
            Cardinality(d.queries) + Cardinality(ids) - Cardinality(d.queries \cap ids)
      BY <1>2, <2>3, FS_Union, ZenonT(40)
    <2>6. Cardinality(d.queries \cup ids) = MaxQueries
      <3>1. Cardinality(d.queries \cap ids) = 0
        BY <2>4, FS_EmptySet
      <3> DEFINE c == Cardinality(d.queries)
                 i == Cardinality(d.queries \cap ids)
                 u == Cardinality(d.queries \cup ids)
      <3>2. i = 0 /\ c \in Nat /\ MaxQueries \in Nat /\ Cardinality(ids) = MaxQueries - c
        BY <3>1, <2>3, <1>2, <1>3
      <3>3. u = c + Cardinality(ids) - i
        BY <2>5
      <3> HIDE DEF c, i, u, ids
      <3>4. u = MaxQueries
        BY <3>2, <3>3
      <3> QED BY <3>4 DEF u
    <2>7. ids \subseteq 0 .. n + missing - 1 /\ d.queries \subseteq 0 .. n + missing - 1
      BY <1>1, <1>3
    <2> QED BY <2>1, <2>6, <2>7, <1>3 DEF Pool
  <1> QED BY <1>3, <1>4, <1>5

-----------------------------------------------------------------------------
(* The handlers that use the pool leave it full, the others leave it alone.*)
LEMMA PoolStep == PoolPart /\ [Next]_vars => PoolPart'
  <1> SUFFICES ASSUME PoolPart, [Next]_vars PROVE PoolPart'
    OBVIOUS
  <1>1. /\ pool.next_id \in Nat /\ pool \in Pool(pool.next_id)
        /\ pool.queries = pool.running /\ Cardinality(pool.queries) <= MaxQueries
    BY DEF PoolPart, Pool, PoolFull
  <1>2. ASSUME pool' = top_up_queries(pool), phase' \in {"new", "running", "done"}
        PROVE  PoolPart'
    <2>1. /\ pool' \in Pool(pool'.next_id) /\ pool'.queries = pool'.running
          /\ Cardinality(pool'.queries) = MaxQueries
      BY <1>1, <1>2, TopUp
    <2> QED BY <2>1, <1>2, CrawlerAssumption DEF PoolPart, PoolFull
  <1>3. ASSUME NEW id \in pool.running, NEW addresses, GetClosestPeers(id, addresses)
        PROVE  PoolPart'
    <2> DEFINE d == [pool EXCEPT !.queries = @ \ {id}, !.running = @ \ {id}]
    <2>1. pool' = top_up_queries(d) /\ phase' = "running"
      BY <1>3 DEF GetClosestPeers
    <2>2. /\ d \in Pool(pool.next_id) /\ d.next_id = pool.next_id /\ d.queries = d.running
          /\ d.queries = pool.queries \ {id}
      BY <1>1 DEF Pool
    <2>3. Cardinality(d.queries) <= MaxQueries
      <3>1. 0 \in Int /\ pool.next_id - 1 \in Int /\ pool.queries \subseteq 0 .. pool.next_id - 1
        BY <1>1 DEF Pool
      <3>2. IsFiniteSet(pool.queries)
        BY <3>1, FS_Interval, FS_Subset
      <3>3. /\ Cardinality(d.queries) <= Cardinality(pool.queries)
            /\ Cardinality(d.queries) \in Nat /\ Cardinality(pool.queries) \in Nat
        BY <2>2, <3>2, FS_Subset, FS_CardinalityType
      <3> QED BY <3>3, <1>1, CrawlerAssumption
    <2> HIDE DEF d
    <2>4. /\ pool' \in Pool(pool'.next_id) /\ pool'.queries = pool'.running
          /\ Cardinality(pool'.queries) = MaxQueries
      BY <1>1, <2>1, <2>2, <2>3, TopUp
    <2> QED BY <2>1, <2>4, CrawlerAssumption DEF PoolPart, PoolFull
  <1>4. CASE Start \/ ResubmitTick
    <2>1. pool' = top_up_queries(pool) /\ phase' \in {"new", "running", "done"}
      BY <1>4 DEF Start, ResubmitTick
    <2> QED BY <2>1, <1>2
  <1>5. CASE Timeout
    BY <1>5 DEF Timeout, PoolPart, PoolFull
  <1>6. ASSUME UNCHANGED <<phase, pool>> PROVE PoolPart'
    BY <1>6 DEF PoolPart, PoolFull
  <1>7. CASE \E u \in updates : RoutingUpdated(u)
    BY <1>6, <1>7 DEF RoutingUpdated
  <1>8. CASE \E p \in Peers, x \in Addresses :
               RoutablePeer(p, x) \/ TableGrows(p, x) \/ TableShrinks(p, x)
    BY <1>6, <1>8 DEF RoutablePeer, TableGrows, TableShrinks
  <1>9. CASE \E p \in Peers : \/ \E role \in Roles \cup {NoRole} : CustomProtocolOpen(p, role)
                              \/ Identified(p) \/ Dialing(p)
    BY <1>6, <1>9 DEF CustomProtocolOpen, Identified, Dialing
  <1>10. CASE UNCHANGED vars
    BY <1>6, <1>10 DEF vars
  <1> QED BY <1>3, <1>4, <1>5, <1>7, <1>8, <1>9, <1>10 DEF Next

-----------------------------------------------------------------------------
(* A report for the target adds its addresses, and counts.                 *)
LEMMA NoteEffect ==
  ASSUME TargetTypes, NEW a \in SUBSET Addresses, target' = note_target_addresses(a)
  PROVE  /\ TargetTypes'
         /\ target'.identified = target.identified
         /\ target'.dht_reports = target.dht_reports + 1
         /\ target'.known_addresses = target.known_addresses \cup a
  <1>1. target' = [target EXCEPT !.dht_reports = @ + 1, !.known_addresses = @ \cup a]
    BY DEF note_target_addresses
  <1>2. /\ target'.identified = target.identified
        /\ target'.dht_reports = target.dht_reports + 1
        /\ target'.known_addresses = target.known_addresses \cup a
    BY <1>1 DEF TargetTypes
  <1>3. TargetTypes'
    <2>1. target' = [identified |-> target.identified, dht_reports |-> target.dht_reports + 1,
                     known_addresses |-> target.known_addresses \cup a]
      BY <1>1 DEF TargetTypes
    <2>2. /\ target.identified \in BOOLEAN /\ target.dht_reports + 1 \in Nat
          /\ target.known_addresses \cup a \in SUBSET Addresses
      BY DEF TargetTypes
    <2> QED BY <2>1, <2>2 DEF TargetTypes
  <1> QED BY <1>2, <1>3

(* The summary stays consistent when the target is reported with the       *)
(* addresses a, and these are then what is new for it.                     *)
LEMMA NoteStep ==
  ASSUME TargetTypes, TargetConsistent, NEW a \in SUBSET Addresses, a # {},
         target' = note_target_addresses(a), peer_details' = peer_details,
         discovered_with_addresses'[Target] \subseteq discovered_with_addresses[Target] \cup a
  PROVE  TargetTypes' /\ TargetConsistent'
  <1>1. /\ TargetTypes' /\ target'.identified = target.identified
        /\ target'.dht_reports = target.dht_reports + 1
        /\ target'.known_addresses = target.known_addresses \cup a
    BY NoteEffect
  <1>2. target'.dht_reports # 0
    BY <1>1 DEF TargetTypes
  <1>3. target'.known_addresses # {}
    BY <1>1
  <1>4. discovered_with_addresses'[Target] \subseteq target'.known_addresses
    BY <1>1 DEF TargetConsistent
  <1>5. target'.identified <=> Target \in peer_details'
    BY <1>1, Zenon DEF TargetConsistent
  <1> QED BY <1>1, <1>2, <1>3, <1>4, <1>5, Zenon DEF TargetConsistent

(* It stays consistent as well when nothing of it changes.                 *)
LEMMA NoteStutter ==
  ASSUME TargetTypes, TargetConsistent, target' = target, peer_details' = peer_details,
         discovered_with_addresses'[Target] = discovered_with_addresses[Target]
  PROVE  TargetTypes' /\ TargetConsistent'
  BY Zenon DEF TargetTypes, TargetConsistent

-----------------------------------------------------------------------------
(* What force_dial does with the addresses a of p: each is dialed at most  *)
(* once and recorded, and nothing that was known is lost.                  *)
LEMMA DialEffect ==
  ASSUME RouteTypes, DialsMatchDiscovered, NEW p \in Peers, NEW a \in SUBSET Addresses,
         force_dial(a), Discovered(p, a)
  PROVE  /\ discovered_with_addresses' \in [Peers -> SUBSET Addresses]
         /\ dialed_addresses' \subseteq Addresses
         /\ dials' \in [Addresses -> Nat]
         /\ DialsMatchDiscovered'
         /\ discovered_with_addresses'[p] = discovered_with_addresses[p] \cup a
         /\ \A r \in Peers : r # p => discovered_with_addresses'[r] = discovered_with_addresses[r]
  <1> USE DEF RouteTypes
  <1>1. /\ dialed_addresses' = dialed_addresses \cup a
        /\ dials' = [x \in Addresses |->
                       IF x \in a \ dialed_addresses THEN dials[x] + 1 ELSE dials[x]]
        /\ discovered_with_addresses' = [discovered_with_addresses EXCEPT ![p] = @ \cup a]
    BY DEF force_dial, Discovered
  <1>2. /\ discovered_with_addresses'[p] = discovered_with_addresses[p] \cup a
        /\ \A r \in Peers : r # p => discovered_with_addresses'[r] = discovered_with_addresses[r]
        /\ discovered_with_addresses' \in [Peers -> SUBSET Addresses]
    BY <1>1
  <1>3. dials' \in [Addresses -> Nat]
    BY <1>1
  <1>4. dialed_addresses' = UNION {discovered_with_addresses'[r] : r \in Peers}
    BY <1>1, <1>2 DEF DialsMatchDiscovered
  <1>5. \A x \in Addresses : dials'[x] = IF x \in dialed_addresses' THEN 1 ELSE 0
    BY <1>1 DEF DialsMatchDiscovered
  <1> QED BY <1>1, <1>2, <1>3, <1>4, <1>5 DEF DialsMatchDiscovered

(* When new entries of p are announced, and the only update that is gone   *)
(* told of the addresses a of p, which are now discovered, every route of  *)
(* the table is still discovered or announced.                             *)
LEMMA AnnounceStep ==
  ASSUME RouteTypes, NoRouteMissed, NEW p \in Peers, NEW a \in SUBSET Addresses,
         NEW new \in SUBSET Addresses, NEW pending \in SUBSET updates,
         \A w \in updates : w \in pending \/ (w.peer = p /\ w.addresses = a),
         pending = updates \/ a \subseteq discovered_with_addresses'[p],
         \A r \in Peers : discovered_with_addresses[r] \subseteq discovered_with_addresses'[r],
         book' = [book EXCEPT ![p] = @ \cup new],
         updates' = pending \cup RoutingUpdates(p, book[p], new)
  PROVE  /\ book' \in [Peers -> SUBSET Addresses]
         /\ updates' \subseteq [peer : Peers, addresses : (SUBSET Addresses) \ {{}}]
         /\ NoRouteMissed'
  <1>1. /\ book' \in [Peers -> SUBSET Addresses] /\ book'[p] = book[p] \cup new
        /\ \A r \in Peers : r # p => book'[r] = book[r]
    BY DEF RouteTypes
  <1>2. RoutingUpdates(p, book[p], new) \subseteq [peer : Peers, addresses : (SUBSET Addresses) \ {{}}]
    <2> SUFFICES ASSUME NEW x \in new
                 PROVE  Update(p, book[p] \cup {x}) \in
                          [peer : Peers, addresses : (SUBSET Addresses) \ {{}}]
      BY DEF RoutingUpdates
    <2>1. book[p] \cup {x} \in (SUBSET Addresses) \ {{}}
      BY DEF RouteTypes
    <2> QED BY <2>1 DEF Update
  <1>3. updates' \subseteq [peer : Peers, addresses : (SUBSET Addresses) \ {{}}]
    BY <1>2 DEF RouteTypes
  <1>4. ASSUME NEW r \in Peers, NEW x \in book'[r]
        PROVE  \/ x \in discovered_with_addresses'[r]
               \/ \E u \in updates' : u.peer = r /\ x \in u.addresses
    <2>1. CASE r = p /\ x \in new
      <3> DEFINE u == Update(p, book[p] \cup {x})
      <3>1. u \in updates'
        BY <2>1 DEF RoutingUpdates
      <3>2. u.peer = r /\ x \in u.addresses
        BY <2>1 DEF Update
      <3> HIDE DEF u
      <3> QED BY <3>1, <3>2
    <2>2. CASE x \in book[r] /\ x \in discovered_with_addresses[r]
      BY <2>2
    <2>3. CASE x \in book[r] /\ \E u \in updates : u.peer = r /\ x \in u.addresses
      <3>1. PICK u \in updates : u.peer = r /\ x \in u.addresses
        BY <2>3
      <3>2. CASE u \in pending
        BY <3>1, <3>2
      <3>3. CASE u \notin pending
        BY <3>1, <3>3
      <3> QED BY <3>2, <3>3
    <2>4. (r = p /\ x \in new) \/ x \in book[r]
      BY <1>1
    <2> QED BY <2>1, <2>2, <2>3, <2>4 DEF NoRouteMissed
  <1> QED BY <1>1, <1>3, <1>4 DEF NoRouteMissed

(* The parts of the invariant that routes and reports are about.           *)
RoutePart ==
  RouteTypes /\ TargetTypes /\ DialsMatchDiscovered /\ NoRouteMissed /\ TargetConsistent

(* Steps that leave the routes and the target alone.                       *)
LEMMA RouteStutter ==
  ASSUME RoutePart, UNCHANGED <<discovered_with_addresses, dialVars, kadVars, target>>,
         peer_details' = peer_details
  PROVE  RoutePart'
  <1> USE DEF dialVars, kadVars
  <1>1. RouteTypes' /\ DialsMatchDiscovered' /\ NoRouteMissed'
    BY DEF RoutePart, RouteTypes, DialsMatchDiscovered, NoRouteMissed
  <1>2. TargetTypes' /\ TargetConsistent'
    BY NoteStutter DEF RoutePart
  <1> QED BY <1>1, <1>2 DEF RoutePart

(* Both handlers of a reported route: the addresses a of p are noted for   *)
(* the target, added to the table, dialed and recorded.                    *)
LEMMA ReportStep ==
  ASSUME RoutePart, NEW p \in Peers, NEW a \in (SUBSET Addresses) \ {{}},
         NEW pending \in SUBSET updates,
         \A w \in updates : w \in pending \/ (w.peer = p /\ w.addresses = a),
         target' = IF p = Target THEN note_target_addresses(a) ELSE target,
         peer_details' = peer_details,
         add_address(p, a, pending), force_dial(a), Discovered(p, a)
  PROVE  RoutePart'
  <1>1. RouteTypes /\ TargetTypes /\ DialsMatchDiscovered /\ NoRouteMissed /\ TargetConsistent
    BY DEF RoutePart
  <1>2. /\ discovered_with_addresses' \in [Peers -> SUBSET Addresses]
        /\ dialed_addresses' \subseteq Addresses
        /\ dials' \in [Addresses -> Nat]
        /\ DialsMatchDiscovered'
        /\ discovered_with_addresses'[p] = discovered_with_addresses[p] \cup a
        /\ \A r \in Peers : r # p => discovered_with_addresses'[r] = discovered_with_addresses[r]
    BY <1>1, DialEffect
  <1>3. PICK new \in SUBSET (a \ (dialed_addresses \cup book[p])) :
          /\ book' = [book EXCEPT ![p] = @ \cup new]
          /\ updates' = pending \cup RoutingUpdates(p, book[p], new)
    BY DEF add_address
  <1>4. /\ \A r \in Peers : discovered_with_addresses[r] \subseteq discovered_with_addresses'[r]
        /\ a \subseteq discovered_with_addresses'[p] /\ new \in SUBSET Addresses
        /\ a \in SUBSET Addresses
    BY <1>2
  <1>5. /\ book' \in [Peers -> SUBSET Addresses]
        /\ updates' \subseteq [peer : Peers, addresses : (SUBSET Addresses) \ {{}}]
        /\ NoRouteMissed'
    BY <1>1, <1>3, <1>4, AnnounceStep
  <1>6. TargetTypes' /\ TargetConsistent'
    <2>1. CASE p = Target
      <3>1. target' = note_target_addresses(a) /\ a # {}
        BY <2>1
      <3>2. discovered_with_addresses'[Target] \subseteq discovered_with_addresses[Target] \cup a
        BY <2>1, <1>2
      <3> QED BY <3>1, <3>2, <1>1, <1>4, NoteStep
    <2>2. CASE p # Target
      <3>1. target' = target
        BY <2>2
      <3>2. discovered_with_addresses'[Target] = discovered_with_addresses[Target]
        BY <2>2, <1>2, CrawlerAssumption
      <3> QED BY <3>1, <3>2, <1>1, NoteStutter
    <2> QED BY <2>1, <2>2
  <1> QED BY <1>2, <1>5, <1>6 DEF RoutePart, RouteTypes

-----------------------------------------------------------------------------
(* Every step preserves what routes and reports are about.                 *)
LEMMA RouteStep == RoutePart /\ [Next]_vars => RoutePart'
  <1> SUFFICES ASSUME RoutePart, [Next]_vars PROVE RoutePart'
    OBVIOUS
  <1>1. /\ RouteTypes /\ TargetTypes /\ DialsMatchDiscovered /\ NoRouteMissed
        /\ TargetConsistent
    BY DEF RoutePart
  <1>2. CASE Start \/ ResubmitTick \/ Timeout
    BY <1>2, RouteStutter DEF Start, ResubmitTick, Timeout
  <1>3. ASSUME NEW id \in pool.running, NEW a \in SUBSET Addresses, GetClosestPeers(id, a)
        PROVE  RoutePart'
    <2>1. /\ UNCHANGED <<discovered_with_addresses, peer_details, dialVars, kadVars>>
          /\ target' = IF a = {} THEN target ELSE note_target_addresses(a)
      BY <1>3 DEF GetClosestPeers
    <2>2. CASE a = {}
      BY <2>1, <2>2, RouteStutter
    <2>3. CASE a # {}
      <3>1. TargetTypes' /\ TargetConsistent'
        BY <2>1, <2>3, <1>1, NoteStep
      <3>2. RouteTypes' /\ DialsMatchDiscovered' /\ NoRouteMissed'
        BY <2>1, <1>1
        DEF RouteTypes, DialsMatchDiscovered, NoRouteMissed, dialVars, kadVars
      <3> QED BY <3>1, <3>2 DEF RoutePart
    <2> QED BY <2>2, <2>3
  <1>4. ASSUME NEW u \in updates, RoutingUpdated(u) PROVE RoutePart'
    <2> DEFINE p == u.peer
               a == u.addresses
               pending == updates \ {u}
    <2>1. p \in Peers /\ a \in (SUBSET Addresses) \ {{}} /\ pending \in SUBSET updates
      BY <1>1 DEF RouteTypes
    <2>2. \A w \in updates : w \in pending \/ (w.peer = p /\ w.addresses = a)
      OBVIOUS
    <2>3. /\ target' = IF p = Target THEN note_target_addresses(a) ELSE target
          /\ peer_details' = peer_details
          /\ add_address(p, a, pending) /\ force_dial(a) /\ Discovered(p, a)
      BY <1>4 DEF RoutingUpdated
    <2> HIDE DEF p, a, pending
    <2> QED BY <2>1, <2>2, <2>3, ReportStep
  <1>5. ASSUME NEW p \in Peers, NEW x \in Addresses, RoutablePeer(p, x) PROVE RoutePart'
    <2> DEFINE a == {x}
               pending == updates
    <2>1. a \in (SUBSET Addresses) \ {{}} /\ pending \in SUBSET updates
      OBVIOUS
    <2>2. \A w \in updates : w \in pending \/ (w.peer = p /\ w.addresses = a)
      OBVIOUS
    <2>3. /\ target' = IF p = Target THEN note_target_addresses(a) ELSE target
          /\ peer_details' = peer_details
          /\ add_address(p, a, pending) /\ force_dial(a) /\ Discovered(p, a)
      BY <1>5 DEF RoutablePeer
    <2> HIDE DEF a, pending
    <2> QED BY <2>1, <2>2, <2>3, ReportStep
  <1>6. ASSUME NEW p \in Peers, NEW x \in Addresses, TableGrows(p, x) PROVE RoutePart'
    <2>1. /\ book' = [book EXCEPT ![p] = @ \cup {x}]
          /\ updates' = updates \cup RoutingUpdates(p, book[p], {x})
          /\ UNCHANGED <<discovered_with_addresses, peer_details, dialVars, target>>
      BY <1>6 DEF TableGrows
    <2>2. /\ {} \in SUBSET Addresses /\ {x} \in SUBSET Addresses /\ updates \in SUBSET updates
          /\ \A w \in updates : w \in updates \/ (w.peer = p /\ w.addresses = {})
          /\ \A r \in Peers : discovered_with_addresses[r] \subseteq discovered_with_addresses'[r]
      BY <2>1
    <2>3. /\ book' \in [Peers -> SUBSET Addresses]
          /\ updates' \subseteq [peer : Peers, addresses : (SUBSET Addresses) \ {{}}]
          /\ NoRouteMissed'
      BY <1>1, <2>1, <2>2, AnnounceStep
    <2>4. TargetTypes' /\ TargetConsistent'
      BY <1>1, <2>1, NoteStutter
    <2>5. RouteTypes' /\ DialsMatchDiscovered'
      <3>1. RouteTypes'
        BY <1>1, <2>1, <2>3 DEF RouteTypes, dialVars
      <3>2. DialsMatchDiscovered'
        BY <1>1, <2>1 DEF DialsMatchDiscovered, dialVars
      <3> QED BY <3>1, <3>2
    <2> QED BY <2>3, <2>4, <2>5 DEF RoutePart
  <1>7. ASSUME NEW p \in Peers, NEW x \in Addresses, TableShrinks(p, x) PROVE RoutePart'
    <2>1. /\ book' = [book EXCEPT ![p] = @ \ {x}]
          /\ UNCHANGED <<discovered_with_addresses, peer_details, dialVars, updates, target>>
      BY <1>7 DEF TableShrinks
    <2>2. /\ book' \in [Peers -> SUBSET Addresses]
          /\ \A r \in Peers : book'[r] \subseteq book[r]
      BY <1>1, <2>1 DEF RouteTypes
    <2>3. NoRouteMissed'
      BY <1>1, <2>1, <2>2 DEF NoRouteMissed
    <2>4. TargetTypes' /\ TargetConsistent'
      BY <1>1, <2>1, NoteStutter
    <2>5. RouteTypes' /\ DialsMatchDiscovered'
      BY <1>1, <2>1, <2>2 DEF RouteTypes, DialsMatchDiscovered, dialVars
    <2> QED BY <2>3, <2>4, <2>5 DEF RoutePart
  <1>8. ASSUME NEW p \in Peers, Identified(p) PROVE RoutePart'
    <2>1. /\ peer_details' = peer_details \cup {p}
          /\ target' = IF p = Target THEN [target EXCEPT !.identified = TRUE] ELSE target
          /\ UNCHANGED <<discovered_with_addresses, dialVars, kadVars>>
      BY <1>8 DEF Identified
    <2>2. CASE p = Target
      <3>1. target' = [target EXCEPT !.identified = TRUE]
        BY <2>1, <2>2
      <3>2. /\ target'.identified = TRUE /\ target'.dht_reports = target.dht_reports
            /\ target'.known_addresses = target.known_addresses
        BY <3>1, <1>1 DEF TargetTypes
      <3>3. TargetTypes'
        BY <3>1, <1>1 DEF TargetTypes
      <3>4. Target \in peer_details'
        BY <2>1, <2>2
      <3>5. TargetConsistent'
        BY <3>2, <3>4, <2>1, <1>1, Zenon DEF TargetConsistent
      <3> QED BY <3>3, <3>5, <2>1, <1>1
          DEF RoutePart, RouteTypes, DialsMatchDiscovered, NoRouteMissed, dialVars, kadVars
    <2>3. CASE p # Target
      <3>1. target' = target /\ (Target \in peer_details' <=> Target \in peer_details)
        BY <2>1, <2>3
      <3>2. TargetTypes' /\ TargetConsistent'
        BY <3>1, <2>1, <1>1, Zenon DEF TargetTypes, TargetConsistent
      <3> QED BY <3>2, <2>1, <1>1
          DEF RoutePart, RouteTypes, DialsMatchDiscovered, NoRouteMissed, dialVars, kadVars
    <2> QED BY <2>2, <2>3
  <1>9. CASE \E p \in Peers : Dialing(p) \/ \E role \in Roles \cup {NoRole} :
                                              CustomProtocolOpen(p, role)
    BY <1>9, RouteStutter DEF Dialing, CustomProtocolOpen
  <1>10. CASE UNCHANGED vars
    BY <1>10, RouteStutter DEF vars
  <1> QED BY <1>2, <1>3, <1>4, <1>5, <1>6, <1>7, <1>8, <1>9, <1>10 DEF Next

(* Every step keeps the types of the remaining fields.                     *)
LEMMA PeerStep == PeerTypes /\ [Next]_vars => PeerTypes'
  <1> SUFFICES ASSUME PeerTypes, [Next]_vars PROVE PeerTypes'
    OBVIOUS
  <1> USE CrawlerAssumption DEF PeerTypes, toldVars
  <1>1. CASE Start \/ ResubmitTick \/ Timeout
    BY <1>1 DEF Start, ResubmitTick, Timeout
  <1>2. CASE \E id \in pool.running, a \in SUBSET Addresses : GetClosestPeers(id, a)
    BY <1>2 DEF GetClosestPeers
  <1>3. CASE \E u \in updates : RoutingUpdated(u)
    BY <1>3 DEF RoutingUpdated
  <1>4. CASE \E p \in Peers, x \in Addresses :
               RoutablePeer(p, x) \/ TableGrows(p, x) \/ TableShrinks(p, x)
    BY <1>4 DEF RoutablePeer, TableGrows, TableShrinks
  <1>5. CASE \E p \in Peers, role \in Roles \cup {NoRole} : CustomProtocolOpen(p, role)
    BY <1>5 DEF CustomProtocolOpen
  <1>6. CASE \E p \in Peers : Identified(p) \/ Dialing(p)
    BY <1>6 DEF Identified, Dialing
  <1>7. CASE UNCHANGED vars
    BY <1>7 DEF vars
  <1> QED BY <1>1, <1>2, <1>3, <1>4, <1>5, <1>6, <1>7 DEF Next

(* A fresh crawler, beside a table that holds the bootnodes.               *)
LEMMA InitGood == Init => PoolPart /\ PeerTypes /\ RoutePart
  <1> SUFFICES ASSUME Init PROVE PoolPart /\ PeerTypes /\ RoutePart
    OBVIOUS
  <1> USE CrawlerAssumption DEF Init
  <1>1. PoolPart
    BY FS_EmptySet DEF NewPool, PoolPart, Pool, PoolFull
  <1>2. PeerTypes
    BY DEF PeerTypes
  <1>3. ASSUME NEW u \in updates
        PROVE  u \in [peer : Peers, addresses : (SUBSET Addresses) \ {{}}]
    <2>1. PICK p \in Peers : u \in RoutingUpdates(p, {}, Bootnodes[p])
      BY <1>3
    <2>2. PICK x \in Bootnodes[p] : u = Update(p, {} \cup {x})
      BY <2>1 DEF RoutingUpdates
    <2>3. {} \cup {x} \in (SUBSET Addresses) \ {{}}
      OBVIOUS
    <2> QED BY <2>2, <2>3 DEF Update
  <1>4. RouteTypes
    BY <1>3 DEF RouteTypes
  <1>5. TargetTypes
    BY DEF TargetTypes
  <1>6. DialsMatchDiscovered
    BY DEF DialsMatchDiscovered
  <1>7. NoRouteMissed
    <2> SUFFICES ASSUME NEW p \in Peers, NEW x \in Bootnodes[p]
                 PROVE  \E u \in updates : u.peer = p /\ x \in u.addresses
      BY DEF NoRouteMissed
    <2>1. Update(p, {} \cup {x}) \in RoutingUpdates(p, {}, Bootnodes[p])
      BY DEF RoutingUpdates
    <2>2. Update(p, {} \cup {x}).peer = p /\ x \in Update(p, {} \cup {x}).addresses
      BY DEF Update
    <2>3. Update(p, {} \cup {x}) \in updates
      BY <2>1
    <2> QED BY <2>2, <2>3
  <1>8. TargetConsistent
    BY DEF TargetConsistent
  <1> QED BY <1>1, <1>2, <1>4, <1>5, <1>6, <1>7, <1>8 DEF RoutePart

-----------------------------------------------------------------------------
(* The invariant of the crawlers, for any bound on the queries, any peers, *)
(* any addresses and any bootnodes.                                        *)
THEOREM CrawlerInvariant == Spec => []IInv
  <1>1. PoolPart /\ PeerTypes /\ RoutePart <=> IInv
    BY Parts DEF RoutePart
  <1>2. Init => IInv
    BY <1>1, InitGood
  <1>3. IInv /\ [Next]_vars => IInv'
    <2> SUFFICES ASSUME IInv, [Next]_vars PROVE IInv'
      OBVIOUS
    <2>1. PoolPart' /\ PeerTypes' /\ RoutePart'
      BY <1>1, PoolStep, PeerStep, RouteStep
    <2>2. IInv'
      BY <2>1
      DEF IInv, TypeOK, PoolPart, RoutePart, RouteTypes, PeerTypes, TargetTypes
    <2> QED BY <2>2
  <1> QED BY <1>2, <1>3, PTL DEF Spec

(* Every variable of the crawlers keeps its type; in particular a tracked  *)
(* query id is one that Kademlia has given out.                            *)
THEOREM CrawlerTypes == Spec => []TypeOK
  <1>1. IInv => TypeOK
    BY DEF IInv
  <1> QED BY <1>1, CrawlerInvariant, PTL

(* top_up_queries keeps exactly MAX_QUERIES queries in flight: the pool    *)
(* never runs short between two events, and holds no dead id.              *)
THEOREM PoolStaysFull == Spec => []PoolFull
  <1>1. IInv => PoolFull
    BY DEF IInv
  <1> QED BY <1>1, CrawlerInvariant, PTL

(* force_dial dials every discovered address exactly once, whoever reports *)
(* it and for whichever peers.                                             *)
THEOREM CrawlDialsOnce == Spec => []DialsMatchDiscovered
  <1>1. IInv => DialsMatchDiscovered
    BY DEF IInv
  <1> QED BY <1>1, CrawlerInvariant, PTL

(* Every route in Kademlia's table is discovered or on its way.            *)
THEOREM CrawlMissesNoRoute == Spec => []NoRouteMissed
  <1>1. IInv => NoRouteMissed
    BY DEF IInv
  <1> QED BY <1>1, CrawlerInvariant, PTL

(* The summary of discover_peer agrees with what was crawled.              *)
THEOREM TargetSummary == Spec => []TargetConsistent
  <1>1. IInv => TargetConsistent
    BY DEF IInv
  <1> QED BY <1>1, CrawlerInvariant, PTL

-----------------------------------------------------------------------------
(* The identity lookup.                                                    *)
OwnerStashes == {KeyOwner[a] : a \in Authority} \ {NoAccount}

Decoded(s) == decode_display_name(IdentityOf[s])

(* What the calls have found out when they wait for an answer.  `Found' is *)
(* the stashes with a name of their own: the authority that stash_to_auth  *)
(* keeps for such a stash has that name, and nobody else has one.          *)
Found == {s \in OwnerStashes : Decoded(s) # NoName}

Chosen(a) == KeyOwner[a] # NoAccount /\ identity.stash_to_auth[KeyOwner[a]] = a

LookupInv ==
  /\ chain \in Chain
  /\ identity = [step |-> identity.step, names |-> identity.names,
                 stash_accounts |-> identity.stash_accounts,
                 stash_to_auth |-> identity.stash_to_auth, missing |-> identity.missing,
                 parent_to_children |-> identity.parent_to_children,
                 failed |-> identity.failed]
  /\ identity.step \in {"KeyOwner", "IdentityOf"} =>
       identity.names = NoNames /\ identity.missing = {}
  /\ identity.step \in {"IdentityOf", "SuperOf", "Parents"} =>
       identity.stash_to_auth \in Inverses(KeyOwner)
  /\ identity.step \in {"SuperOf", "Parents"} =>
       /\ identity.missing = OwnerStashes \ Found
       /\ \A a \in Authority :
            identity.names[a] = IF KeyOwner[a] \in Found /\ Chosen(a)
                                THEN Decoded(KeyOwner[a]) ELSE NoName
  /\ identity.step = "Parents" =>
       identity.parent_to_children = {s \in identity.missing : SuperOf[s] # NoAccount}

IdentityInv == LookupInv /\ IdentityTypeOK /\ NamesExact

LEMMA ChainTyped ==
  ASSUME chain \in Chain
  PROVE  /\ \A a \in Authority : KeyOwner[a] \in Account \cup {NoAccount}
         /\ \A s \in Account : SuperOf[s] \in Account \cup {NoAccount}
         /\ \A s \in Account : IdentityOf[s] \in Registration \cup {NoRegistration}
         /\ OwnerStashes \subseteq Account
         /\ KeyOwner \in [Authority -> Account \cup {NoAccount}]
  <1>1. /\ KeyOwner \in [Authority -> Account \cup {NoAccount}]
        /\ SuperOf \in [Account -> Account \cup {NoAccount}]
        /\ IdentityOf \in [Account -> Registration \cup {NoRegistration}]
    BY DEF Chain, KeyOwner, SuperOf, IdentityOf
  <1> QED BY <1>1 DEF OwnerStashes

(* The two attempts at decoding: they find the display name of a legible   *)
(* registration, and something wherever there is one.                      *)
LEMMA DecodedIs ==
  ASSUME chain \in Chain, NEW s \in Account
  PROVE  /\ Decoded(s) \in Name \cup {NoName}
         /\ Legible(s) => Decoded(s) = Displayed(s)
         /\ Displayed(s) # NoName => Decoded(s) # NoName
  <1>1. IdentityOf[s] \in Registration \cup {NoRegistration} /\ NoName \notin Name /\ Garbled \in Name
    BY ChainTyped, IdentityAssumption
  <1>2. PICK r : r = IdentityOf[s]
    OBVIOUS
  <1>3. CASE r = NoRegistration
    BY <1>2, <1>3 DEF Decoded, decode_display_name, Displayed
  <1>4. CASE r # NoRegistration
    <2>1. /\ r.layout \in {"simple", "legacy"}
          /\ r.display \in Name \cup {NoName} /\ r.legal \in Name \cup {NoName}
          /\ r.additional \in 0 .. 63 /\ r.rest \in Nat
      BY <1>1, <1>2, <1>4 DEF Registration
    <2>2. PICK string \in BOOLEAN :
            string <=> 4 * r.additional \in 1 .. 33 /\ 4 * r.additional - 1 <= r.rest
      OBVIOUS
    <2>3. /\ decode_registration_display(r, FALSE)
               = (IF r.layout = "simple" THEN r.display ELSE IF string THEN Garbled ELSE NoName)
          /\ decode_registration_display(r, TRUE)
               = (IF r.layout = "legacy" THEN r.display ELSE r.legal)
      BY <2>1, <2>2 DEF decode_registration_display, decode_data_as_string
    <2>4. /\ Displayed(s) = r.display
          /\ Legible(s) <=> (IF r.layout = "legacy" THEN ~string
                             ELSE r.display # NoName \/ r.legal = NoName)
      <3>1. ~string <=> 4 * r.additional \notin 1 .. 33 \/ 4 * r.additional > r.rest + 1
        BY <2>1, <2>2
      <3> QED BY <1>2, <1>4, <3>1 DEF Displayed, Legible
    <2>5. Decoded(s) = IF decode_registration_display(r, FALSE) # NoName
                       THEN decode_registration_display(r, FALSE)
                       ELSE decode_registration_display(r, TRUE)
      BY <1>2, <1>4 DEF Decoded, decode_display_name
    <2> QED BY <1>1, <2>1, <2>3, <2>4, <2>5
  <1> QED BY <1>3, <1>4

(* An inverse leads back to the stash.                                     *)
LEMMA InverseOf ==
  ASSUME chain \in Chain, NEW f \in Inverses(KeyOwner)
  PROVE  /\ DOMAIN f = OwnerStashes
         /\ \A s \in OwnerStashes : f[s] \in Authority /\ KeyOwner[f[s]] = s
         /\ \A a \in Authority : KeyOwner[a] # NoAccount => KeyOwner[a] \in OwnerStashes
  BY DEF Inverses, OwnerStashes

(* Who is named by a batch of display names.                               *)
LEMMA NamedIs ==
  ASSUME chain \in Chain, NEW f \in Inverses(KeyOwner), NEW names,
         NEW display, DOMAIN display \subseteq OwnerStashes, NEW a \in Authority
  PROVE  Named(names, f, display)[a]
           = IF KeyOwner[a] \in DOMAIN display /\ f[KeyOwner[a]] = a
             THEN display[KeyOwner[a]] ELSE names[a]
  <1>1. \A s \in DOMAIN display : f[s] = a => s = KeyOwner[a]
    BY InverseOf
  <1>2. CASE KeyOwner[a] \in DOMAIN display /\ f[KeyOwner[a]] = a
    <2>1. (CHOOSE s \in DOMAIN display : f[s] = a) = KeyOwner[a]
      BY <1>1, <1>2
    <2> QED BY <1>2, <2>1 DEF Named
  <1>3. CASE ~(KeyOwner[a] \in DOMAIN display /\ f[KeyOwner[a]] = a)
    <2>1. ~\E s \in DOMAIN display : f[s] = a
      BY <1>1, <1>3
    <2> QED BY <1>3, <2>1 DEF Named
  <1> QED BY <1>2, <1>3

(* The names of the stashes themselves are right.                          *)
LEMMA OwnNameFound ==
  ASSUME chain \in Chain, NEW a \in Authority, KeyOwner[a] \in Found, LegibleChain(a)
  PROVE  Decoded(KeyOwner[a]) = OwnName(a)
  <1>1. KeyOwner[a] \in Account /\ KeyOwner[a] # NoAccount /\ Decoded(KeyOwner[a]) # NoName
    BY ChainTyped DEF Found, OwnerStashes
  <1>2. Legible(KeyOwner[a])
    BY <1>1 DEF LegibleChain
  <1>3. Decoded(KeyOwner[a]) = Displayed(KeyOwner[a])
    BY <1>1, <1>2, DecodedIs
  <1> QED BY <1>1, <1>3 DEF OwnName

(* And so are the names of the parents.                                    *)
LEMMA OwnNameParent ==
  ASSUME chain \in Chain, NEW a \in Authority, KeyOwner[a] \in OwnerStashes \ Found,
         SuperOf[KeyOwner[a]] # NoAccount
  PROVE  /\ LegibleChain(a) => OwnName(a) = Decoded(SuperOf[KeyOwner[a]])
         /\ OwnName(a) # NoName => Decoded(SuperOf[KeyOwner[a]]) # NoName
  <1>1. PICK s : s = KeyOwner[a]
    OBVIOUS
  <1>2. s \in Account /\ s # NoAccount /\ Decoded(s) = NoName /\ SuperOf[s] \in Account
    BY <1>1, ChainTyped DEF Found, OwnerStashes
  <1>3. Displayed(s) = NoName
    BY <1>2, DecodedIs
  <1>4. OwnName(a) = Displayed(SuperOf[s])
    BY <1>1, <1>2, <1>3 DEF OwnName
  <1>5. LegibleChain(a) => Legible(SuperOf[s])
    BY <1>1, <1>2 DEF LegibleChain
  <1> QED BY <1>1, <1>2, <1>4, <1>5, DecodedIs

(* A stash that has no name and no parent.                                 *)
LEMMA OwnNameNone ==
  ASSUME chain \in Chain, NEW a \in Authority, OwnName(a) # NoName
  PROVE  /\ KeyOwner[a] \in OwnerStashes
         /\ KeyOwner[a] \notin Found => SuperOf[KeyOwner[a]] # NoAccount
  <1>1. KeyOwner[a] # NoAccount
    BY DEF OwnName
  <1>2. KeyOwner[a] \in OwnerStashes /\ KeyOwner[a] \in Account
    BY <1>1, ChainTyped DEF OwnerStashes
  <1>3. ASSUME KeyOwner[a] \notin Found PROVE SuperOf[KeyOwner[a]] # NoAccount
    <2>1. Displayed(KeyOwner[a]) = NoName
      BY <1>2, <1>3, DecodedIs DEF Found
    <2> QED BY <1>1, <2>1 DEF OwnName
  <1> QED BY <1>2, <1>3

(* The storage stays as it is, and so does all that is read from it.       *)
LEMMA ChainKept ==
  ASSUME chain' = chain
  PROVE  /\ KeyOwner' = KeyOwner /\ SuperOf' = SuperOf /\ IdentityOf' = IdentityOf
         /\ OwnerStashes' = OwnerStashes /\ Found' = Found
         /\ Inverses(KeyOwner)' = Inverses(KeyOwner)
         /\ \A a : LegibleChain(a)' = LegibleChain(a) /\ OwnName(a)' = OwnName(a)
         /\ \A s : Decoded(s)' = Decoded(s)
  <1>1. KeyOwner' = KeyOwner /\ SuperOf' = SuperOf /\ IdentityOf' = IdentityOf
    BY DEF KeyOwner, SuperOf, IdentityOf
  <1>2. \A s : Decoded(s)' = Decoded(s) /\ Displayed(s)' = Displayed(s) /\ Legible(s)' = Legible(s)
    BY <1>1 DEF Decoded, decode_display_name, decode_registration_display, decode_data_as_string,
           Displayed, Legible
  <1>3. OwnerStashes' = OwnerStashes /\ Inverses(KeyOwner)' = Inverses(KeyOwner)
    BY <1>1 DEF OwnerStashes, Inverses
  <1>4. Found' = Found
    BY <1>2, <1>3 DEF Found
  <1>5. \A a : LegibleChain(a)' = LegibleChain(a) /\ OwnName(a)' = OwnName(a)
    BY <1>1, <1>2 DEF LegibleChain, OwnName
  <1> QED BY <1>1, <1>2, <1>3, <1>4, <1>5

(* Every return hands over names that are right, and all of them when no   *)
(* call failed.                                                            *)
LEMMA Returned ==
  ASSUME chain \in Chain, chain' = chain,
         NEW names \in [Authority -> Name \cup {NoName}], NEW stash \in {NoStash, KeyOwner},
         NEW failed, Return(names, stash, failed),
         \A a \in Authority : names[a] # NoName /\ LegibleChain(a) => names[a] = OwnName(a),
         ~failed => \A a \in Authority : OwnName(a) # NoName =>
                      \E b \in Authority : KeyOwner[b] = KeyOwner[a] /\ names[b] # NoName
  PROVE  IdentityInv'
  <1>1. identity' = [step |-> "done", names |-> names, stash_accounts |-> stash,
                     stash_to_auth |-> NoOwner, missing |-> {}, parent_to_children |-> {},
                     failed |-> failed]
    BY DEF Return, Result
  <1>2. LookupInv'
    BY <1>1 DEF LookupInv
  <1>3. IdentityTypeOK'
    BY <1>1, ChainKept DEF IdentityTypeOK, NoStash
  <1>4. /\ identity'.step = "done" /\ identity'.names = names /\ identity'.failed = failed
    BY <1>1
  <1>5. NamesExact'
    BY <1>4, ChainKept DEF NamesExact
  <1> QED BY <1>2, <1>3, <1>5 DEF IdentityInv

LEMMA CallFailsKeeps ==
  ASSUME IdentityInv, chain' = chain, CallFails
  PROVE  IdentityInv'
  <1>1. Return(identity.names, identity.stash_accounts, TRUE)
    BY DEF CallFails
  <1> QED BY <1>1, Returned DEF IdentityInv, LookupInv, IdentityTypeOK, NamesExact

LEMMA KeyOwnerAnswersKeeps ==
  ASSUME IdentityInv, chain' = chain, KeyOwnerAnswers
  PROVE  IdentityInv'
  <1>0. chain \in Chain
    BY DEF IdentityInv, LookupInv
  <1>1. CASE KeyOwner = NoStash
    <2>1. Return(NoNames, NoStash, FALSE)
      BY <1>1 DEF KeyOwnerAnswers
    <2>2. \A a \in Authority : OwnName(a) = NoName
      BY <1>1 DEF NoStash, OwnName
    <2>3. NoNames \in [Authority -> Name \cup {NoName}]
      BY DEF NoNames
    <2>4. \A a \in Authority : NoNames[a] = NoName
      BY DEF NoNames
    <2> QED BY <1>0, <2>1, <2>2, <2>3, <2>4, Returned
  <1>2. CASE KeyOwner # NoStash
    <2>1. PICK inverse \in Inverses(KeyOwner) :
            identity' = [identity EXCEPT !.step = "IdentityOf", !.stash_accounts = KeyOwner,
                                         !.stash_to_auth = inverse]
      BY <1>2 DEF KeyOwnerAnswers
    <2>2. /\ identity' = [step |-> "IdentityOf", names |-> identity.names,
                          stash_accounts |-> KeyOwner,
                          stash_to_auth |-> inverse, missing |-> identity.missing,
                          parent_to_children |-> identity.parent_to_children,
                          failed |-> identity.failed]
      BY <2>1 DEF IdentityInv, LookupInv
    <2>3. identity.names = NoNames /\ identity.missing = {} /\ identity.parent_to_children = {}
      BY DEF KeyOwnerAnswers, At, IdentityInv, LookupInv, IdentityTypeOK
    <2>4. LookupInv'
      BY <1>0, <2>2, <2>3, ChainKept DEF LookupInv
    <2>5. IdentityTypeOK'
      BY <2>2, <2>3, ChainKept DEF IdentityTypeOK, NoNames
    <2>6. NamesExact'
      BY <2>2, <2>3, ChainKept DEF NamesExact, NoNames
    <2> QED BY <2>4, <2>5, <2>6 DEF IdentityInv
  <1> QED BY <1>1, <1>2

(* The names that the stashes' own registrations give.                     *)
LEMMA OwnNames ==
  ASSUME chain \in Chain, NEW f \in Inverses(KeyOwner), NEW names,
         names = Named(NoNames, f, [s \in Found |-> Decoded(s)])
  PROVE  /\ names \in [Authority -> Name \cup {NoName}]
         /\ \A a \in Authority :
              names[a] = IF KeyOwner[a] \in Found /\ f[KeyOwner[a]] = a
                         THEN Decoded(KeyOwner[a]) ELSE NoName
  <1>1. Found \subseteq OwnerStashes /\ Found \subseteq Account
    BY ChainTyped DEF Found
  <1>2. PICK display : display = [s \in Found |-> Decoded(s)]
    OBVIOUS
  <1>3. DOMAIN display = Found /\ \A s \in Found : display[s] = Decoded(s)
    BY <1>2
  <1>4. \A a \in Authority :
          names[a] = IF KeyOwner[a] \in Found /\ f[KeyOwner[a]] = a
                     THEN Decoded(KeyOwner[a]) ELSE NoName
    <2> TAKE a \in Authority
    <2>1. names[a] = IF KeyOwner[a] \in DOMAIN display /\ f[KeyOwner[a]] = a
                     THEN display[KeyOwner[a]] ELSE NoNames[a]
      BY <1>1, <1>2, <1>3, NamedIs
    <2>2. NoNames[a] = NoName
      BY DEF NoNames
    <2> QED BY <1>3, <2>1, <2>2
  <1>5. \A a \in Authority : names[a] \in Name \cup {NoName}
    BY <1>1, <1>4, DecodedIs
  <1>6. names = [a \in Authority |-> names[a]]
    BY DEF Named
  <1> QED BY <1>4, <1>5, <1>6

LEMMA IdentityOfAnswersKeeps ==
  ASSUME IdentityInv, chain' = chain, IdentityOfAnswers
  PROVE  IdentityInv'
  <1>1. /\ chain \in Chain /\ identity.names = NoNames /\ identity.missing = {}
        /\ identity.parent_to_children = {}
        /\ identity.stash_accounts \in {NoStash, KeyOwner}
        /\ identity.stash_to_auth \in Inverses(KeyOwner)
    BY DEF IdentityOfAnswers, At, IdentityInv, LookupInv, IdentityTypeOK
  <1>2. PICK f \in Inverses(KeyOwner) : f = identity.stash_to_auth
    BY <1>1
  <1>3. DOMAIN f = OwnerStashes
    BY <1>1, InverseOf
  <1>4. PICK names : names = Named(NoNames, f, [s \in Found |-> Decoded(s)])
    OBVIOUS
  <1>5. {s \in OwnerStashes : decode_display_name(IdentityOf[s]) # NoName} = Found
    BY DEF Found, Decoded
  <1>6. IF Found = OwnerStashes
        THEN Return(names, identity.stash_accounts, FALSE)
        ELSE identity' = [identity EXCEPT !.step = "SuperOf", !.names = names,
                                          !.missing = OwnerStashes \ Found]
    <2>1. Named(identity.names, identity.stash_to_auth,
                [s \in Found |-> decode_display_name(IdentityOf[s])]) = names
      BY <1>1, <1>2, <1>4 DEF Decoded
    <2> QED BY <1>2, <1>3, <1>5, <2>1 DEF IdentityOfAnswers
  <1>7. names \in [Authority -> Name \cup {NoName}]
    BY <1>1, <1>4, OwnNames
  <1>8. \A a \in Authority :
          names[a] = IF KeyOwner[a] \in Found /\ f[KeyOwner[a]] = a
                     THEN Decoded(KeyOwner[a]) ELSE NoName
    BY <1>1, <1>4, OwnNames
  <1>9. \A a \in Authority : names[a] # NoName /\ LegibleChain(a) => names[a] = OwnName(a)
    BY <1>1, <1>8, OwnNameFound
  <1>10. CASE Found = OwnerStashes
    <2>1. Return(names, identity.stash_accounts, FALSE)
      BY <1>6, <1>10
    <2>2. \A a \in Authority : OwnName(a) # NoName =>
            \E b \in Authority : KeyOwner[b] = KeyOwner[a] /\ names[b] # NoName
      <3> SUFFICES ASSUME NEW a \in Authority, OwnName(a) # NoName
                   PROVE  \E b \in Authority : KeyOwner[b] = KeyOwner[a] /\ names[b] # NoName
        OBVIOUS
      <3>1. KeyOwner[a] \in Found
        BY <1>1, <1>10, OwnNameNone
      <3>2. PICK b \in Authority : b = f[KeyOwner[a]] /\ KeyOwner[b] = KeyOwner[a]
        BY <1>1, <1>10, <3>1, InverseOf
      <3>3. names[b] = Decoded(KeyOwner[a])
        BY <1>8, <3>1, <3>2
      <3> QED BY <3>1, <3>2, <3>3 DEF Found
    <2> QED BY <1>1, <1>7, <1>9, <2>1, <2>2, Returned
  <1>11. CASE Found # OwnerStashes
    <2>1. identity' = [step |-> "SuperOf", names |-> names,
                       stash_accounts |-> identity.stash_accounts,
                       stash_to_auth |-> f, missing |-> OwnerStashes \ Found,
                       parent_to_children |-> {}, failed |-> identity.failed]
      BY <1>1, <1>2, <1>6, <1>11 DEF IdentityInv, LookupInv
    <2>2. /\ identity'.step = "SuperOf" /\ identity'.names = names
          /\ identity'.stash_accounts = identity.stash_accounts
          /\ identity'.stash_to_auth = f /\ identity'.missing = OwnerStashes \ Found
          /\ identity'.parent_to_children = {}
      BY <2>1
    <2>3. \A a : Chosen(a)' <=> KeyOwner[a] # NoAccount /\ f[KeyOwner[a]] = a
      BY <2>2, ChainKept DEF Chosen
    <2>4. \A a \in Authority :
            identity'.names[a] = IF KeyOwner[a] \in Found /\ Chosen(a)'
                                 THEN Decoded(KeyOwner[a]) ELSE NoName
      BY <1>8, <2>2, <2>3 DEF Found, OwnerStashes
    <2>5. LookupInv'
      BY <1>1, <2>1, <2>2, <2>4, ChainKept DEF LookupInv
    <2>6. IdentityTypeOK'
      BY <1>1, <1>3, <1>7, <2>2, ChainKept DEF IdentityTypeOK, NoStash
    <2>7. NamesExact'
      BY <1>9, <2>2, ChainKept DEF NamesExact
    <2> QED BY <2>5, <2>6, <2>7 DEF IdentityInv
  <1> QED BY <1>10, <1>11

LEMMA SuperOfAnswersKeeps ==
  ASSUME IdentityInv, chain' = chain, SuperOfAnswers
  PROVE  IdentityInv'
  <1>1. /\ chain \in Chain
        /\ identity.names \in [Authority -> Name \cup {NoName}]
        /\ identity.stash_accounts \in {NoStash, KeyOwner}
        /\ identity.stash_to_auth \in Inverses(KeyOwner)
        /\ identity.missing = OwnerStashes \ Found
        /\ \A a \in Authority :
             identity.names[a] = IF KeyOwner[a] \in Found /\ Chosen(a)
                                 THEN Decoded(KeyOwner[a]) ELSE NoName
        /\ \A a \in Authority :
             identity.names[a] # NoName /\ LegibleChain(a) => identity.names[a] = OwnName(a)
    BY DEF SuperOfAnswers, At, IdentityInv, LookupInv, IdentityTypeOK, NamesExact
  <1>2. PICK f \in Inverses(KeyOwner) : f = identity.stash_to_auth
    BY <1>1
  <1>3. PICK children : children = {s \in identity.missing : SuperOf[s] # NoAccount}
    OBVIOUS
  <1>4. CASE children = {}
    <2>1. Return(identity.names, identity.stash_accounts, FALSE)
      BY <1>3, <1>4 DEF SuperOfAnswers
    <2>2. \A a \in Authority : OwnName(a) # NoName =>
            \E b \in Authority : KeyOwner[b] = KeyOwner[a] /\ identity.names[b] # NoName
      <3> SUFFICES ASSUME NEW a \in Authority, OwnName(a) # NoName
                   PROVE  \E b \in Authority : KeyOwner[b] = KeyOwner[a] /\ identity.names[b] # NoName
        OBVIOUS
      <3>1. KeyOwner[a] \in Found /\ KeyOwner[a] \in OwnerStashes
        BY <1>1, <1>3, <1>4, OwnNameNone
      <3>2. PICK b \in Authority : b = f[KeyOwner[a]] /\ KeyOwner[b] = KeyOwner[a]
        BY <1>1, <3>1, InverseOf
      <3>3. Chosen(b)
        BY <1>2, <3>1, <3>2 DEF Chosen, OwnerStashes
      <3>4. identity.names[b] = Decoded(KeyOwner[a])
        BY <1>1, <3>1, <3>2, <3>3
      <3> QED BY <3>1, <3>2, <3>4 DEF Found
    <2> QED BY <1>1, <2>1, <2>2, Returned
  <1>5. CASE children # {}
    <2>1. identity' = [identity EXCEPT !.step = "Parents", !.parent_to_children = children]
      BY <1>3, <1>5 DEF SuperOfAnswers
    <2>2. identity' = [step |-> "Parents", names |-> identity.names,
                       stash_accounts |-> identity.stash_accounts,
                       stash_to_auth |-> identity.stash_to_auth, missing |-> identity.missing,
                       parent_to_children |-> children, failed |-> identity.failed]
      BY <2>1 DEF IdentityInv, LookupInv
    <2>3. /\ identity'.step = "Parents" /\ identity'.names = identity.names
          /\ identity'.stash_accounts = identity.stash_accounts
          /\ identity'.stash_to_auth = identity.stash_to_auth
          /\ identity'.missing = identity.missing
          /\ identity'.parent_to_children = children
      BY <2>2
    <2>4. \A a : Chosen(a)' = Chosen(a)
      BY <2>3, ChainKept DEF Chosen
    <2>5. LookupInv'
      BY <1>1, <1>3, <2>2, <2>3, <2>4, ChainKept DEF LookupInv
    <2>6. children \subseteq identity.missing /\ identity.missing \subseteq DOMAIN identity.stash_to_auth
      BY <1>3 DEF IdentityInv, IdentityTypeOK
    <2>7. IdentityTypeOK'
      BY <1>1, <2>3, <2>6, ChainKept DEF IdentityTypeOK, NoStash
    <2>8. NamesExact'
      BY <1>1, <2>3, ChainKept DEF NamesExact
    <2> QED BY <2>5, <2>7, <2>8 DEF IdentityInv
  <1> QED BY <1>4, <1>5

LEMMA ParentsAnswerKeeps ==
  ASSUME IdentityInv, chain' = chain, ParentsAnswer
  PROVE  IdentityInv'
  <1>1. /\ chain \in Chain
        /\ identity.names \in [Authority -> Name \cup {NoName}]
        /\ identity.stash_accounts \in {NoStash, KeyOwner}
        /\ identity.stash_to_auth \in Inverses(KeyOwner)
        /\ identity.parent_to_children = {s \in OwnerStashes \ Found : SuperOf[s] # NoAccount}
        /\ \A a \in Authority :
             identity.names[a] = IF KeyOwner[a] \in Found /\ Chosen(a)
                                 THEN Decoded(KeyOwner[a]) ELSE NoName
        /\ \A a \in Authority :
             identity.names[a] # NoName /\ LegibleChain(a) => identity.names[a] = OwnName(a)
    BY DEF ParentsAnswer, At, IdentityInv, LookupInv, IdentityTypeOK, NamesExact
  <1>2. PICK f \in Inverses(KeyOwner) : f = identity.stash_to_auth
    BY <1>1
  <1>3. PICK found : found = {s \in identity.parent_to_children : Decoded(SuperOf[s]) # NoName}
    OBVIOUS
  <1>4. PICK display : display = [s \in found |-> Decoded(SuperOf[s])]
    OBVIOUS
  <1>5. PICK names : names = Named(identity.names, f, display)
    OBVIOUS
  <1>6. Return(names, identity.stash_accounts, FALSE)
    BY <1>2, <1>3, <1>4, <1>5 DEF ParentsAnswer, Decoded
  <1>7. /\ DOMAIN display = found /\ found \subseteq OwnerStashes
        /\ \A s \in found : display[s] = Decoded(SuperOf[s])
    BY <1>1, <1>3, <1>4
  <1>8. \A a \in Authority :
          names[a] = IF KeyOwner[a] \in found /\ f[KeyOwner[a]] = a
                     THEN Decoded(SuperOf[KeyOwner[a]]) ELSE identity.names[a]
    <2> TAKE a \in Authority
    <2>1. names[a] = IF KeyOwner[a] \in DOMAIN display /\ f[KeyOwner[a]] = a
                     THEN display[KeyOwner[a]] ELSE identity.names[a]
      BY <1>1, <1>5, <1>7, NamedIs
    <2> QED BY <1>7, <2>1
  <1>9. \A s \in found : /\ s \in OwnerStashes \ Found /\ SuperOf[s] # NoAccount
                         /\ SuperOf[s] \in Account /\ Decoded(SuperOf[s]) # NoName
    BY <1>1, <1>3, ChainTyped
  <1>10. names \in [Authority -> Name \cup {NoName}]
    <2>1. names = [a \in Authority |-> names[a]]
      BY <1>5 DEF Named
    <2>2. \A a \in Authority : names[a] \in Name \cup {NoName}
      BY <1>1, <1>8, <1>9, DecodedIs
    <2> QED BY <2>1, <2>2
  <1>11. \A a \in Authority : names[a] # NoName /\ LegibleChain(a) => names[a] = OwnName(a)
    <2> SUFFICES ASSUME NEW a \in Authority, names[a] # NoName, LegibleChain(a)
                 PROVE  names[a] = OwnName(a)
      OBVIOUS
    <2>1. CASE KeyOwner[a] \in found /\ f[KeyOwner[a]] = a
      <3>1. OwnName(a) = Decoded(SuperOf[KeyOwner[a]])
        BY <1>1, <1>9, <2>1, OwnNameParent
      <3> QED BY <1>8, <2>1, <3>1
    <2>2. CASE ~(KeyOwner[a] \in found /\ f[KeyOwner[a]] = a)
      <3>1. names[a] = identity.names[a]
        BY <1>8, <2>2
      <3> QED BY <1>1, <3>1
    <2> QED BY <2>1, <2>2
  <1>12. \A a \in Authority : OwnName(a) # NoName =>
            \E b \in Authority : KeyOwner[b] = KeyOwner[a] /\ names[b] # NoName
    <2> SUFFICES ASSUME NEW a \in Authority, OwnName(a) # NoName
                 PROVE  \E b \in Authority : KeyOwner[b] = KeyOwner[a] /\ names[b] # NoName
      OBVIOUS
    <2>1. KeyOwner[a] \in OwnerStashes /\ (KeyOwner[a] \notin Found => SuperOf[KeyOwner[a]] # NoAccount)
      BY <1>1, OwnNameNone
    <2>2. PICK b \in Authority : b = f[KeyOwner[a]] /\ KeyOwner[b] = KeyOwner[a]
      BY <1>1, <2>1, InverseOf
    <2>3. CASE KeyOwner[a] \in Found
      <3>1. Chosen(b)
        BY <1>2, <2>1, <2>2 DEF Chosen, OwnerStashes
      <3>2. identity.names[b] = Decoded(KeyOwner[a]) /\ Decoded(KeyOwner[a]) # NoName
        BY <1>1, <2>2, <2>3, <3>1 DEF Found
      <3>3. KeyOwner[b] \notin found
        BY <1>9, <2>2, <2>3
      <3> QED BY <1>8, <2>2, <3>2, <3>3
    <2>4. CASE KeyOwner[a] \notin Found
      <3>1. Decoded(SuperOf[KeyOwner[a]]) # NoName
        BY <1>1, <2>1, <2>4, OwnNameParent
      <3>2. KeyOwner[a] \in found
        BY <1>1, <1>3, <2>1, <2>4, <3>1
      <3>3. names[b] = Decoded(SuperOf[KeyOwner[a]])
        BY <1>8, <2>2, <3>2
      <3> QED BY <2>2, <3>1, <3>3
    <2> QED BY <2>3, <2>4
  <1> QED BY <1>1, <1>6, <1>10, <1>11, <1>12, Returned

(* IdentityInv is inductive: what the lookup of the display names has      *)
(* found out is, at every step, a function of the storage.                 *)
THEOREM LookupInvariant == IdentitySpec => []IdentityInv
  <1>1. ASSUME IdentityInit PROVE IdentityInv
    <2>1. chain \in Chain
      BY <1>1, IdentityAssumption DEF IdentityInit
    <2>2. identity = [step |-> "KeyOwner", names |-> NoNames, stash_accounts |-> NoStash,
                      stash_to_auth |-> NoOwner, missing |-> {}, parent_to_children |-> {},
                      failed |-> FALSE]
      BY <1>1 DEF IdentityInit, Result
    <2>3. LookupInv
      BY <2>1, <2>2 DEF LookupInv
    <2>4. IdentityTypeOK
      BY <2>2 DEF IdentityTypeOK, NoNames
    <2>5. NamesExact
      BY <2>2 DEF NamesExact, NoNames
    <2> QED BY <2>3, <2>4, <2>5 DEF IdentityInv
  <1>2. ASSUME IdentityInv, [IdentityNext]_<<chain, identity>> PROVE IdentityInv'
    <2>1. CASE IdentityNext
      BY <1>2, <2>1, CallFailsKeeps, KeyOwnerAnswersKeeps, IdentityOfAnswersKeeps,
         SuperOfAnswersKeeps, ParentsAnswerKeeps DEF IdentityNext, IdentityStep
    <2>2. CASE UNCHANGED <<chain, identity>>
      <3>1. chain' = chain /\ identity' = identity
        BY <2>2
      <3>2. \A a : Chosen(a)' = Chosen(a)
        BY <3>1, ChainKept DEF Chosen
      <3>3. LookupInv'
        BY <1>2, <3>1, <3>2, ChainKept DEF IdentityInv, LookupInv
      <3>4. IdentityTypeOK'
        BY <1>2, <3>1, ChainKept DEF IdentityInv, IdentityTypeOK, NoStash
      <3>5. NamesExact'
        BY <1>2, <3>1, ChainKept DEF IdentityInv, NamesExact
      <3> QED BY <3>3, <3>4, <3>5 DEF IdentityInv
    <2> QED BY <1>2, <2>1, <2>2
  <1> QED BY <1>1, <1>2, PTL DEF IdentitySpec

(* fetch_identity_names calls an authority by the name that its stash, or  *)
(* else the parent of its stash, gave itself, whichever call fails on the  *)
(* way, unless a registration is one that the two layouts share; when no   *)
(* call fails every stash with a name gives it to one of its authorities.  *)
THEOREM NamesAreExact == IdentitySpec => []NamesExact
  <1>1. IdentityInv => NamesExact
    BY DEF IdentityInv
  <1> QED BY <1>1, LookupInvariant, PTL

-----------------------------------------------------------------------------
(* PeerBehaviour.  A peer with a connection, or of which an answer waits,  *)
(* has an entry, and nothing is known of a peer without one: then Received *)
(* always finds the entry it updates.                                      *)
Known ==
  /\ \A c \in Connections : conn[c] = "up" => details[RemoteOf[c]].known
  /\ \A k \in Awaited : details[identify[k].peer].known
  /\ \A p \in Remotes : ~details[p].known => details[p].info = NoInfo

PeerInv == PeerTypeOK /\ Known /\ ListedAreUp /\ IdentifiedExact

LEMMA RemoteTyped ==
  /\ \A c \in Connections : RemoteOf[c] \in Remotes /\ EndpointOf[c] \in Endpoints
  /\ \A p, e : IsFiniteSet(Up(p, e)) /\ Cardinality(Up(p, e)) \in Nat
  <1>1. \A p, e : IsFiniteSet(Up(p, e))
    <2> TAKE p, e
    <2>1. Up(p, e) \in SUBSET Connections
      BY DEF Up
    <2> QED BY <2>1, PeerBehaviourAssumption, FS_Subset
  <1>2. \A p, e : Cardinality(Up(p, e)) \in Nat
    BY <1>1, FS_CardinalityType
  <1> QED BY <1>1, <1>2 DEF Remotes, Endpoints

LEMMA DetailsTyped ==
  ASSUME PeerTypeOK
  PROVE  /\ DOMAIN details = Remotes
         /\ \A p \in Remotes :
              /\ details[p] = [known |-> details[p].known, connections |-> details[p].connections,
                               info |-> details[p].info]
              /\ details[p].known \in BOOLEAN /\ details[p].info \in Infos \cup {NoInfo}
              /\ details[p].connections \in [Endpoints -> Nat]
  <1>1. details \in [Remotes -> NodeDetails]
    BY DEF PeerTypeOK
  <1> QED BY <1>1 DEF NodeDetails

(* The parts of the invariant when what they are about stays as it is.     *)
LEMMA EndpointsStay ==
  ASSUME ListedAreUp, conn' = conn,
         \A p \in Remotes : details'[p].connections = details[p].connections
  PROVE  ListedAreUp'
  <1>1. \A p, e : Up(p, e)' = Up(p, e)
    BY DEF Up
  <1> QED BY <1>1 DEF ListedAreUp, Listed

LEMMA AnswersStay ==
  ASSUME IdentifiedExact, identify' = identify, heard' = heard, reported' = reported,
         \A p \in Remotes : details'[p].info = details[p].info
  PROVE  IdentifiedExact'
  <1>1. Awaited' = Awaited /\ \A p, i : LastReported(p, i)' <=> LastReported(p, i)
    BY DEF Awaited, LastReported
  <1> QED BY <1>1 DEF IdentifiedExact

-----------------------------------------------------------------------------
LEMMA PeerInitGood == PeerInit => PeerInv
  <1> SUFFICES ASSUME PeerInit PROVE PeerInv
    OBVIOUS
  <1>1. /\ conn = [c \in Connections |-> "new"] /\ details = [p \in Remotes |-> NoDetails]
        /\ external_addresses = {} /\ ping = << >> /\ identify = << >>
        /\ heard = << >> /\ reported = << >> /\ pinged = 0
    BY DEF PeerInit
  <1>2. NoDetails \in NodeDetails
    BY DEF NoDetails, NodeDetails
  <1>3. PeerTypeOK
    BY <1>1, <1>2 DEF PeerTypeOK
  <1>4. Awaited = {}
    BY <1>1 DEF Awaited
  <1>5. Known
    BY <1>1, <1>4 DEF Known, NoDetails
  <1>6. \A p, e : Up(p, e) = {}
    BY <1>1 DEF Up
  <1>7. ListedAreUp
    <2>1. \A p \in Remotes, e \in Endpoints : Listed(p, e) = 0
      BY <1>1 DEF Listed, NoDetails
    <2>2. \A p, e : Cardinality(Up(p, e)) = 0
      BY <1>6, FS_EmptySet
    <2> QED BY <2>1, <2>2 DEF ListedAreUp
  <1>8. \A p : LastReported(p, NoInfo)
    BY <1>1 DEF LastReported
  <1>9. IdentifiedExact
    <2>1. Len(heard) = 0 /\ Len(reported) = 0
      BY <1>1
    <2> QED BY <1>1, <1>4, <1>8, <2>1 DEF IdentifiedExact, NoDetails
  <1> QED BY <1>3, <1>5, <1>7, <1>9 DEF PeerInv

LEMMA DeniedGood ==
  ASSUME PeerInv, NEW c \in Connections, ConnectionDenied(c)
  PROVE  PeerInv'
  <1>1. /\ conn[c] = "new" /\ conn' = [conn EXCEPT ![c] = "denied"] /\ details' = details
        /\ external_addresses' = external_addresses /\ ping' = ping /\ identify' = identify
        /\ heard' = heard /\ reported' = reported /\ pinged' = pinged
    BY DEF ConnectionDenied, historyVars
  <1>2. conn \in [Connections -> {"new", "denied", "up", "closed"}]
    BY DEF PeerInv, PeerTypeOK
  <1>3. PeerTypeOK'
    BY <1>1 DEF PeerInv, PeerTypeOK
  <1>4. Known'
    BY <1>1, <1>2 DEF PeerInv, Known, Awaited
  <1>5. \A p, e : Up(p, e)' = Up(p, e)
    BY <1>1, <1>2 DEF Up
  <1>6. ListedAreUp'
    BY <1>1, <1>5 DEF PeerInv, ListedAreUp, Listed
  <1>7. IdentifiedExact'
    BY <1>1, AnswersStay DEF PeerInv
  <1> QED BY <1>3, <1>4, <1>6, <1>7 DEF PeerInv

LEMMA EstablishedGood ==
  ASSUME PeerInv, NEW c \in Connections, ConnectionEstablished(c)
  PROVE  PeerInv'
  <1> DEFINE q == RemoteOf[c]
             x == EndpointOf[c]
  <1>1. /\ conn[c] = "new" /\ conn' = [conn EXCEPT ![c] = "up"]
        /\ details' = [details EXCEPT ![q] = WithConnection(details[q], x)]
        /\ external_addresses' = external_addresses /\ ping' = ping /\ identify' = identify
        /\ heard' = heard /\ reported' = reported /\ pinged' = pinged
    BY DEF ConnectionEstablished, historyVars
  <1>2. conn \in [Connections -> {"new", "denied", "up", "closed"}] /\ DOMAIN details = Remotes
    BY DetailsTyped DEF PeerInv, PeerTypeOK
  <1>3. q \in Remotes /\ x \in Endpoints
    BY RemoteTyped
  <1>4. /\ WithConnection(details[q], x).known = TRUE
        /\ WithConnection(details[q], x).info = details[q].info
        /\ WithConnection(details[q], x).connections
             = IF details[q].known
               THEN [details[q].connections EXCEPT ![x] = details[q].connections[x] + 1]
               ELSE [e \in Endpoints |-> IF e = x THEN 1 ELSE 0]
        /\ WithConnection(details[q], x) \in NodeDetails
    <2>1. /\ details[q] = [known |-> details[q].known, connections |-> details[q].connections,
                           info |-> details[q].info]
          /\ details[q].known \in BOOLEAN /\ details[q].info \in Infos \cup {NoInfo}
          /\ details[q].connections \in [Endpoints -> Nat]
      BY <1>3, DetailsTyped DEF PeerInv
    <2>2. CASE details[q].known
      <3>1. WithConnection(details[q], x)
              = [known |-> TRUE, info |-> details[q].info,
                 connections |-> [details[q].connections EXCEPT ![x] = details[q].connections[x] + 1]]
        BY <2>1, <2>2 DEF WithConnection
      <3> QED BY <1>3, <2>1, <2>2, <3>1 DEF NodeDetails
    <2>3. CASE ~details[q].known
      <3>1. WithConnection(details[q], x)
              = [known |-> TRUE, info |-> NoInfo,
                 connections |-> [e \in Endpoints |-> IF e = x THEN 1 ELSE 0]]
        BY <1>3, <2>3 DEF WithConnection, NodeDetailsNew, NoDetails
      <3>2. details[q].info = NoInfo
        BY <1>3, <2>3 DEF PeerInv, Known
      <3> QED BY <1>3, <2>3, <3>1, <3>2 DEF NodeDetails
    <2> QED BY <2>2, <2>3
  <1> HIDE DEF q, x
  <1>5. /\ \A p \in Remotes : p # q => details'[p] = details[p]
        /\ details'[q] = WithConnection(details[q], x)
    BY <1>1, <1>2, <1>3
  <1>6. PeerTypeOK'
    BY <1>1, <1>3, <1>4 DEF PeerInv, PeerTypeOK
  <1>7. Known'
    <2>1. \A p \in Remotes : details[p].known => details'[p].known
      BY <1>4, <1>5
    <2>2. \A k \in Awaited : identify[k].peer \in Remotes
      BY DEF Awaited, PeerInv, PeerTypeOK, IdentifyEvents
    <2>3. Awaited' = Awaited
      BY <1>1 DEF Awaited
    <2>4. \A d \in Connections : conn'[d] = "up" => details'[RemoteOf[d]].known
      BY <1>1, <1>2, <1>4, <1>5, <2>1, RemoteTyped DEF PeerInv, Known, q
    <2>5. \A p \in Remotes : ~details'[p].known => details'[p].info = NoInfo
      BY <1>4, <1>5 DEF PeerInv, Known
    <2> QED BY <1>1, <2>1, <2>2, <2>3, <2>4, <2>5 DEF PeerInv, Known
  <1>8. IdentifiedExact'
    BY <1>1, <1>4, <1>5, AnswersStay DEF PeerInv
  <1>9. ListedAreUp'
    <2>1. \A p \in Remotes, e \in Endpoints :
            p # q \/ e # x => Up(p, e)' = Up(p, e)
      BY <1>1, <1>2 DEF Up, q, x
    <2>2. Up(q, x)' = Up(q, x) \cup {c} /\ c \notin Up(q, x)
      BY <1>1, <1>2 DEF Up, q, x
    <2>3. Cardinality(Up(q, x)') = Cardinality(Up(q, x)) + 1
      BY <2>2, RemoteTyped, FS_AddElement
    <2>4. ~details[q].known => \A e : Up(q, e) = {}
      BY DEF PeerInv, Known, Up
    <2>5. \A p \in Remotes, e \in Endpoints :
            /\ p # q \/ e # x => details'[p].connections[e] <= Cardinality(Up(p, e))
            /\ p = q /\ e = x => details'[p].connections[e] <= Cardinality(Up(p, e)) + 1
      <3> TAKE p \in Remotes, e \in Endpoints
      <3>1. details[p].connections[e] <= Cardinality(Up(p, e))
        BY DEF PeerInv, ListedAreUp, Listed
      <3>2. details[p].connections \in [Endpoints -> Nat] /\ Cardinality(Up(p, e)) \in Nat
        BY DetailsTyped, RemoteTyped DEF PeerInv
      <3>3. CASE p # q
        BY <1>5, <3>1, <3>3
      <3>4. CASE p = q /\ details[q].known
        BY <1>3, <1>4, <1>5, <3>1, <3>2, <3>4
      <3>5. CASE p = q /\ ~details[q].known
        <4>1. Cardinality(Up(p, e)) = 0
          BY <2>4, <3>5, FS_EmptySet
        <4> QED BY <1>3, <1>4, <1>5, <3>5, <4>1
      <3> QED BY <3>3, <3>4, <3>5
    <2> QED BY <1>1, <2>1, <2>3, <2>5 DEF ListedAreUp, Listed
  <1> QED BY <1>6, <1>7, <1>8, <1>9 DEF PeerInv

LEMMA ClosedGood ==
  ASSUME PeerInv, NEW c \in Connections, ConnectionClosed(c)
  PROVE  PeerInv'
  <1> DEFINE q == RemoteOf[c]
             x == EndpointOf[c]
  <1>1. /\ conn[c] = "up" /\ conn' = [conn EXCEPT ![c] = "closed"]
        /\ details' = [details EXCEPT ![q] = WithoutConnection(details[q], x)]
        /\ external_addresses' = external_addresses /\ ping' = ping /\ identify' = identify
        /\ heard' = heard /\ reported' = reported /\ pinged' = pinged
    BY DEF ConnectionClosed, historyVars
  <1>2. conn \in [Connections -> {"new", "denied", "up", "closed"}] /\ DOMAIN details = Remotes
    BY DetailsTyped DEF PeerInv, PeerTypeOK
  <1>3. q \in Remotes /\ x \in Endpoints
    BY RemoteTyped
  <1>4. /\ WithoutConnection(details[q], x).known = details[q].known
        /\ WithoutConnection(details[q], x).info = details[q].info
        /\ WithoutConnection(details[q], x).connections = [details[q].connections EXCEPT ![x] = 0]
        /\ WithoutConnection(details[q], x) \in NodeDetails
    <2>1. /\ details[q] = [known |-> details[q].known, connections |-> details[q].connections,
                           info |-> details[q].info]
          /\ details[q].known \in BOOLEAN /\ details[q].info \in Infos \cup {NoInfo}
          /\ details[q].connections \in [Endpoints -> Nat]
      BY <1>3, DetailsTyped DEF PeerInv
    <2>2. WithoutConnection(details[q], x)
            = [known |-> details[q].known, info |-> details[q].info,
               connections |-> [details[q].connections EXCEPT ![x] = 0]]
      BY <2>1 DEF WithoutConnection
    <2> QED BY <1>3, <2>1, <2>2 DEF NodeDetails
  <1> HIDE DEF q, x
  <1>5. /\ \A p \in Remotes : p # q => details'[p] = details[p]
        /\ details'[q] = WithoutConnection(details[q], x)
    BY <1>1, <1>2, <1>3
  <1>6. PeerTypeOK'
    <2>1. details' \in [Remotes -> NodeDetails]
      BY <1>1, <1>4 DEF PeerInv, PeerTypeOK
    <2> QED BY <1>1, <1>2, <2>1 DEF PeerInv, PeerTypeOK
  <1>7. Known'
    <2>1. \A p \in Remotes : details'[p].known = details[p].known /\ details'[p].info = details[p].info
      BY <1>4, <1>5
    <2>2. \A k \in Awaited : identify[k].peer \in Remotes
      BY DEF Awaited, PeerInv, PeerTypeOK, IdentifyEvents
    <2>3. Awaited' = Awaited
      BY <1>1 DEF Awaited
    <2>4. \A d \in Connections : conn'[d] = "up" => conn[d] = "up"
      BY <1>1, <1>2
    <2> QED BY <1>1, <2>1, <2>2, <2>3, <2>4, RemoteTyped DEF PeerInv, Known
  <1>8. IdentifiedExact'
    BY <1>1, <1>4, <1>5, AnswersStay DEF PeerInv
  <1>9. ListedAreUp'
    <2>1. \A p \in Remotes, e \in Endpoints :
            p # q \/ e # x => Up(p, e)' = Up(p, e)
      BY <1>1, <1>2 DEF Up, q, x
    <2>2. Up(q, x)' = Up(q, x) \ {c}
      BY <1>1, <1>2 DEF Up, q, x
    <2>3. Cardinality(Up(q, x)') \in Nat
      <3>1. Up(q, x) \ {c} \in SUBSET Up(q, x)
        OBVIOUS
      <3> QED BY <2>2, <3>1, RemoteTyped, FS_Subset, FS_CardinalityType
    <2>4. \A p \in Remotes, e \in Endpoints :
            IF p = q /\ e = x THEN details'[p].connections[e] = 0
            ELSE details'[p].connections[e] = details[p].connections[e]
      <3> TAKE p \in Remotes, e \in Endpoints
      <3>1. details[p].connections \in [Endpoints -> Nat]
        BY DetailsTyped DEF PeerInv
      <3> QED BY <1>3, <1>4, <1>5, <3>1
    <2> SUFFICES ASSUME NEW p \in Remotes, NEW e \in Endpoints
                 PROVE  details'[p].connections[e] <= Cardinality(Up(p, e)')
      BY DEF ListedAreUp, Listed
    <2>5. CASE p = q /\ e = x
      BY <2>3, <2>4, <2>5
    <2>6. CASE ~(p = q /\ e = x)
      BY <2>1, <2>4, <2>6 DEF PeerInv, ListedAreUp, Listed
    <2> QED BY <2>5, <2>6
  <1> QED BY <1>6, <1>7, <1>8, <1>9 DEF PeerInv

LEMMA QuietGood ==
  ASSUME PeerInv, PeerTypeOK', conn' = conn, details' = details, identify' = identify,
         heard' = heard, reported' = reported
  PROVE  PeerInv'
  <1>1. Known'
    BY DEF PeerInv, Known, Awaited
  <1>2. ListedAreUp' /\ IdentifiedExact'
    BY EndpointsStay, AnswersStay DEF PeerInv
  <1> QED BY <1>1, <1>2 DEF PeerInv

LEMMA ExternalGood ==
  ASSUME PeerInv, NEW x \in ExternalAddrs, ExternalAddrConfirmed(x) \/ ExternalAddrExpired(x)
  PROVE  PeerInv'
  <1>1. /\ conn' = conn /\ details' = details /\ identify' = identify /\ ping' = ping
        /\ heard' = heard /\ reported' = reported /\ pinged' = pinged
        /\ external_addresses' \subseteq external_addresses \cup {x}
    BY DEF ExternalAddrConfirmed, ExternalAddrExpired, historyVars
  <1>2. PeerTypeOK'
    BY <1>1 DEF PeerInv, PeerTypeOK
  <1> QED BY <1>1, <1>2, QuietGood

LEMMA LeftGood ==
  ASSUME PeerInv, NEW c \in Connections, NEW event \in PingEvents, HandlerLeft(c, event)
  PROVE  PeerInv'
  <1>1. PeerTypeOK'
    BY DEF PeerInv, PeerTypeOK, HandlerLeft
  <1> QED BY <1>1, QuietGood DEF HandlerLeft

(* The events of identify behind a new one.                                *)
LEMMA AwaitedAppend ==
  ASSUME PeerTypeOK, NEW event \in IdentifyEvents, identify' = Append(identify, event)
  PROVE  /\ Awaited' = IF event.kind = "Received" THEN Awaited \cup {Len(identify) + 1}
                       ELSE Awaited
         /\ identify'[Len(identify) + 1] = event
         /\ \A k \in Awaited : k \in 1 .. Len(identify) /\ identify'[k] = identify[k]
         /\ identify' \in Seq(IdentifyEvents) /\ Len(identify) \in Nat
  <1>1. identify \in Seq(IdentifyEvents)
    BY DEF PeerTypeOK
  <1>2. /\ DOMAIN identify' = 1 .. Len(identify) + 1 /\ DOMAIN identify = 1 .. Len(identify)
        /\ identify' \in Seq(IdentifyEvents) /\ Len(identify) \in Nat
        /\ identify'[Len(identify) + 1] = event
        /\ \A k \in 1 .. Len(identify) : identify'[k] = identify[k]
    BY <1>1
  <1> QED BY <1>2 DEF Awaited

LEMMA RightOtherGood ==
  ASSUME PeerInv, NEW c \in Connections, NEW kind \in {"Ignored", "Forwarded"},
         HandlerRightOther(c, kind)
  PROVE  PeerInv'
  <1>1. /\ identify' = Append(identify, [kind |-> kind])
        /\ conn' = conn /\ details' = details /\ external_addresses' = external_addresses
        /\ ping' = ping /\ heard' = heard /\ reported' = reported /\ pinged' = pinged
       
    BY DEF HandlerRightOther, historyVars
  <1>2. [kind |-> kind] \in IdentifyEvents /\ [kind |-> kind].kind # "Received"
    BY DEF IdentifyEvents
  <1>3. /\ Awaited' = Awaited /\ \A k \in Awaited : identify'[k] = identify[k]
        /\ identify' \in Seq(IdentifyEvents)
    BY <1>1, <1>2, AwaitedAppend DEF PeerInv
  <1>4. PeerTypeOK'
    BY <1>1, <1>3 DEF PeerInv, PeerTypeOK
  <1>5. Known'
    BY <1>1, <1>3 DEF PeerInv, Known
  <1>6. ListedAreUp'
    BY <1>1, EndpointsStay DEF PeerInv
  <1>7. \A p, i : LastReported(p, i)' <=> LastReported(p, i)
    BY <1>1 DEF LastReported
  <1>8. {identify'[k].nr : k \in Awaited} = {identify[k].nr : k \in Awaited}
    BY <1>3
  <1>9. IdentifiedExact'
    BY <1>1, <1>3, <1>7, <1>8 DEF PeerInv, IdentifiedExact
  <1> QED BY <1>4, <1>5, <1>6, <1>9 DEF PeerInv

LEMMA RightReceivedGood ==
  ASSUME PeerInv, NEW c \in Connections, NEW info \in Infos, HandlerRightReceived(c, info)
  PROVE  PeerInv'
  <1>1. PICK p \in Remotes : p = RemoteOf[c]
    BY RemoteTyped
  <1>2. PICK n \in Nat : n = Len(heard) /\ heard \in Seq(Remotes \X Infos)
    BY DEF PeerInv, PeerTypeOK
  <1>3. PICK event : event = [kind |-> "Received", peer |-> p, info |-> info, nr |-> n + 1]
    OBVIOUS
  <1>4. /\ identify' = Append(identify, event) /\ heard' = Append(heard, <<p, info>>)
        /\ conn[c] = "up" /\ conn' = conn /\ details' = details
        /\ external_addresses' = external_addresses
        /\ ping' = ping /\ reported' = reported /\ pinged' = pinged
    BY <1>1, <1>2, <1>3 DEF HandlerRightReceived, ReceivedEvent
  <1>5. /\ event \in IdentifyEvents /\ event.kind = "Received" /\ event.peer = p
        /\ event.info = info /\ event.nr = n + 1
    BY <1>3 DEF IdentifyEvents
  <1>6. PICK m \in Nat : m = Len(identify) + 1
    BY DEF PeerInv, PeerTypeOK
  <1>7. /\ Awaited' = Awaited \cup {m} /\ identify'[m] = event
        /\ \A k \in Awaited : k \in 1 .. m - 1 /\ identify'[k] = identify[k]
        /\ identify' \in Seq(IdentifyEvents)
    BY <1>4, <1>5, <1>6, AwaitedAppend DEF PeerInv
  <1>8. /\ heard' \in Seq(Remotes \X Infos) /\ Len(heard') = n + 1
        /\ heard'[n + 1] = <<p, info>> /\ \A k \in 1 .. n : heard'[k] = heard[k]
    BY <1>2, <1>4
  <1>9. PeerTypeOK'
    BY <1>4, <1>7, <1>8 DEF PeerInv, PeerTypeOK
  <1>10. Known'
    <2>1. details[p].known
      BY <1>1, <1>4 DEF PeerInv, Known
    <2> QED BY <1>4, <1>5, <1>7, <2>1 DEF PeerInv, Known
  <1>11. ListedAreUp'
    BY <1>4, EndpointsStay DEF PeerInv
  <1>12. IdentifiedExact'
    <2>1. \A r, i : LastReported(r, i)' <=> LastReported(r, i)
      BY <1>4 DEF LastReported
    <2>2. PICK t \in Nat : t = Len(reported) /\ t <= n
      BY <1>2 DEF PeerInv, PeerTypeOK, IdentifiedExact
    <2>3. \A k \in Awaited : identify[k].nr \in t + 1 .. n
      BY <1>2, <2>2 DEF PeerInv, IdentifiedExact
    <2>4. {identify'[k].nr : k \in Awaited'} = {identify[k].nr : k \in Awaited} \cup {n + 1}
      BY <1>5, <1>7
    <2>5. {identify'[k].nr : k \in Awaited'} = t + 1 .. n + 1
      <3>1. {identify[k].nr : k \in Awaited} = t + 1 .. n
        BY <1>2, <2>2 DEF PeerInv, IdentifiedExact
      <3>2. (t + 1 .. n) \cup {n + 1} = t + 1 .. n + 1
        BY <2>2
      <3> QED BY <2>4, <3>1, <3>2
    <2>6. \A k, l \in Awaited' : k < l => identify'[k].nr < identify'[l].nr
      <3>1. \A k, l \in Awaited : k < l => identify[k].nr < identify[l].nr
        BY DEF PeerInv, IdentifiedExact
      <3>2. \A k \in Awaited' : k \in Awaited \/ (k = m /\ identify'[k].nr = n + 1)
        BY <1>5, <1>7
      <3>3. \A k \in Awaited : k < m /\ identify'[k].nr < n + 1 /\ identify'[k].nr \in Nat
        BY <1>6, <1>7, <2>2, <2>3
      <3>4. \A k, l \in Awaited : k < l => identify'[k].nr < identify'[l].nr
        BY <1>7, <3>1
      <3> SUFFICES ASSUME NEW k \in Awaited', NEW l \in Awaited', k < l
                   PROVE  identify'[k].nr < identify'[l].nr
        OBVIOUS
      <3>5. k \in Awaited
        <4>1. ASSUME k = m PROVE FALSE
          <5>1. l \in Nat /\ l <= m
            <6>1. CASE l \in Awaited
              BY <1>6, <1>7, <6>1
            <6>2. CASE l = m
              BY <6>2
            <6> QED BY <3>2, <6>1, <6>2
          <5> QED BY <4>1, <5>1
        <4> QED BY <3>2, <4>1
      <3> QED BY <3>2, <3>3, <3>4, <3>5
    <2>7. \A k \in Awaited' : heard'[identify'[k].nr] = <<identify'[k].peer, identify'[k].info>>
      <3>1. \A k \in Awaited : heard[identify[k].nr] = <<identify[k].peer, identify[k].info>>
        BY DEF PeerInv, IdentifiedExact
      <3>2. \A k \in Awaited :
              heard'[identify'[k].nr] = <<identify'[k].peer, identify'[k].info>>
        <4> TAKE k \in Awaited
        <4>1. identify'[k] = identify[k] /\ identify[k].nr \in 1 .. n
          BY <1>7, <2>2, <2>3
        <4>2. heard'[identify[k].nr] = heard[identify[k].nr]
          BY <1>8, <4>1
        <4> QED BY <3>1, <4>1, <4>2
      <3>3. heard'[identify'[m].nr] = <<identify'[m].peer, identify'[m].info>>
        BY <1>5, <1>7, <1>8
      <3> QED BY <1>7, <3>2, <3>3
    <2>8. Len(reported') <= Len(heard') /\ \A k \in 1 .. Len(reported') : reported'[k] = heard'[k]
      BY <1>2, <1>4, <1>8, <2>2 DEF PeerInv, IdentifiedExact
    <2>9. \A r \in Remotes : LastReported(r, details[r].info)'
      BY <1>4, <2>1 DEF PeerInv, IdentifiedExact
    <2>10. {identify'[k].nr : k \in Awaited'} = Len(reported') + 1 .. Len(heard')
      BY <1>4, <1>8, <2>2, <2>5
    <2> QED BY <2>6, <2>7, <2>8, <2>9, <2>10 DEF IdentifiedExact
  <1> QED BY <1>9, <1>10, <1>11, <1>12 DEF PeerInv

(* What is behind place j of a queue.                                      *)
LEMMA BehindIs ==
  ASSUME NEW T, NEW queue \in Seq(T), NEW j \in 1 .. Len(queue) + 1
  PROVE  /\ Behind(queue, j) \in Seq(T)
         /\ Len(queue) \in Nat
         /\ DOMAIN Behind(queue, j) = 1 .. Len(queue) - j
         /\ \A k \in DOMAIN Behind(queue, j) : Behind(queue, j)[k] = queue[k + j]
  <1>1. PICK n \in Nat : n = Len(queue) /\ DOMAIN queue = 1 .. n
    OBVIOUS
  <1>2. CASE j <= n
    <2>1. /\ Behind(queue, j) \in Seq(T) /\ DOMAIN Behind(queue, j) = 1 .. n - j
          /\ \A k \in 1 .. n - j : Behind(queue, j)[k] = queue[k + j]
      BY <1>1, <1>2 DEF Behind
    <2> QED BY <1>1, <1>2, <2>1
  <1>3. CASE j = n + 1
    <2>1. Behind(queue, j) = << >>
      BY <1>1, <1>3 DEF Behind
    <2>2. 1 .. Len(queue) - j = {} /\ Len(queue) \in Nat
      BY <1>1, <1>3
    <2>3. << >> \in Seq(T) /\ DOMAIN << >> = {}
      OBVIOUS
    <2> QED BY <2>1, <2>2, <2>3
  <1> QED BY <1>1, <1>2, <1>3

(* Identify returns nothing, or an event that is only forwarded.           *)
LEMMA SkippedGood ==
  ASSUME PeerInv, NEW j \in 1 .. Len(identify) + 1, identify' = Behind(identify, j),
         \A k \in 1 .. j : k \in DOMAIN identify => identify[k].kind # "Received",
         ping' \in Seq(PingEvents), conn' = conn, details' = details, heard' = heard,
         external_addresses' = external_addresses, reported' = reported,
         pinged' = pinged
  PROVE  PeerInv'
  <1>1. PICK n \in Nat : n = Len(identify) /\ DOMAIN identify = 1 .. n
    BY DEF PeerInv, PeerTypeOK
  <1>2. identify \in Seq(IdentifyEvents)
    BY DEF PeerInv, PeerTypeOK
  <1>3. /\ identify' \in Seq(IdentifyEvents) /\ DOMAIN identify' = 1 .. n - j
        /\ \A k \in 1 .. n - j : identify'[k] = identify[k + j]
    BY <1>1, <1>2, BehindIs
  <1>4. \A k \in Awaited' : k + j \in Awaited /\ identify'[k] = identify[k + j] /\ k \in Nat
    BY <1>1, <1>3 DEF Awaited
  <1>5. \A l \in Awaited : l - j \in Awaited' /\ identify'[l - j] = identify[l]
    <2> SUFFICES ASSUME NEW l \in Awaited
                 PROVE  l - j \in Awaited' /\ identify'[l - j] = identify[l]
      OBVIOUS
    <2>1. l \in 1 .. n /\ identify[l].kind = "Received"
      BY <1>1 DEF Awaited
    <2>2. ~(l <= j)
      BY <1>1, <2>1
    <2>3. PICK k \in 1 .. n - j : k = l - j /\ k + j = l
      BY <1>1, <2>1, <2>2
    <2>4. identify'[k] = identify[l]
      BY <1>3, <2>3
    <2> QED BY <1>3, <2>1, <2>3, <2>4 DEF Awaited
  <1>6. PeerTypeOK'
    BY <1>3 DEF PeerInv, PeerTypeOK
  <1>7. Known'
    BY <1>4 DEF PeerInv, Known
  <1>8. ListedAreUp'
    BY EndpointsStay DEF PeerInv
  <1>9. \A p, i : LastReported(p, i)' <=> LastReported(p, i)
    BY DEF LastReported
  <1>10. {identify'[k].nr : k \in Awaited'} = {identify[k].nr : k \in Awaited}
    BY <1>4, <1>5
  <1>11. \A k, l \in Awaited' : k < l => identify'[k].nr < identify'[l].nr
    BY <1>4 DEF PeerInv, IdentifiedExact
  <1>12. \A k \in Awaited' : heard[identify'[k].nr] = <<identify'[k].peer, identify'[k].info>>
    BY <1>4 DEF PeerInv, IdentifiedExact
  <1>13. IdentifiedExact'
    BY <1>9, <1>10, <1>11, <1>12 DEF PeerInv, IdentifiedExact
  <1> QED BY <1>6, <1>7, <1>8, <1>13 DEF PeerInv

(* Identified: the first answer that waits is the next to be reported.     *)
LEMMA IdentifiedGood ==
  ASSUME PeerInv, NEW j \in 1 .. Len(identify), identify' = Behind(identify, j),
         \A k \in 1 .. j - 1 : identify[k].kind # "Received", identify[j].kind = "Received",
         NEW event, event = identify[j],
         details' = [details EXCEPT ![event.peer] = WithInfo(details[event.peer], event.info)],
         reported' = Append(reported, <<event.peer, event.info>>),
         ping' \in Seq(PingEvents), conn' = conn, heard' = heard,
         external_addresses' = external_addresses, pinged' = pinged
  PROVE  PeerInv'
  <1>1. PICK n \in Nat : n = Len(identify) /\ DOMAIN identify = 1 .. n
    BY DEF PeerInv, PeerTypeOK
  <1>2. identify \in Seq(IdentifyEvents)
    BY DEF PeerInv, PeerTypeOK
  <1>3. /\ identify' \in Seq(IdentifyEvents) /\ DOMAIN identify' = 1 .. n - j
        /\ \A k \in 1 .. n - j : identify'[k] = identify[k + j]
    BY <1>1, <1>2, BehindIs
  <1>4. \A k \in Awaited' : /\ k + j \in Awaited /\ identify'[k] = identify[k + j]
                            /\ k \in Nat /\ k + j > j
    BY <1>1, <1>3 DEF Awaited
  <1>5. \A l \in Awaited : l # j => /\ l - j \in Awaited' /\ identify'[l - j] = identify[l]
                                    /\ l > j /\ l \in Nat
    <2> SUFFICES ASSUME NEW l \in Awaited, l # j
                 PROVE  /\ l - j \in Awaited' /\ identify'[l - j] = identify[l]
                        /\ l > j /\ l \in Nat
      OBVIOUS
    <2>1. l \in 1 .. n /\ identify[l].kind = "Received"
      BY <1>1 DEF Awaited
    <2>2. ~(l <= j)
      BY <1>1, <2>1
    <2>3. PICK k \in 1 .. n - j : k = l - j /\ k + j = l
      BY <1>1, <2>1, <2>2
    <2>4. identify'[k] = identify[l]
      BY <1>3, <2>3
    <2> QED BY <1>3, <2>1, <2>2, <2>3, <2>4 DEF Awaited
  <1>6. j \in Awaited /\ j \in Nat
    BY <1>1 DEF Awaited
  <1>7. /\ event.peer \in Remotes /\ event.info \in Infos /\ event.nr \in Nat
    BY <1>1, <1>2 DEF IdentifyEvents
  <1>8. PICK q \in Remotes : q = event.peer
    BY <1>7
  <1>9. /\ details[q].known /\ DOMAIN details = Remotes
        /\ details[q] = [known |-> details[q].known, connections |-> details[q].connections,
                         info |-> details[q].info]
        /\ details[q].connections \in [Endpoints -> Nat] /\ details[q].known \in BOOLEAN
    BY <1>6, <1>8, DetailsTyped DEF PeerInv, Known
  <1>10. /\ details'[q] = [known |-> TRUE, connections |-> details[q].connections,
                           info |-> event.info]
         /\ \A p \in Remotes : p # q => details'[p] = details[p]
         /\ details' \in [Remotes -> NodeDetails]
    <2>1. WithInfo(details[q], event.info)
            = [known |-> TRUE, connections |-> details[q].connections, info |-> event.info]
      BY <1>9 DEF WithInfo
    <2>2. WithInfo(details[q], event.info) \in NodeDetails
      BY <1>7, <1>9, <2>1 DEF NodeDetails
    <2> QED BY <1>8, <1>9, <2>1, <2>2 DEF PeerInv, PeerTypeOK
  <1>11. /\ details'[q].known = TRUE /\ details'[q].connections = details[q].connections
         /\ details'[q].info = event.info
    BY <1>10
  <1>12. PICK t \in Nat : t = Len(reported) /\ reported \in Seq(Remotes \X Infos)
    <2>1. reported \in Seq(Remotes \X Infos)
      BY DEF PeerInv, PeerTypeOK
    <2>2. Len(reported) \in Nat
      BY <2>1
    <2> QED BY <2>1, <2>2
  <1>13. /\ reported' \in Seq(Remotes \X Infos) /\ Len(reported') = t + 1
         /\ reported'[t + 1] = <<q, event.info>> /\ \A k \in 1 .. t : reported'[k] = reported[k]
    BY <1>7, <1>8, <1>12
  <1>14. PeerTypeOK'
    BY <1>3, <1>10, <1>13 DEF PeerInv, PeerTypeOK
  <1>15. Known'
    <2>1. \A p \in Remotes : /\ details[p].known => details'[p].known
                             /\ ~details'[p].known => details'[p].info = NoInfo
      BY <1>10, <1>11 DEF PeerInv, Known
    <2>2. \A k \in Awaited : identify[k].peer \in Remotes
      BY <1>2 DEF Awaited, IdentifyEvents
    <2> QED BY <1>4, <2>1, <2>2, RemoteTyped DEF PeerInv, Known
  <1>16. ListedAreUp'
    BY <1>10, <1>11, EndpointsStay DEF PeerInv
  <1>17. PICK h \in Nat : h = Len(heard)
    BY DEF PeerInv, PeerTypeOK
  <1>18. /\ t <= h /\ {identify[k].nr : k \in Awaited} = t + 1 .. h
         /\ \A k, l \in Awaited : k < l => identify[k].nr < identify[l].nr
         /\ \A k \in Awaited : heard[identify[k].nr] = <<identify[k].peer, identify[k].info>>
         /\ \A k \in 1 .. t : reported[k] = heard[k]
    BY <1>12, <1>17 DEF PeerInv, IdentifiedExact
  <1>19. event.nr = t + 1 /\ t + 1 <= h
    <2>1. event.nr \in t + 1 .. h
      BY <1>6, <1>18
    <2>2. PICK k \in Awaited : identify[k].nr = t + 1
      <3>1. t + 1 \in t + 1 .. h
        BY <2>1
      <3> QED BY <1>18, <3>1
    <2>3. k = j
      <3> SUFFICES ASSUME k # j PROVE FALSE
        OBVIOUS
      <3>1. j < k
        BY <1>5, <1>6
      <3>2. event.nr < t + 1
        BY <1>6, <1>18, <2>2, <3>1
      <3> QED BY <2>1, <3>2
    <2> QED BY <2>1, <2>2, <2>3
  <1>20. {identify'[k].nr : k \in Awaited'} = t + 2 .. h
    <2>1. \A k \in Awaited' : identify'[k].nr \in t + 2 .. h
      <3> TAKE k \in Awaited'
      <3>1. identify'[k].nr \in t + 1 .. h
        BY <1>4, <1>18
      <3>2. event.nr < identify'[k].nr
        BY <1>4, <1>6, <1>18
      <3> QED BY <1>19, <3>1, <3>2
    <2>2. \A nr \in t + 2 .. h : \E k \in Awaited' : identify'[k].nr = nr
      <3> TAKE nr \in t + 2 .. h
      <3>1. nr \in t + 1 .. h /\ nr # t + 1
        OBVIOUS
      <3>2. PICK l \in Awaited : identify[l].nr = nr
        BY <1>18, <3>1
      <3>3. l # j
        BY <1>19, <3>1, <3>2
      <3> QED BY <1>5, <3>2, <3>3
    <2> QED BY <2>1, <2>2
  <1>21. \A k, l \in Awaited' : k < l => identify'[k].nr < identify'[l].nr
    <2> SUFFICES ASSUME NEW k \in Awaited', NEW l \in Awaited', k < l
                 PROVE  identify'[k].nr < identify'[l].nr
      OBVIOUS
    <2>1. k + j \in Awaited /\ l + j \in Awaited /\ k + j < l + j
      BY <1>4, <1>6
    <2>2. identify[k + j].nr < identify[l + j].nr
      BY <1>18, <2>1
    <2> QED BY <1>4, <2>2
  <1>22. \A k \in Awaited' : heard[identify'[k].nr] = <<identify'[k].peer, identify'[k].info>>
    BY <1>4, <1>18
  <1>23. \A k \in 1 .. t + 1 : reported'[k] = heard[k]
    <2>1. reported'[t + 1] = heard[t + 1]
      BY <1>6, <1>8, <1>13, <1>18, <1>19
    <2> QED BY <1>13, <1>18, <2>1
  <1>24. \A p \in Remotes : LastReported(p, details[p].info)'
    <2> SUFFICES ASSUME NEW p \in Remotes PROVE LastReported(p, details[p].info)'
      OBVIOUS
    <2> DEFINE of == {i \in 1 .. t : reported[i][1] = p}
               of2 == {i \in 1 .. t + 1 : reported'[i][1] = p}
    <2>1. PICK info : info = details'[p].info
      OBVIOUS
    <2>2. LastReported(p, details[p].info)'
            <=> IF of2 = {} THEN info = NoInfo
                ELSE \E i \in of2 : reported'[i][2] = info /\ \A k \in of2 : k <= i
      BY <1>13, <2>1 DEF LastReported
    <2>3. CASE p = q
      <3>1. t + 1 \in of2 /\ \A k \in of2 : k <= t + 1
        BY <1>13, <2>3
      <3>2. reported'[t + 1][2] = info
        BY <1>11, <1>13, <2>1, <2>3
      <3> HIDE DEF of2
      <3> QED BY <2>2, <3>1, <3>2
    <2>4. CASE p # q
      <3>1. of2 = of
        BY <1>13, <2>4
      <3>2. \A i \in of : reported'[i] = reported[i]
        BY <1>13
      <3>3. IF of = {} THEN info = NoInfo
            ELSE \E i \in of : reported[i][2] = info /\ \A k \in of : k <= i
        <4>1. LastReported(p, details[p].info)
          BY DEF PeerInv, IdentifiedExact
        <4>2. details[p].info = info
          BY <1>10, <2>1, <2>4
        <4> QED BY <1>12, <4>1, <4>2 DEF LastReported
      <3> HIDE DEF of, of2
      <3> QED BY <2>2, <3>1, <3>2, <3>3
    <2> QED BY <2>3, <2>4
  <1>25. IdentifiedExact'
    <2>1. Len(heard') = h /\ Len(reported') + 1 = t + 2
      BY <1>12, <1>13, <1>17
    <2>2. {identify'[k].nr : k \in Awaited'} = Len(reported') + 1 .. Len(heard')
      BY <1>20, <2>1
    <2>3. Len(reported') <= Len(heard') /\ \A k \in 1 .. Len(reported') : reported'[k] = heard'[k]
      BY <1>13, <1>19, <1>23, <2>1
    <2> QED BY <1>21, <1>22, <1>24, <2>2, <2>3 DEF IdentifiedExact
  <1> QED BY <1>14, <1>15, <1>16, <1>25 DEF PeerInv

LEMMA PollGood ==
  ASSUME PeerInv, Poll
  PROVE  PeerInv'
  <1>1. PICK i \in 1 .. Len(ping) + 1 :
          /\ ping' = Behind(ping, i)
          /\ IF i <= Len(ping) THEN UNCHANGED <<identify, details, reported>> ELSE PollIdentify
    BY DEF Poll
  <1>2. /\ conn' = conn /\ external_addresses' = external_addresses /\ heard' = heard
        /\ pinged' = pinged
    BY DEF Poll
  <1>3. ping' \in Seq(PingEvents)
    BY <1>1, BehindIs DEF PeerInv, PeerTypeOK
  <1>4. CASE i <= Len(ping)
    <2>1. identify' = identify /\ details' = details /\ reported' = reported
      BY <1>1, <1>4
    <2>2. PeerTypeOK'
      BY <1>2, <1>3, <2>1 DEF PeerInv, PeerTypeOK
    <2> QED BY <1>2, <2>1, <2>2, QuietGood
  <1>5. CASE ~(i <= Len(ping))
    <2>1. PICK j \in 1 .. Len(identify) + 1 :
            /\ FirstReturned(identify, j, IgnoredEvent)
            /\ identify' = Behind(identify, j)
            /\ IF j > Len(identify) THEN UNCHANGED <<details, reported>>
               ELSE ReturnIdentify(identify[j])
      BY <1>1, <1>5 DEF PollIdentify
    <2>2. PICK n \in Nat : n = Len(identify) /\ DOMAIN identify = 1 .. n
      BY DEF PeerInv, PeerTypeOK
    <2>3. \A k \in 1 .. j - 1 : identify[k].kind # "Received"
      BY <2>1 DEF FirstReturned, IgnoredEvent
    <2>4. CASE j <= n /\ identify[j].kind = "Received"
      <3>1. PICK event : event = identify[j]
        OBVIOUS
      <3>2. j \in 1 .. Len(identify)
        BY <2>2, <2>4
      <3>3. /\ details' = [details EXCEPT ![event.peer] = WithInfo(details[event.peer], event.info)]
            /\ reported' = Append(reported, <<event.peer, event.info>>)
        BY <2>1, <2>2, <2>4, <3>1 DEF ReturnIdentify
      <3> QED BY <1>2, <1>3, <2>1, <2>3, <2>4, <3>1, <3>2, <3>3, IdentifiedGood
    <2>5. CASE ~(j <= n /\ identify[j].kind = "Received")
      <3>1. details' = details /\ reported' = reported
        BY <2>1, <2>2, <2>5 DEF ReturnIdentify
      <3>2. \A k \in 1 .. j : k \in DOMAIN identify => identify[k].kind # "Received"
        BY <2>2, <2>3, <2>5
      <3> QED BY <1>2, <1>3, <2>1, <3>1, <3>2, SkippedGood
    <2> QED BY <2>4, <2>5
  <1> QED BY <1>4, <1>5

(* PeerInv is inductive.                                                   *)
THEOREM PeerInvariant == PeerSpec => []PeerInv
  <1>1. ASSUME PeerInv, [PeerNext]_peerVars PROVE PeerInv'
    <2>1. CASE UNCHANGED peerVars
      <3>1. PeerTypeOK'
        BY <1>1, <2>1 DEF PeerInv, PeerTypeOK, peerVars, historyVars
      <3> QED BY <1>1, <2>1, <3>1, QuietGood DEF peerVars, historyVars
    <2>2. CASE PeerNext
      BY <1>1, <2>2, DeniedGood, EstablishedGood, ClosedGood, LeftGood, RightReceivedGood,
         RightOtherGood, ExternalGood, PollGood DEF PeerNext
    <2> QED BY <1>1, <2>1, <2>2
  <1> QED BY <1>1, PeerInitGood, PTL DEF PeerSpec

(* on_swarm_event lists an endpoint at most once for each connection that  *)
(* is up, for any connections in any order: none of a closed connection.   *)
THEOREM ListedEndpoints == PeerSpec => []ListedAreUp
  <1>1. PeerInv => ListedAreUp
    BY DEF PeerInv
  <1> QED BY <1>1, PeerInvariant, PTL

(* poll reports each answer of identify once and in order, and the entry   *)
(* of a peer is what was reported of it last.                              *)
THEOREM IdentifiedOnce == PeerSpec => []IdentifiedExact
  <1>1. PeerInv => IdentifiedExact
    BY DEF PeerInv
  <1> QED BY <1>1, PeerInvariant, PTL
=============================================================================
