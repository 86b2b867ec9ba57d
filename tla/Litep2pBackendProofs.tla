------------------------ MODULE Litep2pBackendProofs ------------------------
(***************************************************************************)
(* Proofs about Litep2pBackend: which of the driver's slots leak and when  *)
(* its task sleeps on an item, for any number of slots, any bounds and     *)
(* whatever the command channel does.                                      *)
(***************************************************************************)
EXTENDS Litep2pBackend, TLAPS

-----------------------------------------------------------------------------
(* The driver after an answer or an event: it is in a call, in next() or   *)
(* done, and tracks the given queries.                                     *)
LEMMA SettledTyped ==
  ASSUME NEW d \in Driver
  PROVE  /\ Settled(d) \in Driver /\ Settled(d).pc # "answer"
         /\ Settled(d).queries = d.queries
  <1>1. PICK pc \in {"call", "next", "done"} : Settled(d) = [d EXCEPT !.pc = pc]
    BY DEF Settled
  <1> QED BY <1>1 DEF Driver

LEMMA QueryStartedTyped ==
  ASSUME NEW d \in Driver, NEW id \in Nat
  PROVE  /\ QueryStarted(d, id) \in Driver /\ QueryStarted(d, id).pc # "answer"
         /\ QueryStarted(d, id).queries = d.queries \cup {id}
  <1> DEFINE e == [d EXCEPT !.queries = @ \cup {id}]
  <1>1. e \in Driver /\ e.queries = d.queries \cup {id}
    BY DEF Driver
  <1>2. QueryStarted(d, id) = Settled(e)
    BY DEF QueryStarted
  <1> HIDE DEF e
  <1> QED BY <1>1, <1>2, SettledTyped

LEMMA AddressSentTyped ==
  ASSUME NEW d \in Driver, Wants(d) = "AddKnownAddress"
  PROVE  /\ AddressSent(d) \in Driver /\ AddressSent(d).pc # "answer"
         /\ AddressSent(d).queries = d.queries
  <1> DEFINE e == [d EXCEPT !.adds = @ - 1]
  <1>1. d.adds > 0
    BY DEF Wants, Driver
  <1>2. e \in Driver /\ e.queries = d.queries
    BY <1>1 DEF Driver
  <1>3. AddressSent(d) = Settled(e)
    BY DEF AddressSent
  <1> HIDE DEF e
  <1> QED BY <1>2, <1>3, SettledTyped

LEMMA PeerIdentifiedTyped ==
  ASSUME NEW d \in Driver, NEW n \in Nat, NEW stop \in BOOLEAN
  PROVE  /\ PeerIdentified(d, n, stop) \in Driver /\ PeerIdentified(d, n, stop).pc # "answer"
         /\ PeerIdentified(d, n, stop).queries = d.queries
  <1> DEFINE e == [d EXCEPT !.adds = n, !.goal = Slots, !.stop = stop]
  <1>1. e \in Driver /\ e.queries = d.queries
    BY DEF Driver
  <1>2. PeerIdentified(d, n, stop) = Settled(e)
    BY DEF PeerIdentified
  <1> HIDE DEF e
  <1> QED BY <1>1, <1>2, SettledTyped

LEMMA FindNodeTyped ==
  ASSUME NEW d \in Driver, NEW id, NEW n \in Nat, NEW stop \in BOOLEAN
  PROVE  /\ FindNode(d, id, n, stop) \in Driver /\ FindNode(d, id, n, stop).pc # "answer"
         /\ FindNode(d, id, n, stop).queries = d.queries \ {id}
  <1> DEFINE e == [d EXCEPT !.queries = @ \ {id}]
  <1>1. e \in Driver /\ e.queries = d.queries \ {id}
    BY DEF Driver
  <1>2. FindNode(d, id, n, stop) = PeerIdentified(e, n, stop)
    BY DEF FindNode
  <1> HIDE DEF e
  <1> QED BY <1>1, <1>2, PeerIdentifiedTyped

-----------------------------------------------------------------------------
(* The queues to and from Kademlia.                                        *)
LEMMA IdsTyped ==
  ASSUME NEW seq, \A k \in DOMAIN seq : seq[k].id \in Nat \cup {NoId}
  PROVE  IdsIn(seq) \subseteq Nat
  BY Zenon DEF IdsIn

LEMMA QueueAppended ==
  ASSUME NEW S, NEW seq \in Seq(S), NEW e \in S
  PROVE  /\ Append(seq, e) \in Seq(S) /\ Append(seq, e) # << >>
         /\ IdsIn(Append(seq, e)) = IdsIn(seq) \cup ({e.id} \ {NoId})
         /\ EachOnce(seq) /\ e.id \notin IdsIn(seq) => EachOnce(Append(seq, e))
  <1>0. PICK n \in Nat : n = Len(seq)
    OBVIOUS
  <1>1. PICK t : t = Append(seq, e)
    OBVIOUS
  <1>2. /\ DOMAIN seq = 1 .. n /\ DOMAIN t = 1 .. n + 1 /\ t[n + 1] = e
        /\ \A k \in 1 .. n : t[k] = seq[k]
    BY <1>0, <1>1
  <1>3. t \in Seq(S) /\ t # << >>
    BY <1>1
  <1>4. \A k : k \in 1 .. n + 1 <=> k \in 1 .. n \/ k = n + 1
    OBVIOUS
  <1>5. IdsIn(t) = IdsIn(seq) \cup ({e.id} \ {NoId})
    <2>1. \A x : x \in IdsIn(t) <=> x # NoId /\ \E k \in 1 .. n + 1 : x = t[k].id
      BY <1>2 DEF IdsIn
    <2>2. \A x : x \in IdsIn(seq) <=> x # NoId /\ \E k \in 1 .. n : x = seq[k].id
      BY <1>2 DEF IdsIn
    <2>3. \A x : (\E k \in 1 .. n + 1 : x = t[k].id) <=> (\E k \in 1 .. n : x = seq[k].id) \/ x = e.id
      BY <1>2, <1>4
    <2> QED BY <2>1, <2>2, <2>3
  <1>6. ASSUME EachOnce(seq), e.id \notin IdsIn(seq) PROVE EachOnce(t)
    <2>1. \A k \in 1 .. n : seq[k].id = e.id => e.id = NoId
      BY <1>2, <1>6 DEF IdsIn
    <2> QED BY <1>2, <1>4, <1>6, <2>1 DEF EachOnce
  <1> QED BY <1>1, <1>3, <1>5, <1>6

LEMMA QueueTaken ==
  ASSUME NEW S, NEW seq \in Seq(S), seq # << >>, EachOnce(seq)
  PROVE  /\ Head(seq) \in S /\ Tail(seq) \in Seq(S)
         /\ IdsIn(Tail(seq)) = IdsIn(seq) \ {Head(seq).id}
         /\ Head(seq).id # NoId => Head(seq).id \in IdsIn(seq)
         /\ EachOnce(Tail(seq))
  <1>0. PICK n \in Nat : n = Len(seq)
    OBVIOUS
  <1>1. PICK t, e : t = Tail(seq) /\ e = Head(seq)
    OBVIOUS
  <1>2. /\ n > 0 /\ DOMAIN seq = 1 .. n /\ seq[1] = e /\ DOMAIN t = 1 .. n - 1
        /\ \A k \in 1 .. n - 1 : t[k] = seq[k + 1]
    BY <1>0, <1>1
  <1>3. e \in S /\ t \in Seq(S)
    BY <1>1
  <1>4. /\ 1 \in 1 .. n
        /\ \A k \in 1 .. n - 1 : k + 1 \in 1 .. n /\ k + 1 # 1
        /\ \A k \in 1 .. n : k # 1 => k - 1 \in 1 .. n - 1 /\ t[k - 1] = seq[k]
        /\ \A k, l \in 1 .. n - 1 : k + 1 = l + 1 => k = l
    BY <1>2
  <1>5. \A k, l \in 1 .. n : seq[k].id = seq[l].id /\ seq[k].id # NoId => k = l
    BY <1>2 DEF EachOnce
  <1>6. e.id # NoId => e.id \in IdsIn(seq)
    BY <1>2, <1>4 DEF IdsIn
  <1>7. IdsIn(t) = IdsIn(seq) \ {e.id}
    <2>1. \A x : x \in IdsIn(t) <=> x # NoId /\ \E k \in 1 .. n - 1 : x = t[k].id
      BY <1>2 DEF IdsIn
    <2>2. \A x : x \in IdsIn(seq) <=> x # NoId /\ \E k \in 1 .. n : x = seq[k].id
      BY <1>2 DEF IdsIn
    <2>3. ASSUME NEW k \in 1 .. n - 1, t[k].id # NoId
          PROVE  t[k].id # e.id /\ \E j \in 1 .. n : t[k].id = seq[j].id
      <3>1. k + 1 \in 1 .. n /\ k + 1 # 1 /\ t[k] = seq[k + 1]
        BY <1>2, <1>4
      <3> QED BY <1>2, <1>4, <1>5, <2>3, <3>1
    <2>4. ASSUME NEW k \in 1 .. n, seq[k].id # e.id
          PROVE  \E j \in 1 .. n - 1 : seq[k].id = t[j].id
      <3>1. k - 1 \in 1 .. n - 1 /\ t[k - 1] = seq[k]
        BY <1>2, <1>4, <2>4
      <3> QED BY <3>1
    <2> QED BY <2>1, <2>2, <2>3, <2>4
  <1>8. EachOnce(t)
    <2>1. ASSUME NEW k \in 1 .. n - 1, NEW l \in 1 .. n - 1, t[k].id = t[l].id, t[k].id # NoId
          PROVE  k = l
      <3>1. /\ k + 1 \in 1 .. n /\ t[k] = seq[k + 1]
            /\ l + 1 \in 1 .. n /\ t[l] = seq[l + 1]
        BY <1>2, <1>4
      <3>2. k + 1 = l + 1
        BY <1>5, <2>1, <3>1
      <3> QED BY <1>4, <3>2
    <2> QED BY <1>2, <2>1 DEF EachOnce
  <1> QED BY <1>1, <1>3, <1>6, <1>7, <1>8

-----------------------------------------------------------------------------
(* What the invariant says of the parts an action looks at.                *)
LEMMA Facts ==
  ASSUME IInv
  PROVE  /\ driver \in Driver /\ driver.pc # "answer" /\ woken \in BOOLEAN
         /\ kad_handle \in Seq(KademliaEvent) /\ held \in Seq(KademliaEvent)
         /\ Stream \in Seq(KademliaEvent) /\ kad_commands \in Seq(KademliaCommand)
         /\ kad \in [running : SUBSET Nat, next_id : Nat]
         /\ EachOnce(Stream) /\ EachOnce(kad_commands)
         /\ Ended \subseteq Nat /\ Asked \subseteq Nat /\ failed \subseteq Nat
         /\ NoId \notin Nat
  <1>1. /\ driver \in Driver /\ driver.pc # "answer" /\ woken \in BOOLEAN
        /\ kad_handle \in Seq(KademliaEvent) /\ held \in Seq(KademliaEvent)
        /\ kad_commands \in Seq(KademliaCommand) /\ failed \subseteq Nat
        /\ kad \in [running : SUBSET Nat, next_id : Nat]
    BY DEF IInv, UserTypeOK
  <1>2. EachOnce(Stream) /\ EachOnce(kad_commands)
    BY DEF IInv, EndsInv
  <1>3. Stream \in Seq(KademliaEvent)
    BY <1>1 DEF Stream
  <1>4. Ended \subseteq Nat
    <2>1. \A e \in KademliaEvent : e.id \in Nat \cup {NoId}
      BY DEF KademliaEvent
    <2>2. \A k \in DOMAIN Stream : Stream[k].id \in Nat \cup {NoId}
      BY <1>3, <2>1
    <2> QED BY <2>2, IdsTyped DEF Ended
  <1>5. Asked \subseteq Nat
    <2>1. \A e \in KademliaCommand : e.id \in Nat \cup {NoId}
      BY DEF KademliaCommand
    <2>2. \A k \in DOMAIN kad_commands : kad_commands[k].id \in Nat \cup {NoId}
      BY <1>1, <2>1
    <2> QED BY <2>2, IdsTyped DEF Asked
  <1> QED BY <1>1, <1>2, <1>3, <1>4, <1>5 DEF NoId

(* Steps that concern no query.                                            *)
LEMMA LeaksKept ==
  ASSUME IInv, driver'.queries = driver.queries, kad' = kad, failed' = failed,
         Asked' = Asked, EachOnce(kad_commands'), Ended' = Ended, EachOnce(Stream)'
  PROVE  LeaksAreFailures' /\ EndsInv'
  BY DEF IInv, LeaksAreFailures, EndsInv

(* Steps that leave Kademlia and its queues alone.                         *)
LEMMA KademliaKept ==
  ASSUME IInv, driver'.queries = driver.queries, failed' = failed,
         kad_handle' = kad_handle, UNCHANGED kadVars
  PROVE  /\ LeaksAreFailures' /\ EndsInv'
         /\ kad_handle' \in Seq(KademliaEvent) /\ held' \in Seq(KademliaEvent)
         /\ kad_commands' \in Seq(KademliaCommand)
         /\ kad' \in [running : SUBSET Nat, next_id : Nat]
         /\ failed' \subseteq Nat
  <1>1. kad_commands' = kad_commands /\ held' = held /\ kad' = kad
    BY DEF kadVars
  <1>2. Stream' = Stream /\ Asked' = Asked
    BY <1>1 DEF Stream, Asked
  <1>3. Ended' = Ended /\ EachOnce(kad_commands') /\ EachOnce(Stream)'
    <2>1. Ended' = Ended
      BY <1>2 DEF Ended
    <2>2. EachOnce(Stream)'
      BY <1>2, Facts DEF EachOnce
    <2> QED BY <1>1, <2>1, <2>2, Facts
  <1>4. LeaksAreFailures' /\ EndsInv'
    BY <1>1, <1>2, <1>3, LeaksKept
  <1> QED BY <1>1, <1>4, Facts

(* A step after which the task is awake or not in next().                  *)
LEMMA AwakeKept ==
  ASSUME driver'.pc = "next" => woken' PROVE SleepsOnlyWhenIgnored' /\ SleepInv'
  BY DEF SleepsOnlyWhenIgnored, SleepInv

-----------------------------------------------------------------------------
LEMMA AddKnownPeerGood == ASSUME IInv, AddKnownPeer PROVE IInv'
  <1>1. /\ UNCHANGED kadVars /\ failed' = failed /\ kad_handle' = kad_handle /\ woken' = TRUE
        /\ UNCHANGED <<driver, registered, ping, identify, told, ignored>>
        /\ half_added' \in BOOLEAN
    BY DEF AddKnownPeer, streamVars, Sent
  <1>2. driver'.queries = driver.queries
    BY <1>1
  <1>3. SleepsOnlyWhenIgnored' /\ SleepInv'
    BY <1>1, AwakeKept
  <1>4. UserTypeOK'
    BY <1>1, <1>2, KademliaKept DEF IInv, UserTypeOK
  <1> QED BY <1>1, <1>2, <1>3, <1>4, KademliaKept DEF IInv

(* A command goes to Kademlia.                                             *)
LEMMA KademliaAsked ==
  ASSUME IInv, NEW c \in KademliaCommand, SendsKademlia(c)
  PROVE  /\ kad_commands' \in Seq(KademliaCommand)
         /\ Asked' = Asked \cup ({c.id} \ {NoId})
         /\ c.id \notin Asked => EachOnce(kad_commands')
         /\ Ended' = Ended /\ EachOnce(Stream)'
         /\ UNCHANGED <<registered, ping, identify, kad_handle, held, told, failed, ignored>>
         /\ SleepsOnlyWhenIgnored' /\ SleepInv'
  <1>1. /\ UNCHANGED <<registered, ping, identify, kad_handle, held, told, failed, ignored>>
        /\ woken' = TRUE /\ kad_commands' = Append(kad_commands, c)
    BY DEF SendsKademlia, streamVars
  <1>2. kad_commands \in Seq(KademliaCommand) /\ EachOnce(kad_commands) /\ EachOnce(Stream)
    BY Facts
  <1>3. /\ Append(kad_commands, c) \in Seq(KademliaCommand)
        /\ IdsIn(Append(kad_commands, c)) = IdsIn(kad_commands) \cup ({c.id} \ {NoId})
        /\ c.id \notin IdsIn(kad_commands) => EachOnce(Append(kad_commands, c))
    BY <1>2, QueueAppended
  <1>4. Asked = IdsIn(kad_commands) /\ Asked' = IdsIn(kad_commands')
    BY DEF Asked, IdsIn
  <1>5. Stream' = Stream
    BY <1>1 DEF Stream
  <1>6. Ended' = Ended /\ EachOnce(Stream)'
    BY <1>2, <1>5 DEF Ended, EachOnce
  <1>7. SleepsOnlyWhenIgnored' /\ SleepInv'
    BY <1>1, AwakeKept
  <1> QED BY <1>1, <1>3, <1>4, <1>6, <1>7

LEMMA AddKnownPeerReturnsGood == ASSUME IInv, AddKnownPeerReturns PROVE IInv'
  <1>1. PICK c \in KademliaCommand : SendsKademlia(c) /\ c.id = NoId
    BY DEF AddKnownPeerReturns, KademliaCommand
  <1>2. /\ driver' = AddressSent(driver) /\ Wants(driver) = "AddKnownAddress"
        /\ half_added' = FALSE /\ kad' = kad /\ woken' = TRUE
    BY DEF AddKnownPeerReturns, SendsKademlia
  <1>3. driver' \in Driver /\ driver'.pc # "answer" /\ driver'.queries = driver.queries
    BY <1>2, Facts, AddressSentTyped
  <1>4. /\ kad_commands' \in Seq(KademliaCommand) /\ Asked' = Asked /\ EachOnce(kad_commands')
        /\ Ended' = Ended /\ EachOnce(Stream)'
        /\ UNCHANGED <<registered, ping, identify, kad_handle, held, told, failed, ignored>>
        /\ SleepsOnlyWhenIgnored' /\ SleepInv'
    <2>1. NoId \notin Asked
      BY Facts
    <2> QED BY <1>1, <2>1, KademliaAsked
  <1>5. LeaksAreFailures' /\ EndsInv'
    BY <1>2, <1>3, <1>4, LeaksKept
  <1>6. UserTypeOK'
    BY <1>2, <1>3, <1>4 DEF IInv, UserTypeOK
  <1> QED BY <1>4, <1>5, <1>6 DEF IInv

LEMMA FindNodeCallGood == ASSUME IInv, FindNodeCall PROVE IInv'
  <1>1. PICK m \in Nat : m = kad.next_id
    BY Facts
  <1>2. PICK c \in KademliaCommand : SendsKademlia(c) /\ c.id = m
    BY <1>1 DEF FindNodeCall, KademliaCommand
  <1>3. /\ kad' = [kad EXCEPT !.next_id = m + 1] /\ half_added' = half_added /\ woken' = TRUE
        /\ driver' = QueryStarted(driver, m)
    BY <1>1 DEF FindNodeCall, SendsKademlia
  <1>4. /\ kad'.running = kad.running /\ kad'.next_id = m + 1
        /\ kad' \in [running : SUBSET Nat, next_id : Nat]
    <2>1. kad \in [running : SUBSET Nat, next_id : Nat]
      BY Facts
    <2> QED BY <1>3, <2>1
  <1>5. driver' \in Driver /\ driver'.pc # "answer" /\ driver'.queries = driver.queries \cup {m}
    BY <1>3, Facts, QueryStartedTyped
  <1>6. /\ \A id \in Asked \cup kad.running \cup Ended \cup failed : id \in Nat /\ id < m
        /\ m \notin Asked \cup kad.running \cup Ended \cup failed
    <2>1. \A id \in Asked \cup kad.running \cup Ended \cup failed : id \in Nat
      BY Facts
    <2>2. \A id \in Asked \cup kad.running \cup Ended \cup failed : id < m
      BY <1>1 DEF IInv, EndsInv
    <2> QED BY <2>1, <2>2
  <1>7. /\ kad_commands' \in Seq(KademliaCommand) /\ Asked' = Asked \cup {m}
        /\ EachOnce(kad_commands') /\ Ended' = Ended /\ EachOnce(Stream)'
        /\ UNCHANGED <<registered, ping, identify, kad_handle, held, told, failed, ignored>>
        /\ SleepsOnlyWhenIgnored' /\ SleepInv'
    <2>1. m # NoId /\ m \notin Asked
      BY <1>6, Facts
    <2> QED BY <1>2, <2>1, KademliaAsked
  <1>8. LeaksAreFailures'
    BY <1>4, <1>5, <1>6, <1>7 DEF IInv, LeaksAreFailures
  <1>9. EndsInv'
    <2>1. \A id \in (Asked \cup kad.running \cup Ended \cup failed) \cup {m} : id < m + 1
      BY <1>6
    <2>2. \A id \in Asked' \cup kad'.running \cup Ended' \cup failed' : id < kad'.next_id
      BY <1>4, <1>7, <2>1
    <2>3. /\ Asked' \cap (kad'.running \cup Ended') = {}
          /\ kad'.running \cap Ended' = {}
      BY <1>4, <1>6, <1>7 DEF IInv, EndsInv
    <2> QED BY <1>7, <2>2, <2>3 DEF EndsInv
  <1>10. UserTypeOK'
    BY <1>3, <1>4, <1>5, <1>7 DEF IInv, UserTypeOK
  <1> QED BY <1>7, <1>8, <1>9, <1>10 DEF IInv

-----------------------------------------------------------------------------
(* One poll of the ping stream.                                            *)
LEMMA PollsTyped ==
  ASSUME IInv, Polls
  PROVE  /\ ping' \in Nat /\ told' = told /\ driver.pc = "next" /\ woken
         /\ half_added' = half_added /\ kad' = kad /\ kad_commands' = kad_commands
         /\ held' = held /\ UNCHANGED kadVars
  BY DEF IInv, UserTypeOK, Polls, kadVars

LEMMA PollIdentifiedGood ==
  ASSUME IInv, NEW n \in 0 .. MaxAdds, NEW stop \in BOOLEAN, PollIdentified(n, stop)
  PROVE  IInv'
  <1>1. /\ Polls /\ identify' \in Nat /\ ignored' = FALSE
        /\ UNCHANGED <<woken, registered, kad_handle, failed>>
        /\ driver' = PeerIdentified(driver, n, stop)
    BY DEF PollIdentified, IInv, UserTypeOK
  <1>2. driver' \in Driver /\ driver'.pc # "answer" /\ driver'.queries = driver.queries
    <2>1. n \in Nat
      BY Litep2pAssumption
    <2> QED BY <1>1, <2>1, Facts, PeerIdentifiedTyped
  <1>3. SleepsOnlyWhenIgnored' /\ SleepInv'
    BY <1>1, PollsTyped, AwakeKept
  <1>4. UserTypeOK'
    BY <1>1, <1>2, PollsTyped DEF IInv, UserTypeOK
  <1> QED BY <1>1, <1>2, <1>3, <1>4, PollsTyped, KademliaKept DEF IInv

LEMMA PollEmptyGood == ASSUME IInv, PollEmpty PROVE IInv'
  <1>1. /\ Polls /\ woken' = FALSE /\ registered' = FoundEmpty \cup {"kad"} /\ ignored' = FALSE
        /\ UNCHANGED <<driver, identify, kad_handle, failed>>
        /\ identify = 0 /\ kad_handle = << >>
    BY DEF PollEmpty
  <1>2. SleepsOnlyWhenIgnored' /\ SleepInv'
    BY <1>1 DEF SleepsOnlyWhenIgnored, SleepInv, FoundEmpty
  <1>3. UserTypeOK'
    BY <1>1, PollsTyped DEF IInv, UserTypeOK, FoundEmpty
  <1>4. driver'.queries = driver.queries
    BY <1>1
  <1> QED BY <1>1, <1>2, <1>3, <1>4, PollsTyped, KademliaKept DEF IInv

(* The oldest event of the handle is the oldest on the way.                *)
LEMMA StreamTaken ==
  ASSUME NEW S, NEW u \in Seq(S), u # << >>, NEW v \in Seq(S)
  PROVE  /\ Tail(u) \o v = Tail(u \o v) /\ Head(u \o v) = Head(u)
         /\ u \o v # << >> /\ u \o v \in Seq(S)
  OBVIOUS

(* The polls that take an event of Kademlia.                               *)
LEMMA TakesOldest ==
  ASSUME IInv, NEW whats, TakesEvent(whats)
  PROVE  /\ Head(kad_handle) \in KademliaEvent /\ Head(kad_handle).what \in whats
         /\ kad_handle' \in Seq(KademliaEvent) /\ EachOnce(Stream)'
         /\ Ended' = Ended \ {Head(kad_handle).id}
         /\ Head(kad_handle).id # NoId => Head(kad_handle).id \in Ended
         /\ ping' \in Nat /\ identify' = identify /\ identify = 0
         /\ kad' = kad /\ told' = told /\ driver.pc = "next" /\ woken
         /\ half_added' = half_added /\ kad_commands' = kad_commands /\ held' = held
         /\ Asked' = Asked /\ EachOnce(kad_commands')
  <1>1. /\ kad_handle \in Seq(KademliaEvent) /\ held \in Seq(KademliaEvent)
        /\ EachOnce(Stream) /\ kad_handle # << >>
    BY Facts DEF TakesEvent
  <1>2. kad_handle' = Tail(kad_handle) /\ Head(kad_handle).what \in whats
    BY DEF TakesEvent
  <1>3. /\ ping' \in Nat /\ identify' = identify /\ identify = 0
        /\ kad' = kad /\ told' = told /\ driver.pc = "next" /\ woken
        /\ half_added' = half_added /\ kad_commands' = kad_commands /\ held' = held
    BY PollsTyped DEF TakesEvent
  <1>4. PICK u \in Seq(KademliaEvent) : u = Stream
    BY Facts
  <1>5. u # << >> /\ Head(u) = Head(kad_handle) /\ Stream' = Tail(u) /\ EachOnce(u)
    BY <1>1, <1>2, <1>3, <1>4, StreamTaken DEF Stream
  <1>6. /\ Head(u) \in KademliaEvent /\ IdsIn(Tail(u)) = IdsIn(u) \ {Head(u).id}
        /\ Head(u).id # NoId => Head(u).id \in IdsIn(u)
        /\ EachOnce(Tail(u))
    BY <1>5, QueueTaken
  <1>7. Ended = IdsIn(u) /\ Ended' = IdsIn(Tail(u))
    BY <1>4, <1>5 DEF Ended, IdsIn
  <1>8. EachOnce(Stream)'
    BY <1>5, <1>6 DEF EachOnce
  <1>9. Asked' = Asked /\ EachOnce(kad_commands')
    BY <1>3, Facts DEF Asked
  <1>10. kad_handle' \in Seq(KademliaEvent)
    BY <1>1, <1>2
  <1> QED BY <1>2, <1>3, <1>5, <1>6, <1>7, <1>8, <1>9, <1>10

LEMMA EventId ==
  ASSUME NEW e \in KademliaEvent
  PROVE  /\ e.what \in {"FindNodeSuccess", "QueryFailed"} => e.id \in Nat
         /\ e.what \in {"RoutingTableUpdate", "Other"} => e.id = NoId
  BY DEF KademliaEvent

(* FindNodeSuccess frees the slot of its query.                            *)
LEMMA PollFindNodeSuccessGood ==
  ASSUME IInv, NEW n \in 0 .. MaxAdds, NEW stop \in BOOLEAN, PollFindNodeSuccess(n, stop)
  PROVE  IInv'
  <1>0. PICK id : id = Head(kad_handle).id
    OBVIOUS
  <1>1. /\ TakesEvent({"FindNodeSuccess"}) /\ driver' = FindNode(driver, id, n, stop)
        /\ ignored' = FALSE /\ UNCHANGED <<woken, registered, failed>>
    BY <1>0 DEF PollFindNodeSuccess
  <1>2. /\ kad_handle' \in Seq(KademliaEvent) /\ EachOnce(Stream)'
        /\ Ended' = Ended \ {id} /\ id \in Ended
        /\ Asked' = Asked /\ EachOnce(kad_commands')
        /\ kad_commands' = kad_commands /\ held' = held /\ half_added' = half_added
        /\ ping' \in Nat /\ identify' = identify
        /\ kad' = kad /\ told' = told /\ driver.pc = "next" /\ woken
    <2>1. id \in Nat
      BY <1>0, <1>1, TakesOldest, EventId
    <2>2. id # NoId
      BY <2>1, Facts
    <2> QED BY <1>0, <1>1, <2>2, TakesOldest
  <1>3. driver' \in Driver /\ driver'.pc # "answer" /\ driver'.queries = driver.queries \ {id}
    <2>1. n \in Nat /\ driver \in Driver
      BY Facts, Litep2pAssumption
    <2>2. PICK d : d = FindNode(driver, id, n, stop)
      OBVIOUS
    <2>3. d \in Driver /\ d.pc # "answer" /\ d.queries = driver.queries \ {id}
      BY <2>1, <2>2, FindNodeTyped
    <2> QED BY <1>1, <2>2, <2>3
  <1>4. LeaksAreFailures'
    BY <1>1, <1>2, <1>3 DEF IInv, LeaksAreFailures, EndsInv
  <1>5. EndsInv'
    BY <1>1, <1>2 DEF IInv, EndsInv
  <1>6. SleepsOnlyWhenIgnored' /\ SleepInv'
    BY <1>1, <1>2, AwakeKept
  <1>7. UserTypeOK'
    BY <1>1, <1>2, <1>3 DEF IInv, UserTypeOK
  <1> QED BY <1>4, <1>5, <1>6, <1>7 DEF IInv

(* QueryFailed is read and its slot stays taken.                           *)
LEMMA PollIgnoredGood == ASSUME IInv, PollIgnored PROVE IInv'
  <1>0. PICK id, what : id = Head(kad_handle).id /\ what = Head(kad_handle).what
    OBVIOUS
  <1>1. /\ TakesEvent({"RoutingTableUpdate", "QueryFailed"})
        /\ failed' = IF what = "QueryFailed" THEN failed \cup {id} ELSE failed
        /\ woken' = FALSE /\ registered' = FoundEmpty /\ ignored' = TRUE /\ driver' = driver
    BY <1>0 DEF PollIgnored
  <1>2. /\ kad_handle' \in Seq(KademliaEvent) /\ EachOnce(Stream)'
        /\ Ended' = Ended \ {id} /\ Asked' = Asked /\ EachOnce(kad_commands')
        /\ kad_commands' = kad_commands /\ held' = held /\ half_added' = half_added
        /\ ping' \in Nat /\ identify' = identify /\ identify = 0
        /\ kad' = kad /\ told' = told
    BY <1>0, <1>1, TakesOldest
  <1>3. \/ what = "QueryFailed" /\ id \in Ended /\ id \in Nat
        \/ what = "RoutingTableUpdate" /\ Ended' = Ended
    <2>1. /\ Head(kad_handle) \in KademliaEvent /\ what \in {"RoutingTableUpdate", "QueryFailed"}
          /\ id # NoId => id \in Ended
      BY <1>0, <1>1, TakesOldest
    <2>2. what = "QueryFailed" => id \in Nat
      BY <1>0, <2>1, EventId
    <2>3. what = "RoutingTableUpdate" => id = NoId
      BY <1>0, <2>1, EventId
    <2> QED BY <1>2, <2>1, <2>2, <2>3, Facts
  <1>4. Asked \cap Ended = {} /\ kad.running \cap Ended = {}
    BY DEF IInv, EndsInv
  <1>5. LeaksAreFailures'
    <2>1. CASE what = "QueryFailed"
      BY <1>1, <1>2, <1>3, <1>4, <2>1 DEF IInv, LeaksAreFailures
    <2>2. CASE what = "RoutingTableUpdate"
      BY <1>1, <1>2, <1>3, <2>2 DEF IInv, LeaksAreFailures
    <2> QED BY <1>3, <2>1, <2>2
  <1>6. EndsInv'
    <2>1. Ended' \cup failed' \subseteq Ended \cup failed /\ Ended' \subseteq Ended
      BY <1>1, <1>2, <1>3
    <2> QED BY <1>2, <2>1 DEF IInv, EndsInv
  <1>7. SleepsOnlyWhenIgnored' /\ SleepInv'
    BY <1>1, <1>2 DEF SleepsOnlyWhenIgnored, SleepInv, FoundEmpty
  <1>8. UserTypeOK'
    <2>1. failed' \subseteq Nat /\ registered' \subseteq {"ping", "identify", "kad"}
      BY <1>1, <1>3 DEF IInv, UserTypeOK, FoundEmpty
    <2> QED BY <1>1, <1>2, <2>1 DEF IInv, UserTypeOK
  <1> QED BY <1>5, <1>6, <1>7, <1>8 DEF IInv

LEMMA PollOtherGood == ASSUME IInv, PollOther PROVE IInv'
  <1>1. /\ TakesEvent({"Other"}) /\ woken' = TRUE /\ registered' = FoundEmpty /\ ignored' = FALSE
        /\ UNCHANGED <<driver, failed>>
    BY DEF PollOther
  <1>2. /\ kad_handle' \in Seq(KademliaEvent) /\ EachOnce(Stream)' /\ Ended' = Ended
        /\ Asked' = Asked /\ EachOnce(kad_commands')
        /\ kad_commands' = kad_commands /\ held' = held /\ half_added' = half_added
        /\ ping' \in Nat /\ identify' = identify
        /\ kad' = kad /\ told' = told
    <2>1. Head(kad_handle).id = NoId
      BY <1>1, TakesOldest, EventId
    <2>2. NoId \notin Ended
      BY Facts
    <2> QED BY <1>1, <2>1, <2>2, TakesOldest
  <1>3. LeaksAreFailures' /\ EndsInv'
    BY <1>1, <1>2, LeaksKept
  <1>4. SleepsOnlyWhenIgnored' /\ SleepInv'
    BY <1>1, AwakeKept
  <1>5. UserTypeOK'
    BY <1>1, <1>2 DEF IInv, UserTypeOK, FoundEmpty
  <1> QED BY <1>3, <1>4, <1>5 DEF IInv

-----------------------------------------------------------------------------
(* The background task and litep2p.                                        *)
LEMMA HandleCommandGood == ASSUME IInv, HandleCommand PROVE IInv'
  <1>1. /\ UNCHANGED kadVars /\ failed' = failed /\ kad_handle' = kad_handle
        /\ UNCHANGED <<driver, registered, half_added, ping, identify, told, ignored>>
        /\ woken' \in BOOLEAN /\ (woken => woken')
    BY Facts DEF HandleCommand, streamVars
  <1>2. driver'.queries = driver.queries
    BY <1>1
  <1>3. SleepsOnlyWhenIgnored' /\ SleepInv'
    BY <1>1 DEF IInv, SleepsOnlyWhenIgnored, SleepInv
  <1>4. UserTypeOK'
    BY <1>1, <1>2, KademliaKept DEF IInv, UserTypeOK
  <1> QED BY <1>1, <1>2, <1>3, <1>4, KademliaKept DEF IInv

LEMMA PingArrivesGood == ASSUME IInv, PingArrives PROVE IInv'
  <1>1. /\ UNCHANGED kadVars /\ failed' = failed /\ kad_handle' = kad_handle
        /\ UNCHANGED <<driver, half_added, identify, ignored>>
        /\ woken' \in BOOLEAN /\ (woken => woken') /\ registered' = registered \ {"ping"}
        /\ ping' \in Nat /\ told' \in 0 .. MaxTold
    BY Facts, Litep2pAssumption DEF PingArrives, Wakes, IInv, UserTypeOK
  <1>2. driver'.queries = driver.queries
    BY <1>1
  <1>3. SleepsOnlyWhenIgnored' /\ SleepInv'
    BY <1>1 DEF IInv, SleepsOnlyWhenIgnored, SleepInv
  <1>4. UserTypeOK'
    BY <1>1, <1>2, KademliaKept DEF IInv, UserTypeOK
  <1> QED BY <1>1, <1>2, <1>3, <1>4, KademliaKept DEF IInv

LEMMA IdentifyArrivesGood == ASSUME IInv, IdentifyArrives PROVE IInv'
  <1>1. /\ UNCHANGED kadVars /\ failed' = failed /\ kad_handle' = kad_handle
        /\ UNCHANGED <<driver, half_added, ping, ignored>>
        /\ woken' = (woken \/ "identify" \in registered)
        /\ registered' = registered \ {"identify"}
        /\ identify' \in Nat /\ told' \in 0 .. MaxTold
    BY Litep2pAssumption DEF IdentifyArrives, Wakes, IInv, UserTypeOK
  <1>2. driver'.queries = driver.queries
    BY <1>1
  <1>3. driver'.pc = "next" => woken'
    BY <1>1 DEF IInv, SleepInv
  <1>4. SleepsOnlyWhenIgnored' /\ SleepInv'
    BY <1>3, AwakeKept
  <1>5. UserTypeOK'
    <2>1. woken' \in BOOLEAN
      BY <1>1
    <2> QED BY <1>1, <1>2, <2>1, KademliaKept DEF IInv, UserTypeOK
  <1> QED BY <1>1, <1>2, <1>4, <1>5, KademliaKept DEF IInv

(* An event of Kademlia wakes the task unless the last poll ended in an    *)
(* empty arm.                                                              *)
LEMMA KademliaWakes ==
  ASSUME IInv, Wakes("kad"), identify' = identify
  PROVE  /\ SleepsOnlyWhenIgnored' /\ SleepInv'
         /\ woken' \in BOOLEAN /\ registered' \subseteq {"ping", "identify", "kad"}
         /\ UNCHANGED <<driver, half_added, failed, ignored>>
  <1>1. /\ woken' = (woken \/ "kad" \in registered) /\ registered' = registered \ {"kad"}
        /\ UNCHANGED <<driver, half_added, failed, ignored>>
    BY DEF Wakes
  <1>2. woken' \in BOOLEAN /\ registered' \subseteq {"ping", "identify", "kad"}
    BY <1>1 DEF IInv, UserTypeOK
  <1>3. driver.pc = "next" /\ ~woken' => ignored /\ "identify" \in registered' /\ identify = 0
    BY <1>1 DEF IInv, SleepInv, SleepsOnlyWhenIgnored
  <1>4. SleepsOnlyWhenIgnored' /\ SleepInv'
    BY <1>1, <1>3 DEF SleepsOnlyWhenIgnored, SleepInv
  <1> QED BY <1>1, <1>2, <1>4

(* The sleep of the task does not depend on what Kademlia does meanwhile.  *)
LEMMA KademliaWorksKept ==
  ASSUME IInv, KademliaWorks
  PROVE  /\ SleepsOnlyWhenIgnored' /\ SleepInv' /\ held = << >> /\ Stream = kad_handle
         /\ UNCHANGED <<driver, woken, registered, half_added, ping, identify, kad_handle,
                        failed, ignored>>
  <1>1. /\ held = << >>
        /\ UNCHANGED <<driver, woken, registered, half_added, ping, identify, kad_handle,
                       failed, ignored>>
    BY DEF KademliaWorks, streamVars
  <1>2. SleepsOnlyWhenIgnored' /\ SleepInv'
    BY <1>1 DEF IInv, SleepsOnlyWhenIgnored, SleepInv
  <1>3. Stream = kad_handle
    BY <1>1, Facts DEF Stream
  <1> QED BY <1>1, <1>2, <1>3

(* Kademlia takes a command: a query that was asked for runs.              *)
LEMMA KademliaTakesGood == ASSUME IInv, KademliaTakes PROVE IInv'
  <1>1. /\ KademliaWorks /\ kad_commands # << >> /\ kad_commands' = Tail(kad_commands)
        /\ held' = held /\ told' = told
        /\ kad' = [kad EXCEPT !.running = @ \cup ({Head(kad_commands).id} \ {NoId})]
    BY DEF KademliaTakes
  <1>2. /\ SleepsOnlyWhenIgnored' /\ SleepInv'
        /\ UNCHANGED <<driver, woken, registered, half_added, ping, identify, kad_handle,
                       failed, ignored>>
    BY <1>1, KademliaWorksKept
  <1>3. PICK id : id = Head(kad_commands).id
    OBVIOUS
  <1>4. /\ kad_commands' \in Seq(KademliaCommand) /\ EachOnce(kad_commands')
        /\ Asked' = Asked \ {id} /\ (id # NoId => id \in Asked)
    <2>1. kad_commands \in Seq(KademliaCommand) /\ EachOnce(kad_commands)
      BY Facts
    <2>2. /\ Tail(kad_commands) \in Seq(KademliaCommand)
          /\ IdsIn(Tail(kad_commands)) = IdsIn(kad_commands) \ {id}
          /\ id # NoId => id \in IdsIn(kad_commands)
          /\ EachOnce(Tail(kad_commands))
      BY <1>1, <1>3, <2>1, QueueTaken
    <2>3. Asked = IdsIn(kad_commands) /\ Asked' = IdsIn(kad_commands')
      BY DEF Asked, IdsIn
    <2> QED BY <1>1, <2>2, <2>3
  <1>5. Ended' = Ended /\ EachOnce(Stream)'
    <2>1. Stream' = Stream
      BY <1>1, <1>2 DEF Stream
    <2> QED BY <2>1, Facts DEF Ended, EachOnce
  <1>6. CASE id = NoId
    <2>1. kad' = kad /\ Asked' = Asked
      <3>1. {id} \ {NoId} = {} /\ NoId \notin Asked
        BY <1>6, Facts
      <3>2. kad.running \cup ({id} \ {NoId}) = kad.running
        BY <3>1
      <3>3. kad' = [kad EXCEPT !.running = kad.running]
        BY <1>1, <1>3, <3>2
      <3> QED BY <1>4, <1>6, <3>1, <3>3, Facts
    <2>2. driver'.queries = driver.queries
      BY <1>2
    <2>3. LeaksAreFailures' /\ EndsInv'
      BY <1>2, <1>4, <1>5, <2>1, <2>2, LeaksKept
    <2>4. UserTypeOK'
      BY <1>1, <1>2, <1>4, <2>1 DEF IInv, UserTypeOK
    <2> QED BY <1>2, <2>3, <2>4 DEF IInv
  <1>7. CASE id # NoId
    <2>1. id \in Asked /\ id \in Nat
      BY <1>4, <1>7, Facts
    <2>2. /\ kad'.running = kad.running \cup {id} /\ kad'.next_id = kad.next_id
          /\ kad' \in [running : SUBSET Nat, next_id : Nat]
      <3>1. {id} \ {NoId} = {id}
        BY <1>7
      <3>2. kad \in [running : SUBSET Nat, next_id : Nat]
        BY Facts
      <3> QED BY <1>1, <1>3, <2>1, <3>1, <3>2
    <2>3. Asked' \cup kad'.running = Asked \cup kad.running
      BY <1>4, <2>1, <2>2
    <2>4. LeaksAreFailures'
      BY <1>2, <1>5, <2>3 DEF IInv, LeaksAreFailures
    <2>5. EndsInv'
      <3>1. \A i \in Asked' \cup kad'.running \cup Ended' \cup failed' : i < kad'.next_id
        BY <1>2, <1>5, <2>2, <2>3 DEF IInv, EndsInv
      <3>2. Asked \cap (kad.running \cup Ended) = {} /\ kad.running \cap Ended = {}
        BY DEF IInv, EndsInv
      <3>3. Asked' \cap (kad'.running \cup Ended') = {} /\ kad'.running \cap Ended' = {}
        BY <1>4, <1>5, <2>1, <2>2, <3>2
      <3> QED BY <1>4, <1>5, <3>1, <3>3 DEF EndsInv
    <2>6. UserTypeOK'
      BY <1>1, <1>2, <1>4, <2>2 DEF IInv, UserTypeOK
    <2> QED BY <1>2, <2>4, <2>5, <2>6 DEF IInv
  <1> QED BY <1>6, <1>7

(* Kademlia has an event to send, the newest on the way.                   *)
LEMMA KademliaHolds ==
  ASSUME IInv, KademliaWorks, NEW e \in KademliaEvent, held' = <<e>>,
         kad_commands' = kad_commands
  PROVE  /\ held' \in Seq(KademliaEvent)
         /\ Ended' = Ended \cup ({e.id} \ {NoId})
         /\ e.id \notin Ended => EachOnce(Stream)'
         /\ Asked' = Asked /\ EachOnce(kad_commands')
  <1>1. Stream = kad_handle /\ kad_handle' = kad_handle
    BY KademliaWorksKept
  <1>2. kad_handle \in Seq(KademliaEvent) /\ EachOnce(kad_handle)
    BY <1>1, Facts
  <1>3. PICK t : t = Append(kad_handle, e)
    OBVIOUS
  <1>4. Stream' = t
    <2>1. kad_handle \o <<e>> = Append(kad_handle, e)
      BY <1>2
    <2> QED BY <1>1, <1>3, <2>1 DEF Stream
  <1>5. /\ IdsIn(t) = IdsIn(kad_handle) \cup ({e.id} \ {NoId})
        /\ e.id \notin IdsIn(kad_handle) => EachOnce(t)
    BY <1>2, <1>3, QueueAppended
  <1>6. Ended = IdsIn(kad_handle) /\ Ended' = IdsIn(t)
    BY <1>1, <1>4 DEF Ended, IdsIn
  <1>7. EachOnce(t) => EachOnce(Stream)'
    BY <1>4 DEF EachOnce
  <1>8. Asked' = Asked /\ EachOnce(kad_commands')
    BY Facts DEF Asked
  <1> QED BY <1>5, <1>6, <1>7, <1>8

LEMMA KademliaTellsGood ==
  ASSUME IInv, NEW what \in {"RoutingTableUpdate", "Other"}, KademliaTells(what)
  PROVE  IInv'
  <1>1. PICK e \in KademliaEvent : held' = <<e>> /\ e.id = NoId
    BY DEF KademliaTells, KademliaEvent
  <1>2. /\ KademliaWorks /\ kad_commands' = kad_commands /\ kad' = kad
        /\ told' \in 0 .. MaxTold
    BY Litep2pAssumption DEF KademliaTells, IInv, UserTypeOK
  <1>3. /\ held' \in Seq(KademliaEvent) /\ Ended' = Ended /\ EachOnce(Stream)'
        /\ Asked' = Asked /\ EachOnce(kad_commands')
    <2>1. NoId \notin Ended
      BY Facts
    <2> QED BY <1>1, <1>2, <2>1, KademliaHolds
  <1>4. /\ SleepsOnlyWhenIgnored' /\ SleepInv'
        /\ UNCHANGED <<driver, woken, registered, half_added, ping, identify, kad_handle,
                       failed, ignored>>
    BY <1>2, KademliaWorksKept
  <1>5. LeaksAreFailures' /\ EndsInv'
    <2>1. driver'.queries = driver.queries
      BY <1>4
    <2> QED BY <1>2, <1>3, <1>4, <2>1, LeaksKept
  <1>6. UserTypeOK'
    BY <1>2, <1>3, <1>4 DEF IInv, UserTypeOK
  <1> QED BY <1>4, <1>5, <1>6 DEF IInv

LEMMA QueryEndsGood ==
  ASSUME IInv, NEW id \in kad.running, NEW what \in {"FindNodeSuccess", "QueryFailed"},
         QueryEnds(id, what)
  PROVE  IInv'
  <1>0. id \in Nat /\ id \notin Ended /\ id \notin Asked /\ id # NoId
    BY Facts DEF IInv, EndsInv
  <1>1. PICK e \in KademliaEvent : held' = <<e>> /\ e.id = id
    BY <1>0 DEF QueryEnds, KademliaEvent
  <1>2. /\ KademliaWorks /\ kad_commands' = kad_commands /\ told' = told
        /\ kad' = [kad EXCEPT !.running = @ \ {id}]
    BY DEF QueryEnds
  <1>3. /\ kad'.running = kad.running \ {id} /\ kad'.next_id = kad.next_id
        /\ kad' \in [running : SUBSET Nat, next_id : Nat]
    <2>1. kad \in [running : SUBSET Nat, next_id : Nat]
      BY Facts
    <2> QED BY <1>2, <2>1
  <1>4. /\ held' \in Seq(KademliaEvent) /\ Ended' = Ended \cup {id} /\ EachOnce(Stream)'
        /\ Asked' = Asked /\ EachOnce(kad_commands')
    BY <1>0, <1>1, <1>2, KademliaHolds
  <1>5. /\ SleepsOnlyWhenIgnored' /\ SleepInv'
        /\ UNCHANGED <<driver, woken, registered, half_added, ping, identify, kad_handle,
                       failed, ignored>>
    BY <1>2, KademliaWorksKept
  <1>6. kad'.running \cup Ended' = kad.running \cup Ended
    BY <1>3, <1>4
  <1>7. LeaksAreFailures'
    BY <1>4, <1>5, <1>6 DEF IInv, LeaksAreFailures
  <1>8. EndsInv'
    <2>1. \A i \in Asked' \cup kad'.running \cup Ended' \cup failed' : i < kad'.next_id
      BY <1>3, <1>4, <1>5, <1>6 DEF IInv, EndsInv
    <2>2. Asked' \cap (kad'.running \cup Ended') = {} /\ kad'.running \cap Ended' = {}
      BY <1>3, <1>4, <1>6 DEF IInv, EndsInv
    <2> QED BY <1>4, <2>1, <2>2 DEF EndsInv
  <1>9. UserTypeOK'
    BY <1>2, <1>3, <1>4, <1>5 DEF IInv, UserTypeOK
  <1> QED BY <1>5, <1>7, <1>8, <1>9 DEF IInv

(* The event arrives: it stays on the way.                                 *)
LEMMA KademliaSendsGood == ASSUME IInv, KademliaSends PROVE IInv'
  <1>1. /\ kad_handle' = kad_handle \o held /\ held' = << >> /\ Wakes("kad")
        /\ UNCHANGED <<ping, identify, kad_commands, kad, told>>
    BY DEF KademliaSends
  <1>2. /\ kad_handle' \in Seq(KademliaEvent) /\ held' \in Seq(KademliaEvent)
        /\ Stream' = Stream
    BY <1>1, Facts DEF Stream
  <1>3. /\ SleepsOnlyWhenIgnored' /\ SleepInv'
        /\ woken' \in BOOLEAN /\ registered' \subseteq {"ping", "identify", "kad"}
        /\ UNCHANGED <<driver, half_added, failed, ignored>>
    BY <1>1, KademliaWakes
  <1>4. LeaksAreFailures' /\ EndsInv'
    <2>1. Ended' = Ended /\ EachOnce(Stream)' /\ Asked' = Asked /\ EachOnce(kad_commands')
      BY <1>1, <1>2, Facts DEF Ended, EachOnce, Asked
    <2>2. driver'.queries = driver.queries
      BY <1>3
    <2> QED BY <1>1, <1>3, <2>1, <2>2, LeaksKept
  <1>5. UserTypeOK'
    BY <1>1, <1>2, <1>3 DEF IInv, UserTypeOK
  <1> QED BY <1>3, <1>4, <1>5 DEF IInv

-----------------------------------------------------------------------------
LEMMA InitGood == ASSUME Init PROVE IInv
  <1>1. driver \in Driver /\ driver.pc # "answer" /\ driver.queries = {}
    <2> DEFINE d == [pc |-> "call", adds |-> BootnodeAddresses, goal |-> FirstQueries,
                     stop |-> FALSE, queries |-> {}]
    <2>1. d \in Driver /\ d.queries = {}
      BY DriverAssumption DEF Driver
    <2>2. driver = Settled(d)
      BY DEF Init, NewDriver
    <2> HIDE DEF d
    <2> QED BY <2>1, <2>2, SettledTyped
  <1>2. /\ kad_handle = << >> /\ held = << >> /\ kad_commands = << >>
        /\ Ended = {} /\ Asked = {} /\ EachOnce(kad_commands) /\ EachOnce(Stream)
    <2>1. kad_handle = << >> /\ held = << >> /\ kad_commands = << >>
      BY DEF Init
    <2>2. Stream = << >>
      BY <2>1 DEF Stream
    <2>3. IdsIn(<< >>) = {} /\ EachOnce(<< >>)
      BY DEF IdsIn, EachOnce
    <2> QED BY <2>1, <2>2, <2>3 DEF Ended, Asked
  <1>3. kad.running = {} /\ failed = {} /\ woken = TRUE
    BY DEF Init
  <1>4. UserTypeOK
    <2>1. /\ kad_handle \in Seq(KademliaEvent) /\ held \in Seq(KademliaEvent)
          /\ kad_commands \in Seq(KademliaCommand) /\ told \in 0 .. MaxTold
      BY <1>2, Litep2pAssumption DEF Init
    <2>2. kad \in [running : SUBSET Nat, next_id : Nat]
      BY DEF Init
    <2> QED BY <1>1, <2>1, <2>2 DEF Init, UserTypeOK
  <1>5. LeaksAreFailures
    BY <1>1, <1>2, <1>3 DEF LeaksAreFailures
  <1>6. EndsInv
    BY <1>2, <1>3 DEF EndsInv
  <1>7. SleepsOnlyWhenIgnored /\ SleepInv
    BY <1>3 DEF SleepsOnlyWhenIgnored, SleepInv
  <1> QED BY <1>4, <1>5, <1>6, <1>7 DEF IInv

(* Every step of the user, of the background task or of litep2p.           *)
LEMMA NextGood == ASSUME IInv, [Next]_vars PROVE IInv'
  <1>1. CASE AddKnownPeer BY <1>1, AddKnownPeerGood
  <1>2. CASE FindNodeCall BY <1>2, FindNodeCallGood
  <1>3. CASE PollEmpty BY <1>3, PollEmptyGood
  <1>4. CASE PollIgnored BY <1>4, PollIgnoredGood
  <1>5. CASE PollOther BY <1>5, PollOtherGood
  <1>6. CASE PollFound
    <2>1. PICK n \in 0 .. MaxAdds, stop \in BOOLEAN :
             PollIdentified(n, stop) \/ PollFindNodeSuccess(n, stop)
      BY <1>6 DEF PollFound
    <2> QED BY <2>1, PollIdentifiedGood, PollFindNodeSuccessGood
  <1>7. CASE HandleCommand BY <1>7, HandleCommandGood
  <1>8. CASE PingArrives BY <1>8, PingArrivesGood
  <1>9. CASE IdentifyArrives BY <1>9, IdentifyArrivesGood
  <1>10. CASE \E what \in {"RoutingTableUpdate", "Other"} : KademliaTells(what)
    BY <1>10, KademliaTellsGood
  <1>11. CASE \E id \in kad.running, what \in {"FindNodeSuccess", "QueryFailed"} : QueryEnds(id, what)
    BY <1>11, QueryEndsGood
  <1>12. CASE AddKnownPeerReturns BY <1>12, AddKnownPeerReturnsGood
  <1>13. CASE KademliaTakes BY <1>13, KademliaTakesGood
  <1>14. CASE KademliaSends BY <1>14, KademliaSendsGood
  <1>15. CASE UNCHANGED vars
    <2>1. /\ UNCHANGED kadVars /\ failed' = failed /\ kad_handle' = kad_handle
          /\ driver'.queries = driver.queries
          /\ UNCHANGED <<driver, woken, registered, half_added, ping, identify, told, ignored>>
      BY <1>15 DEF vars, streamVars
    <2>2. LeaksAreFailures' /\ EndsInv'
      BY <2>1, KademliaKept
    <2>3. UserTypeOK'
      BY <2>1, KademliaKept DEF IInv, UserTypeOK
    <2> QED BY <2>1, <2>2, <2>3 DEF IInv, SleepsOnlyWhenIgnored, SleepInv
  <1> QED BY <1>1, <1>2, <1>3, <1>4, <1>5, <1>6, <1>7, <1>8, <1>9, <1>10, <1>11, <1>12,
             <1>13, <1>14, <1>15
          DEF Next, Poll

(* The inductive invariant.                                                *)
THEOREM InductiveInvariant == Spec => []IInv
  <1>1. Init => IInv BY InitGood
  <1>2. IInv /\ [Next]_vars => IInv' BY NextGood
  <1> QED BY <1>1, <1>2, PTL DEF Spec

(* A slot of the driver is lost when its query failed, because poll_next   *)
(* does not pass QueryFailed on, and in no other way.                      *)
THEOREM FailuresAreTheLeaks == Spec => []LeaksAreFailures
  <1>1. IInv => LeaksAreFailures BY DEF IInv
  <1> QED BY <1>1, InductiveInvariant, PTL

(* The task sleeps in next() on an event of Kademlia only after a poll     *)
(* that ended in one of the two empty arms, and never on an identify item. *)
THEOREM EmptyArmsAreTheSleeps == Spec => []SleepsOnlyWhenIgnored
  <1>1. IInv => SleepsOnlyWhenIgnored BY DEF IInv
  <1> QED BY <1>1, InductiveInvariant, PTL

=============================================================================
