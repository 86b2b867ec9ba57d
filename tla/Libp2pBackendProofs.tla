------------------------ MODULE Libp2pBackendProofs -------------------------
(***************************************************************************)
(* Proofs about Libp2pBackend: its inductive invariant, for channels of    *)
(* any capacity, any number of slots of the driver and any length of run.  *)
(*                                                                         *)
(* The first two parts are lemmas about the operators the model is built   *)
(* from: the command channel never promises more places than it has, and   *)
(* the driver is in a call only when it has a command to send.             *)
(***************************************************************************)
EXTENDS Libp2pBackend, QueueLemmas, FiniteSetTheorems

-----------------------------------------------------------------------------
(* A nonempty set of naturals has a least element, so Min is in the set.   *)
LEMMA LeastElement ==
  ASSUME NEW T, T \subseteq Nat, T # {}
  PROVE  Min(T) \in T /\ \A y \in T : Min(T) <= y
  <1>1. PICK x \in T : \A y \in T : ~(<<y, x>> \in OpToRel(<, Nat))
    BY NatLessThanWellFounded, WFMin, Zenon
  <1>2. \A y \in T : y \in Nat /\ x \in Nat /\ ~(y < x)
    BY <1>1 DEF OpToRel
  <1>3. \E z \in T : \A y \in T : z =< y
    BY <1>2
  <1> QED BY <1>3, Zenon DEF Min

(* The granted actions of the ready queue.                                 *)
GrantedIn(ready) == {k \in DOMAIN ready : ready[k] = "granted"}

LEMMA GrantedFinite ==
  ASSUME NEW S, NEW r \in Seq(S)
  PROVE  IsFiniteSet(GrantedIn(r)) /\ Cardinality(GrantedIn(r)) \in Nat
  <1>0. PICK n \in Nat : n = Len(r)
    OBVIOUS
  <1>1. GrantedIn(r) \subseteq 1 .. n
    BY <1>0 DEF GrantedIn
  <1>2. IsFiniteSet(1 .. n)
    BY FS_Interval
  <1>3. IsFiniteSet(GrantedIn(r))
    BY <1>1, <1>2, FS_Subset
  <1> QED BY <1>3, FS_CardinalityType

(* pending_actions.push, and the grant of a place to an action.            *)
LEMMA GrantedAppend ==
  ASSUME NEW S, NEW r \in Seq(S), NEW e
  PROVE  Cardinality(GrantedIn(Append(r, e)))
           = Cardinality(GrantedIn(r)) + (IF e = "granted" THEN 1 ELSE 0)
  <1>0. PICK n \in Nat : n = Len(r)
    OBVIOUS
  <1>1. PICK t : t = Append(r, e)
    OBVIOUS
  <1>2. /\ DOMAIN r = 1 .. n /\ DOMAIN t = 1 .. n + 1
        /\ \A k \in 1 .. n : t[k] = r[k]
        /\ t[n + 1] = e
    BY <1>0, <1>1
  <1>3. IsFiniteSet(GrantedIn(r)) /\ Cardinality(GrantedIn(r)) \in Nat
    BY GrantedFinite
  <1>4. n + 1 \notin GrantedIn(r)
    BY <1>2 DEF GrantedIn
  <1>5. CASE e = "granted"
    <2>1. GrantedIn(t) = GrantedIn(r) \cup {n + 1}
      BY <1>2, <1>5 DEF GrantedIn
    <2> QED BY <1>1, <1>3, <1>4, <1>5, <2>1, FS_AddElement
  <1>6. CASE e # "granted"
    <2>1. GrantedIn(t) = GrantedIn(r)
      BY <1>2, <1>6 DEF GrantedIn
    <2> QED BY <1>1, <1>3, <1>6, <2>1
  <1> QED BY <1>5, <1>6

(* Completing the action at d, with the ones before it no longer ready.    *)
LEMMA GrantedRest ==
  ASSUME NEW S, NEW r \in Seq(S), NEW d \in DOMAIN r
  PROVE  Cardinality(GrantedIn(SubSeq(r, d + 1, Len(r))))
           <= Cardinality(GrantedIn(r)) - (IF r[d] = "granted" THEN 1 ELSE 0)
  <1>0. PICK n \in Nat : n = Len(r)
    OBVIOUS
  <1>1. PICK t : t = SubSeq(r, d + 1, Len(r))
    OBVIOUS
  <1>2. /\ d \in 1 .. n /\ DOMAIN r = 1 .. n /\ DOMAIN t = 1 .. n - d
        /\ \A k \in 1 .. n - d : t[k] = r[k + d]
    BY <1>0, <1>1
  <1>3. IsFiniteSet(GrantedIn(r)) /\ Cardinality(GrantedIn(r)) \in Nat
    BY GrantedFinite
  <1> DEFINE R == GrantedIn(r) \ {d}
             f == [k \in GrantedIn(t) |-> k + d]
  <1>4. /\ IsFiniteSet(R)
        /\ Cardinality(R) = Cardinality(GrantedIn(r)) - (IF r[d] = "granted" THEN 1 ELSE 0)
    <2>1. d \in GrantedIn(r) <=> r[d] = "granted"
      BY <1>2 DEF GrantedIn
    <2> QED BY <1>3, <2>1, FS_RemoveElement
  <1>5. f \in Injection(GrantedIn(t), R)
    <2>1. ASSUME NEW k \in GrantedIn(t) PROVE k \in Nat /\ k + d \in R
      <3>1. k \in 1 .. n - d /\ t[k] = "granted"
        BY <1>2 DEF GrantedIn
      <3>2. k + d \in 1 .. n /\ k + d # d /\ r[k + d] = "granted"
        BY <1>2, <3>1
      <3> QED BY <1>2, <3>1, <3>2 DEF GrantedIn
    <2>2. d \in Nat
      BY <1>2
    <2>3. \A a, b \in GrantedIn(t) : a + d = b + d => a = b
      BY <2>1, <2>2
    <2>4. f \in [GrantedIn(t) -> R]
      BY <2>1
    <2>5. \A a, b \in DOMAIN f : f[a] = f[b] => a = b
      BY <2>3
    <2> HIDE DEF R, f
    <2> QED BY <2>4, <2>5, Zenon DEF Injection, IsInjective
  <1>6. Cardinality(GrantedIn(t)) <= Cardinality(R)
    <2> HIDE DEF R, f
    <2> QED BY <1>4, <1>5, FS_Injection
  <1> HIDE DEF R, f
  <1> QED BY <1>1, <1>4, <1>6

(* A channel of its type with no more places taken and promised than it    *)
(* has.                                                                    *)
ChannelOK(ch) == ch \in Channel /\ Len(ch.queue) + Granted(ch) <= CommandBuffer

LEMMA GrantedNat ==
  ASSUME NEW ch \in Channel
  PROVE  /\ GrantedActions(ch) = Cardinality(GrantedIn(ch.ready))
         /\ GrantedActions(ch) \in Nat
         /\ ch.user = "granted" => Granted(ch) = GrantedActions(ch) + 1
         /\ ch.user # "granted" => Granted(ch) = GrantedActions(ch)
         /\ Granted(ch) \in Nat /\ Len(ch.queue) \in Nat
         /\ CommandBuffer \in Nat /\ CommandBuffer > 0
  <1>1. GrantedActions(ch) = Cardinality(GrantedIn(ch.ready))
    BY DEF GrantedActions, GrantedIn
  <1>2. ch.ready \in Seq({"fresh", "granted"}) /\ ch.queue \in Seq(Commands)
    BY DEF Channel
  <1>3. GrantedActions(ch) \in Nat
    BY <1>1, <1>2, GrantedFinite
  <1>4. CommandBuffer \in Nat /\ CommandBuffer > 0
    BY ChannelAssumption
  <1> QED BY <1>1, <1>2, <1>3, <1>4 DEF Granted

(* The user's send.                                                        *)
LEMMA SendOK ==
  ASSUME NEW ch, ChannelOK(ch), NEW command \in Commands
  PROVE  /\ ChannelOK(Send(ch, command))
         /\ Sent(ch) => Send(ch, command).queue = Append(ch.queue, command)
         /\ ~Sent(ch) => Send(ch, command).queue = ch.queue
  <1>0. PICK c : c = Send(ch, command)
    OBVIOUS
  <1>1. ch \in Channel /\ Len(ch.queue) + Granted(ch) <= CommandBuffer
    BY DEF ChannelOK
  <1>2. CASE Sent(ch)
    <2>1. c = [ch EXCEPT !.queue = Append(@, command), !.user = "idle"]
      BY <1>0, <1>2 DEF Send
    <2>a. /\ Append(ch.queue, command) \in Seq(Commands)
          /\ Len(Append(ch.queue, command)) = Len(ch.queue) + 1
      BY <1>1 DEF Channel
    <2>2. /\ c \in Channel /\ c.queue = Append(ch.queue, command)
          /\ c.user = "idle" /\ c.ready = ch.ready
      BY <1>1, <2>1, <2>a DEF Channel
    <2>3. Len(c.queue) = Len(ch.queue) + 1
      BY <2>2, <2>a
    <2>b. GrantedActions(c) = GrantedActions(ch)
      BY <1>1, <2>2, GrantedNat
    <2>4. Granted(c) = GrantedActions(ch)
      BY <2>2, <2>b, GrantedNat
    <2>5. Len(c.queue) + Granted(c) <= CommandBuffer
      BY <1>1, <1>2, <2>3, <2>4, GrantedNat DEF Sent, Room
    <2> QED BY <1>0, <1>2, <2>2, <2>5 DEF ChannelOK
  <1>3. CASE ~Sent(ch)
    <2>1. c = [ch EXCEPT !.waiting = Append(@, "user"), !.user = "waiting"]
      BY <1>0, <1>3 DEF Send
    <2>a. Append(ch.waiting, "user") \in Seq({"action", "user"})
      BY <1>1 DEF Channel
    <2>2. /\ c \in Channel /\ c.queue = ch.queue
          /\ c.user = "waiting" /\ c.ready = ch.ready
      BY <1>1, <2>1, <2>a DEF Channel
    <2>b. GrantedActions(c) = GrantedActions(ch)
      BY <1>1, <2>2, GrantedNat
    <2>3. Granted(c) = GrantedActions(ch)
      BY <2>2, <2>b, GrantedNat
    <2>4. Len(c.queue) + Granted(c) <= CommandBuffer
      BY <1>1, <2>2, <2>3, GrantedNat
    <2> QED BY <1>0, <1>3, <2>2, <2>4 DEF ChannelOK
  <1> QED BY <1>2, <1>3

(* recv, which hands the place on to the sender that waits longest.        *)
LEMMA RecvOK ==
  ASSUME NEW ch, ChannelOK(ch), ch.queue # << >>
  PROVE  ChannelOK(Recv(ch)) /\ Recv(ch).queue = Tail(ch.queue)
  <1>0. PICK c : c = Recv(ch)
    OBVIOUS
  <1>1. ch \in Channel /\ Len(ch.queue) + Granted(ch) <= CommandBuffer
    BY DEF ChannelOK
  <1>2. /\ Tail(ch.queue) \in Seq(Commands) /\ Len(Tail(ch.queue)) = Len(ch.queue) - 1
        /\ ch.ready \in Seq({"fresh", "granted"}) /\ ch.waiting \in Seq({"action", "user"})
    BY <1>1 DEF Channel
  <1>3. CASE ch.waiting = << >>
    <2>1. c \in Channel /\ c.queue = Tail(ch.queue) /\ c.ready = ch.ready /\ c.user = ch.user
      BY <1>0, <1>1, <1>2, <1>3 DEF Recv, Channel
    <2>2. Granted(c) = Granted(ch)
      BY <1>1, <2>1, GrantedNat
    <2>3. Len(c.queue) + Granted(c) <= CommandBuffer
      BY <1>1, <1>2, <2>1, <2>2, GrantedNat
    <2> QED BY <1>0, <2>1, <2>3 DEF ChannelOK
  <1>4. CASE ch.waiting # << >>
    <2>0. Tail(ch.waiting) \in Seq({"action", "user"}) /\ Head(ch.waiting) \in {"action", "user"}
      BY <1>2, <1>4
    <2>1. CASE Head(ch.waiting) = "action"
      <3>1. c = [ch EXCEPT !.queue = Tail(@), !.waiting = Tail(@), !.ready = Append(@, "granted")]
        BY <1>0, <1>1, <1>4, <2>1 DEF Recv, Channel
      <3>2. Append(ch.ready, "granted") \in Seq({"fresh", "granted"})
        BY <1>2
      <3>3. /\ c \in Channel /\ c.queue = Tail(ch.queue) /\ c.user = ch.user
            /\ c.ready = Append(ch.ready, "granted")
        BY <1>1, <1>2, <2>0, <3>1, <3>2 DEF Channel
      <3>4. GrantedActions(c) = GrantedActions(ch) + 1
        BY <1>1, <1>2, <3>3, GrantedNat, GrantedAppend
      <3>5. Len(c.queue) + Granted(c) <= CommandBuffer
        BY <1>1, <1>2, <3>3, <3>4, GrantedNat, SMTT(30)
      <3> QED BY <1>0, <3>3, <3>5 DEF ChannelOK
    <2>2. CASE Head(ch.waiting) = "user"
      <3>1. c = [ch EXCEPT !.queue = Tail(@), !.waiting = Tail(@), !.user = "granted"]
        BY <1>0, <1>1, <1>4, <2>2 DEF Recv, Channel
      <3>2. c \in Channel /\ c.queue = Tail(ch.queue) /\ c.user = "granted" /\ c.ready = ch.ready
        BY <1>1, <1>2, <2>0, <3>1 DEF Channel
      <3>3. GrantedActions(c) = GrantedActions(ch)
        BY <1>1, <3>2, GrantedNat
      <3>4. Granted(c) = GrantedActions(ch) + 1
        BY <3>2, <3>3, GrantedNat
      <3>5. Len(c.queue) = Len(ch.queue) - 1 /\ GrantedActions(ch) <= Granted(ch)
        BY <1>1, <1>2, <3>2, GrantedNat
      <3>6. Len(c.queue) + Granted(c) <= CommandBuffer
        BY <1>1, <3>4, <3>5, GrantedNat
      <3> QED BY <1>0, <3>2, <3>6 DEF ChannelOK
    <2> QED BY <2>0, <2>1, <2>2
  <1> QED BY <1>3, <1>4

(* pending_actions.push                                                    *)
LEMMA PushOK ==
  ASSUME NEW ch, ChannelOK(ch)
  PROVE  ChannelOK(PushAction(ch)) /\ PushAction(ch).queue = ch.queue
  <1>0. PICK c : c = PushAction(ch)
    OBVIOUS
  <1>1. ch \in Channel /\ Len(ch.queue) + Granted(ch) <= CommandBuffer
    BY DEF ChannelOK
  <1>2. ch.ready \in Seq({"fresh", "granted"})
    BY <1>1 DEF Channel
  <1>3. Append(ch.ready, "fresh") \in Seq({"fresh", "granted"})
    BY <1>2
  <1>4. /\ c \in Channel /\ c.queue = ch.queue /\ c.user = ch.user
        /\ c.ready = Append(ch.ready, "fresh")
    BY <1>0, <1>1, <1>3 DEF PushAction, Channel
  <1>5. "fresh" # "granted"
    OBVIOUS
  <1>a. Cardinality(GrantedIn(c.ready)) = Cardinality(GrantedIn(ch.ready)) + 0
    BY <1>2, <1>4, <1>5, GrantedAppend
  <1>6. GrantedActions(c) = GrantedActions(ch)
    <2>1. /\ GrantedActions(c) = Cardinality(GrantedIn(c.ready))
          /\ GrantedActions(ch) = Cardinality(GrantedIn(ch.ready)) /\ GrantedActions(ch) \in Nat
      BY <1>1, <1>4, GrantedNat
    <2> QED BY <1>a, <2>1
  <1>7. Len(c.queue) + Granted(c) <= CommandBuffer
    BY <1>1, <1>4, <1>6, GrantedNat
  <1> QED BY <1>0, <1>4, <1>7 DEF ChannelOK

(* poll_next_unpin of the actions: at most one completes, and it has its   *)
(* place by grant or because there is room.                                *)
LEMMA PollOK ==
  ASSUME NEW ch, ChannelOK(ch)
  PROVE  /\ ChannelOK(PollActions(ch))
         /\ \/ PollActions(ch).queue = ch.queue
            \/ PollActions(ch).queue = Append(ch.queue, "AddKnownAddress")
  <1>0. PICK c : c = PollActions(ch)
    OBVIOUS
  <1>1. ch \in Channel /\ Len(ch.queue) + Granted(ch) <= CommandBuffer
    BY DEF ChannelOK
  <1>2. /\ ch.ready \in Seq({"fresh", "granted"}) /\ ch.waiting \in Seq({"action", "user"})
        /\ ch.queue \in Seq(Commands)
    BY <1>1 DEF Channel
  <1> DEFINE able == {k \in DOMAIN ch.ready : ch.ready[k] = "granted" \/ Room(ch)}
             W(n) == ch.waiting \o [k \in 1 .. n |-> "action"]
             done == Min(able)
  <1>3. \A n \in Nat : W(n) \in Seq({"action", "user"})
    <2> TAKE n \in Nat
    <2>1. [k \in 1 .. n |-> "action"] \in Seq({"action", "user"})
      OBVIOUS
    <2> QED BY <1>2, <2>1
  <1>4. CASE able = {}
    <2>1. c = [ch EXCEPT !.ready = << >>, !.waiting = W(Len(ch.ready))]
      BY <1>0, <1>4 DEF PollActions
    <2>2. Len(ch.ready) \in Nat
      BY <1>2
    <2>3. W(Len(ch.ready)) \in Seq({"action", "user"})
      BY <1>3, <2>2
    <2>4. c \in Channel /\ c.queue = ch.queue /\ c.user = ch.user /\ c.ready = << >>
      <3>1. << >> \in Seq({"fresh", "granted"})
        OBVIOUS
      <3> HIDE DEF W, able, done
      <3> QED BY <1>1, <2>1, <2>3, <3>1 DEF Channel
    <2>5. GrantedIn(c.ready) = {}
      BY <2>4 DEF GrantedIn
    <2>6. GrantedActions(c) = 0
      BY <2>4, <2>5, GrantedNat, FS_EmptySet
    <2>7. Len(c.queue) + Granted(c) <= CommandBuffer
      <3> HIDE DEF W, able, done
      <3> QED BY <1>1, <2>4, <2>6, GrantedNat
    <2> QED BY <1>0, <2>4, <2>7 DEF ChannelOK
  <1>5. CASE able # {}
    <2>1. able \subseteq Nat
      BY <1>2
    <2>2. done \in able
      <3> HIDE DEF able
      <3> QED BY <1>5, <2>1, LeastElement
    <2>3. /\ done \in 1 .. Len(ch.ready) /\ done \in DOMAIN ch.ready
          /\ ch.ready[done] = "granted" \/ Room(ch)
      <3> HIDE DEF done
      <3> QED BY <1>2, <2>2
    <2>4. c = [ch EXCEPT !.ready = SubSeq(@, done + 1, Len(@)), !.waiting = W(done - 1),
                         !.queue = Append(@, "AddKnownAddress")]
      BY <1>0, <1>5 DEF PollActions
    <2>5. W(done - 1) \in Seq({"action", "user"})
      <3>1. done - 1 \in Nat
        <4> HIDE DEF done
        <4> QED BY <1>2, <2>3
      <3> QED BY <1>3, <3>1
    <2> HIDE DEF W, done, able
    <2>6. SubSeq(ch.ready, done + 1, Len(ch.ready)) \in Seq({"fresh", "granted"})
      BY <1>2, <2>3
    <2>7. /\ Append(ch.queue, "AddKnownAddress") \in Seq(Commands)
          /\ Len(Append(ch.queue, "AddKnownAddress")) = Len(ch.queue) + 1
      BY <1>2 DEF Commands
    <2>8. /\ c \in Channel /\ c.user = ch.user
          /\ c.queue = Append(ch.queue, "AddKnownAddress")
          /\ c.ready = SubSeq(ch.ready, done + 1, Len(ch.ready))
      BY <1>1, <2>4, <2>5, <2>6, <2>7 DEF Channel
    <2>9. GrantedActions(c)
            <= GrantedActions(ch) - (IF ch.ready[done] = "granted" THEN 1 ELSE 0)
      BY <1>1, <1>2, <2>3, <2>8, GrantedNat, GrantedRest
    <2>10. Granted(c) <= Granted(ch) - (IF ch.ready[done] = "granted" THEN 1 ELSE 0)
      <3>1. CASE ch.user = "granted"
        <4>1. Granted(c) = GrantedActions(c) + 1 /\ Granted(ch) = GrantedActions(ch) + 1
          BY <1>1, <2>8, <3>1, GrantedNat
        <4> QED BY <1>1, <2>8, <2>9, <4>1, GrantedNat
      <3>2. CASE ch.user # "granted"
        <4>1. Granted(c) = GrantedActions(c) /\ Granted(ch) = GrantedActions(ch)
          BY <1>1, <2>8, <3>2, GrantedNat
        <4> QED BY <1>1, <2>8, <2>9, <4>1, GrantedNat
      <3> QED BY <3>1, <3>2
    <2>11. Len(c.queue) + Granted(c) <= CommandBuffer
      <3>1. CASE ch.ready[done] = "granted"
        BY <1>1, <2>7, <2>8, <2>10, <3>1, GrantedNat
      <3>2. CASE ch.ready[done] # "granted" /\ Room(ch)
        BY <1>1, <2>7, <2>8, <2>10, <3>2, GrantedNat DEF Room
      <3> QED BY <2>3, <3>1, <3>2
    <2> QED BY <1>0, <2>8, <2>11 DEF ChannelOK
  <1> QED BY <1>4, <1>5

-----------------------------------------------------------------------------
(* The driver between two of its calls: it is in a call only when it has a *)
(* command to send.                                                        *)
Ready(d) ==
  /\ d \in Driver /\ d.pc # "answer"
  /\ d.pc = "call" => Wants(d) \in Commands

LEMMA WantsKind ==
  ASSUME NEW d \in Driver
  PROVE  /\ Wants(d) \in Commands \cup {"next", "done"}
         /\ Wants(d) = "AddKnownAddress" => d.adds > 0
  BY DEF Wants, Commands, Driver

LEMMA SettledOK ==
  ASSUME NEW d \in Driver
  PROVE  Ready(Settled(d)) /\ Settled(d).queries = d.queries
  <1>0. PICK e : e = Settled(d)
    OBVIOUS
  <1>1. Wants(d) \in Commands \cup {"next", "done"}
    BY WantsKind
  <1>2. PICK pc \in {"call", "next", "done"} :
           /\ e = [d EXCEPT !.pc = pc]
           /\ pc = "call" => Wants(d) \in Commands
    BY <1>0, <1>1 DEF Settled, Commands
  <1>3. /\ e \in Driver /\ e.pc = pc /\ e.queries = d.queries
        /\ e.adds = d.adds /\ e.stop = d.stop /\ e.goal = d.goal
    BY <1>2 DEF Driver
  <1>4. Wants(e) = Wants(d)
    BY <1>3 DEF Wants
  <1> QED BY <1>0, <1>2, <1>3, <1>4 DEF Ready

LEMMA NewDriverOK == Ready(NewDriver) /\ NewDriver.queries = {}
  <1> DEFINE d == [pc |-> "call", adds |-> BootnodeAddresses, goal |-> FirstQueries,
                   stop |-> FALSE, queries |-> {}]
  <1>1. d \in Driver /\ d.queries = {}
    BY DriverAssumption DEF Driver
  <1>2. NewDriver = Settled(d)
    BY DEF NewDriver
  <1> HIDE DEF d
  <1> QED BY <1>1, <1>2, SettledOK

LEMMA AddressSentOK ==
  ASSUME NEW d \in Driver, Wants(d) = "AddKnownAddress"
  PROVE  Ready(AddressSent(d)) /\ AddressSent(d).queries = d.queries
  <1> DEFINE e == [d EXCEPT !.adds = @ - 1]
  <1>1. d.adds > 0
    BY WantsKind
  <1>2. e \in Driver /\ e.queries = d.queries
    BY <1>1 DEF Driver
  <1>3. AddressSent(d) = Settled(e)
    BY DEF AddressSent
  <1> HIDE DEF e
  <1> QED BY <1>2, <1>3, SettledOK

LEMMA QueryStartedOK ==
  ASSUME NEW d \in Driver, NEW id \in Nat
  PROVE  Ready(QueryStarted(d, id)) /\ QueryStarted(d, id).queries = d.queries \cup {id}
  <1> DEFINE e == [d EXCEPT !.queries = @ \cup {id}]
  <1>1. e \in Driver /\ e.queries = d.queries \cup {id}
    BY DEF Driver
  <1>2. QueryStarted(d, id) = Settled(e)
    BY DEF QueryStarted
  <1> HIDE DEF e
  <1> QED BY <1>1, <1>2, SettledOK

LEMMA PeerIdentifiedOK ==
  ASSUME NEW d \in Driver, NEW n \in Nat, NEW stop \in BOOLEAN
  PROVE  Ready(PeerIdentified(d, n, stop)) /\ PeerIdentified(d, n, stop).queries = d.queries
  <1> DEFINE e == [d EXCEPT !.adds = n, !.goal = Slots, !.stop = stop]
  <1>1. e \in Driver /\ e.queries = d.queries
    BY DEF Driver
  <1>2. PeerIdentified(d, n, stop) = Settled(e)
    BY DEF PeerIdentified
  <1> HIDE DEF e
  <1> QED BY <1>1, <1>2, SettledOK

LEMMA FindNodeOK ==
  ASSUME NEW d \in Driver, NEW id, NEW n \in Nat, NEW stop \in BOOLEAN
  PROVE  Ready(FindNode(d, id, n, stop)) /\ FindNode(d, id, n, stop).queries = d.queries \ {id}
  <1> DEFINE e == [d EXCEPT !.queries = @ \ {id}]
  <1>1. e \in Driver /\ e.queries = d.queries \ {id}
    BY DEF Driver
  <1>2. FindNode(d, id, n, stop) = PeerIdentified(e, n, stop)
    BY DEF FindNode
  <1> HIDE DEF e
  <1> QED BY <1>1, <1>2, PeerIdentifiedOK

-----------------------------------------------------------------------------
(* The end of a query, as an event.                                        *)
EndOf(id) == [what |-> "Finished", id |-> id]

EndedIn(seq) == {seq[k].id : k \in DOMAIN seq} \ {NoId}

(* A query is ended in a queue of events when its end is.                  *)
LEMMA EndedIs ==
  ASSUME NEW seq \in Seq(Event), NEW id
  PROVE  id \in EndedIn(seq) <=> id \in Nat /\ In(EndOf(id), seq)
  <1>1. \A k \in DOMAIN seq : seq[k] \in Event
    OBVIOUS
  <1>2. NoId \notin Nat
    BY DEF NoId
  <1>3. \A e \in Event : e.id # NoId => e.id \in Nat /\ e = EndOf(e.id)
    BY DEF Event, EndOf
  <1>4. EndOf(id).id = id
    BY DEF EndOf
  <1>5. ASSUME id \in EndedIn(seq) PROVE id \in Nat /\ In(EndOf(id), seq)
    <2>1. PICK k \in DOMAIN seq : id = seq[k].id /\ id # NoId
      BY <1>5 DEF EndedIn
    <2> QED BY <1>1, <1>3, <2>1, Zenon DEF In
  <1>6. ASSUME id \in Nat, In(EndOf(id), seq) PROVE id \in EndedIn(seq)
    <2>1. PICK k \in DOMAIN seq : seq[k] = EndOf(id)
      BY <1>6 DEF In
    <2> QED BY <1>2, <1>4, <1>6, <2>1, Zenon DEF EndedIn
  <1> QED BY <1>5, <1>6

(* The oldest event leaves the stream when it leaves the channel.          *)
LEMMA TailConcat ==
  ASSUME NEW S, NEW s \in Seq(S), NEW t \in Seq(S), s # << >>
  PROVE  /\ Tail(s) \o t = Tail(s \o t) /\ Head(s \o t) = Head(s)
         /\ s \o t # << >> /\ s \o t \in Seq(S)
  <1>1. s \o t \in Seq(S) /\ Len(s \o t) = Len(s) + Len(t) /\ Len(s) > 0
    OBVIOUS
  <1>2. s \o t # << >> /\ Head(s \o t) = Head(s)
    BY <1>1
  <1>3. PICK n \in Nat, m \in Nat : n = Len(s) /\ m = Len(t) /\ n > 0
    BY <1>1
  <1>4. PICK u, v : u = Tail(s) \o t /\ v = Tail(s \o t)
    OBVIOUS
  <1>5. /\ u \in Seq(S) /\ Len(u) = (n - 1) + m
        /\ v \in Seq(S) /\ Len(v) = (n + m) - 1
    BY <1>1, <1>2, <1>3, <1>4
  <1>6. \A k \in 1 .. (n + m) - 1 : u[k] = v[k]
    BY <1>1, <1>2, <1>3, <1>4
  <1>7. u = v
    BY <1>5, <1>6, <1>3
  <1> QED BY <1>1, <1>2, <1>4, <1>7

(* An injective translation has as many values as it has queries.          *)
LEMMA AsManyValues ==
  ASSUME NEW f, IsFiniteSet(DOMAIN f), \A i, j \in DOMAIN f : f[i] = f[j] => i = j
  PROVE  Cardinality({f[i] : i \in DOMAIN f}) = Cardinality(DOMAIN f)
  <1> DEFINE D == DOMAIN f
             T == {f[i] : i \in D}
             g == [i \in D |-> f[i]]
  <1>1. g \in [D -> T] /\ DOMAIN g = D
    OBVIOUS
  <1>2. \A a, b \in DOMAIN g : g[a] = g[b] => a = b
    OBVIOUS
  <1>3. \A y \in T : \E a \in D : g[a] = y
    OBVIOUS
  <1> HIDE DEF D, T, g
  <1>4. g \in Bijection(D, T)
    <2>1. g \in Injection(D, T)
      BY <1>1, <1>2, Zenon DEF Injection, IsInjective
    <2>2. g \in Surjection(D, T)
      BY <1>1, <1>3, Zenon DEF Surjection
    <2> QED BY <2>1, <2>2 DEF Bijection
  <1>5. Cardinality(T) = Cardinality(D)
    <2>1. ExistsBijection(D, T) /\ IsFiniteSet(D)
      BY <1>4 DEF ExistsBijection, D
    <2> QED BY <2>1, FS_Bijection
  <1> QED BY <1>5 DEF D, T

-----------------------------------------------------------------------------
(* What the invariant says of the parts an action looks at.                *)
LEMMA Facts ==
  ASSUME IInv
  PROVE  /\ ChannelOK(channel) /\ channel.queue \in Seq(Commands)
         /\ driver \in Driver
         /\ events \in Seq(Event) /\ held \in Seq(Event) /\ Stream \in Seq(Event)
         /\ Ended = EndedIn(Stream)
         /\ driver.pc # "answer" => ~In("FindNode", channel.queue) /\ answer = NoId
  <1>1. channel \in Channel /\ driver \in Driver /\ events \in Seq(Event) /\ held \in Seq(Event)
    BY DEF IInv, TypeOK
  <1>2. channel.queue \in Seq(Commands)
    BY <1>1 DEF Channel
  <1>3. ChannelOK(channel)
    BY DEF IInv, TypeOK, ChannelOK
  <1>4. Stream \in Seq(Event)
    BY <1>1 DEF Stream
  <1>5. Ended = EndedIn(Stream)
    BY DEF Ended, EndedIn
  <1>6. driver.pc # "answer" => ~In("FindNode", channel.queue) /\ answer = NoId
    BY DEF IInv, CallsInv
  <1> QED BY <1>1, <1>2, <1>3, <1>4, <1>5, <1>6

(* Steps that leave the queries and their ends alone.                      *)
LEMMA EndsKept ==
  ASSUME IInv, kad' = kad, answer' = answer, query_translate' = query_translate,
         next_query_id' = next_query_id,
         Ended' = Ended, \A id \in Ended : Once(EndOf(id), Stream')
  PROVE  IdsInv' /\ TranslationsInv'
  <1>1. IdsInv'
    BY DEF IInv, IdsInv, EndOf
  <1>2. TranslationsInv'
    BY DEF IInv, TranslationsInv
  <1> QED BY <1>1, <1>2

LEMMA QueriesKept ==
  ASSUME IInv, kad' = kad, answer' = answer, query_translate' = query_translate,
         next_query_id' = next_query_id, Stream' = Stream
  PROVE  IdsInv' /\ TranslationsInv' /\ Ended' = Ended
  <1>1. Ended' = Ended
    BY DEF Ended
  <1>2. \A id \in Ended : Once(EndOf(id), Stream')
    BY DEF IInv, IdsInv, EndOf
  <1> QED BY <1>1, <1>2, EndsKept

(* Polling the actions starts no query.                                    *)
LEMMA PollCalls ==
  ASSUME IInv, driver.pc = "next", answer' = answer, Ready(driver'),
         channel' = PollActions(channel) \/ channel' = PushAction(PollActions(channel))
  PROVE  ChannelOK(channel') /\ CallsInv' /\ answer = NoId
  <1>1. /\ ChannelOK(channel) /\ channel.queue \in Seq(Commands)
        /\ ~In("FindNode", channel.queue) /\ answer = NoId
    BY Facts
  <1>2. PICK c : c = PollActions(channel)
    OBVIOUS
  <1>3. ChannelOK(c) /\ (c.queue = channel.queue \/ c.queue = Append(channel.queue, "AddKnownAddress"))
    BY <1>1, <1>2, PollOK
  <1>4. ~In("FindNode", c.queue)
    <2>1. "FindNode" # "AddKnownAddress"
      OBVIOUS
    <2>2. ~In("FindNode", Append(channel.queue, "AddKnownAddress"))
      BY <1>1, <2>1, InAppend
    <2> QED BY <1>1, <1>3, <2>2
  <1>5. ChannelOK(channel') /\ channel'.queue = c.queue
    BY <1>2, <1>3, PushOK
  <1>6. ~In("FindNode", channel'.queue) /\ Once("FindNode", channel'.queue)
    BY <1>4, <1>5, OnceNone
  <1>7. CallsInv'
    BY <1>1, <1>6 DEF CallsInv, Ready
  <1> QED BY <1>1, <1>5, <1>7

-----------------------------------------------------------------------------
(* The user's calls.                                                       *)
LEMMA CallSendsGood == ASSUME IInv, CallSends PROVE IInv'
  <1>1. /\ ChannelOK(channel) /\ channel.queue \in Seq(Commands) /\ driver \in Driver
        /\ ~In("FindNode", channel.queue) /\ answer = NoId
    BY Facts DEF CallSends
  <1>2. Wants(driver) \in Commands
    BY DEF IInv, CallsInv, CallSends
  <1>3. /\ ChannelOK(channel')
        /\ Sent(channel) => channel'.queue = Append(channel.queue, Wants(driver))
        /\ ~Sent(channel) => channel'.queue = channel.queue
    BY <1>1, <1>2, SendOK DEF CallSends
  <1>4. IdsInv' /\ TranslationsInv' /\ Ended' = Ended
    <2>1. /\ kad' = kad /\ answer' = answer /\ query_translate' = query_translate
          /\ next_query_id' = next_query_id /\ Stream' = Stream
      BY DEF CallSends, Stream, backendVars
    <2> QED BY <2>1, QueriesKept
  <1>5. driver' \in Driver /\ driver'.queries = driver.queries /\ CallsInv'
    <2>1. CASE ~Sent(channel)
      <3>1. driver' = driver /\ channel'.queue = channel.queue /\ answer' = answer
        BY <1>3, <2>1 DEF CallSends
      <3> QED BY <1>1, <3>1 DEF IInv, CallsInv
    <2>2. CASE Sent(channel) /\ Wants(driver) = "FindNode"
      <3>1. driver' = [driver EXCEPT !.pc = "answer"] /\ answer' = NoId
        BY <1>1, <2>2 DEF CallSends
      <3>2. driver' \in Driver /\ driver'.queries = driver.queries /\ driver'.pc = "answer"
        BY <1>1, <3>1 DEF Driver
      <3>3. Once("FindNode", channel'.queue)
        <4>1. Once("FindNode", channel.queue)
          BY DEF IInv, CallsInv
        <4>2. Once("FindNode", Append(channel.queue, "FindNode"))
          BY <1>1, <4>1, InAppend
        <4> QED BY <1>3, <2>2, <4>2
      <3> QED BY <3>1, <3>2, <3>3 DEF CallsInv
    <2>3. CASE Sent(channel) /\ Wants(driver) = "AddKnownAddress"
      <3>1. driver' = AddressSent(driver) /\ answer' = NoId
        BY <1>1, <2>3 DEF CallSends
      <3>2. Ready(driver') /\ driver'.queries = driver.queries
        BY <1>1, <2>3, <3>1, AddressSentOK
      <3>3. ~In("FindNode", channel'.queue)
        <4>1. "FindNode" # "AddKnownAddress"
          OBVIOUS
        <4>2. ~In("FindNode", Append(channel.queue, "AddKnownAddress"))
          BY <1>1, <4>1, InAppend
        <4> QED BY <1>3, <2>3, <4>2
      <3> QED BY <3>1, <3>2, <3>3, OnceNone DEF CallsInv, Ready
    <2> QED BY <1>2, <2>1, <2>2, <2>3 DEF Commands
  <1>6. QueriesAccounted'
    BY <1>1, <1>4, <1>5 DEF IInv, QueriesAccounted, CallSends, backendVars
  <1>7. NoLostWakeup'
    BY DEF NoLostWakeup, CallSends
  <1>8. TypeOK'
    BY <1>3, <1>5 DEF IInv, TypeOK, ChannelOK, CallSends, backendVars
  <1> QED BY <1>4, <1>5, <1>6, <1>7, <1>8 DEF IInv

LEMMA FindNodeReturnsGood == ASSUME IInv, FindNodeReturns PROVE IInv'
  <1>1. /\ ChannelOK(channel) /\ driver \in Driver
        /\ answer \in Nat /\ next_query_id \in Nat /\ answer # NoId /\ answer' = NoId
        /\ ~In("FindNode", channel.queue) /\ Once("FindNode", channel.queue)
    BY Facts DEF IInv, TypeOK, CallsInv, FindNodeReturns
  <1>2. Ready(driver') /\ driver'.queries = driver.queries \cup {next_query_id}
    BY <1>1, QueryStartedOK DEF FindNodeReturns
  <1>3. Stream' = Stream /\ Ended' = Ended
    BY DEF Stream, Ended, FindNodeReturns
  <1>4. CallsInv'
    BY <1>1, <1>2 DEF CallsInv, Ready, FindNodeReturns
  <1> DEFINE D == DOMAIN query_translate
  <1>5. /\ DOMAIN query_translate' = D \cup {answer} /\ answer \notin D
        /\ query_translate'[answer] = next_query_id
        /\ \A id \in D : query_translate'[id] = query_translate[id]
    <2>1. answer \notin D
      BY DEF IInv, IdsInv
    <2> QED BY <2>1 DEF FindNodeReturns
  <1>6. /\ D \subseteq Nat /\ NoId \notin Nat
        /\ IsFiniteSet(D)
        /\ \A id \in D : query_translate[id] \in 0 .. next_query_id - 1
        /\ \A i, j \in D : query_translate[i] = query_translate[j] => i = j
    BY DEF IInv, TypeOK, TranslationsInv, NoId
  <1>7. next_query_id' = next_query_id + 1 /\ UNCHANGED <<channel, kad, events, held, task, told>>
    BY DEF FindNodeReturns
  <1> HIDE DEF D
  <1>8. IdsInv'
    <2>1. answer' \notin DOMAIN query_translate'
      BY <1>1, <1>5, <1>6
    <2> QED BY <1>3, <1>7, <2>1 DEF IInv, IdsInv
  <1>9. TranslationsInv'
    <2>1. IsFiniteSet(DOMAIN query_translate')
      BY <1>5, <1>6, FS_AddElement
    <2>2. \A id \in DOMAIN query_translate' : query_translate'[id] \in 0 .. next_query_id' - 1
      <3>1. \A id \in D : query_translate[id] \in 0 .. (next_query_id + 1) - 1
        BY <1>1, <1>6
      <3>2. next_query_id \in 0 .. (next_query_id + 1) - 1
        BY <1>1
      <3> QED BY <1>5, <1>7, <3>1, <3>2
    <2>3. \A i, j \in DOMAIN query_translate' : query_translate'[i] = query_translate'[j] => i = j
      <3>1. \A id \in D : query_translate[id] # next_query_id
        BY <1>1, <1>6
      <3> QED BY <1>5, <1>6, <3>1
    <2> QED BY <2>1, <2>2, <2>3 DEF TranslationsInv
  <1>10. QueriesAccounted'
    <2>1. DOMAIN query_translate' = kad.running \cup Ended
      BY <1>1, <1>5 DEF IInv, QueriesAccounted, D
    <2>2. driver'.queries = {query_translate'[id] : id \in DOMAIN query_translate'}
      <3>1. driver.queries = {query_translate[id] : id \in D}
        BY DEF IInv, QueriesAccounted, D
      <3> QED BY <1>2, <1>5, <3>1
    <2>3. Cardinality(driver'.queries) = Cardinality(DOMAIN query_translate')
      BY <1>9, <2>2, AsManyValues DEF TranslationsInv
    <2>4. ({answer'} \ {NoId}) = {}
      BY <1>1
    <2> QED BY <1>1, <1>3, <1>7, <2>1, <2>2, <2>3, <2>4 DEF QueriesAccounted
  <1>11. NoLostWakeup'
    BY DEF NoLostWakeup, FindNodeReturns
  <1>12. TypeOK'
    <2>1. DOMAIN query_translate' \subseteq Nat /\ driver' \in Driver /\ next_query_id' \in Nat
      BY <1>1, <1>2, <1>5, <1>6, <1>7 DEF Ready
    <2> QED BY <1>1, <1>7, <2>1 DEF IInv, TypeOK, FindNodeReturns
  <1> QED BY <1>4, <1>8, <1>9, <1>10, <1>11, <1>12 DEF IInv

-----------------------------------------------------------------------------
(* poll_next takes the oldest event of the stream.                         *)
LEMMA TakesOldest ==
  ASSUME IInv, NEW what, TakesEvent(what)
  PROVE  /\ Head(events) \in Event /\ Head(events).what = what
         /\ events' \in Seq(Event) /\ Len(events') <= EventBuffer
         /\ Stream' \in Seq(Event)
         /\ \A id : id \in Ended <=> id \in Nat /\ (EndOf(id) = Head(events) \/ In(EndOf(id), Stream'))
         /\ \A id : id \in Ended' <=> id \in Nat /\ In(EndOf(id), Stream')
         /\ \A id \in Ended : /\ Once(EndOf(id), Stream')
                              /\ ~(EndOf(id) = Head(events) /\ In(EndOf(id), Stream'))
  <1>1. /\ events \in Seq(Event) /\ held \in Seq(Event) /\ events # << >>
        /\ Stream \in Seq(Event) /\ Ended = EndedIn(Stream)
    BY Facts DEF TakesEvent
  <1>2. Len(events) <= EventBuffer /\ EventBuffer \in Nat
    BY Libp2pAssumption DEF IInv, TypeOK
  <1>3. /\ Head(events) \in Event /\ Head(events).what = what
        /\ events' \in Seq(Event) /\ Len(events') <= EventBuffer
    BY <1>1, <1>2 DEF TakesEvent
  <1>4. /\ Tail(events) \o held = Tail(events \o held) /\ Head(events \o held) = Head(events)
        /\ events \o held # << >>
    BY <1>1, TailConcat
  <1>5. Stream # << >> /\ Head(Stream) = Head(events) /\ Stream' = Tail(Stream)
    BY <1>4 DEF Stream, TakesEvent
  <1>6. Stream' \in Seq(Event)
    BY <1>1, <1>5
  <1>7. \A x : In(x, Stream) <=> x = Head(events) \/ In(x, Stream')
    BY <1>1, <1>5, InTail
  <1>8. \A id : id \in Ended <=> id \in Nat /\ (EndOf(id) = Head(events) \/ In(EndOf(id), Stream'))
    BY <1>1, <1>7, EndedIs
  <1>9. Ended' = EndedIn(Stream')
    BY DEF Ended, EndedIn
  <1>10. \A id : id \in Ended' <=> id \in Nat /\ In(EndOf(id), Stream')
    BY <1>6, <1>9, EndedIs
  <1>11. ASSUME NEW id \in Ended
         PROVE  Once(EndOf(id), Stream') /\ ~(EndOf(id) = Head(events) /\ In(EndOf(id), Stream'))
    <2>1. Once(EndOf(id), Stream)
      BY DEF IInv, IdsInv, EndOf
    <2> QED BY <1>1, <1>5, <2>1, InTail
  <1> QED BY <1>3, <1>6, <1>8, <1>10, <1>11

(* An event that ends no query.                                            *)
LEMMA TakesOther ==
  ASSUME IInv, NEW what, TakesEvent(what), what # "Finished", query_translate' = query_translate
  PROVE  Ended' = Ended /\ IdsInv' /\ TranslationsInv'
  <1>1. \A id : EndOf(id) # Head(events)
    <2>1. Head(events).what # "Finished"
      BY TakesOldest
    <2>2. \A id : EndOf(id).what = "Finished"
      BY DEF EndOf
    <2> QED BY <2>1, <2>2
  <1>2. Ended' = Ended
    <2>1. \A id : id \in Ended <=> id \in Nat /\ (EndOf(id) = Head(events) \/ In(EndOf(id), Stream'))
      BY TakesOldest
    <2>2. \A id : id \in Ended' <=> id \in Nat /\ In(EndOf(id), Stream')
      BY TakesOldest
    <2> QED BY <1>1, <2>1, <2>2
  <1>3. \A id \in Ended : Once(EndOf(id), Stream')
    BY TakesOldest
  <1>4. kad' = kad /\ answer' = answer /\ next_query_id' = next_query_id
    BY DEF TakesEvent
  <1> QED BY <1>2, <1>3, <1>4, EndsKept

LEMMA PollEmptyGood == ASSUME IInv, PollEmpty PROVE IInv'
  <1>1. /\ kad' = kad /\ answer' = answer /\ query_translate' = query_translate
        /\ next_query_id' = next_query_id /\ Stream' = Stream
    BY DEF PollEmpty, Stream, backendVars
  <1>2. IdsInv' /\ TranslationsInv' /\ Ended' = Ended
    BY <1>1, QueriesKept
  <1>3. driver' = driver /\ driver.pc = "next" /\ channel' = PollActions(channel)
    BY DEF PollEmpty, Polls
  <1>4. Ready(driver')
    BY <1>3, Facts DEF Ready
  <1>5. ChannelOK(channel') /\ CallsInv'
    BY <1>1, <1>3, <1>4, PollCalls
  <1>6. QueriesAccounted'
    BY <1>1, <1>2, <1>3 DEF IInv, QueriesAccounted
  <1>7. NoLostWakeup'
    BY DEF NoLostWakeup, PollEmpty
  <1>8. TypeOK'
    BY <1>5 DEF IInv, TypeOK, ChannelOK, PollEmpty, backendVars
  <1> QED BY <1>2, <1>5, <1>6, <1>7, <1>8 DEF IInv

(* What the polls that take an event share.                                *)
LEMMA PollTypes ==
  ASSUME IInv, NEW what, TakesEvent(what), driver' \in Driver, woken' \in BOOLEAN,
         ChannelOK(channel'), DOMAIN query_translate' \subseteq Nat
  PROVE  TypeOK'
  <1>1. events' \in Seq(Event) /\ Len(events') <= EventBuffer
    BY TakesOldest
  <1> QED BY <1>1 DEF IInv, TypeOK, ChannelOK, TakesEvent

LEMMA PollIdentifiedGood ==
  ASSUME IInv, NEW n \in 0 .. MaxAdds, NEW stop \in BOOLEAN, PollIdentified(n, stop)
  PROVE  IInv'
  <1>0. /\ TakesEvent("Identified") /\ query_translate' = query_translate /\ woken' = woken
        /\ channel' = PollActions(channel) /\ driver' = PeerIdentified(driver, n, stop)
    BY DEF PollIdentified
  <1>1. /\ driver.pc = "next" /\ woken /\ answer' = answer /\ kad' = kad
    BY <1>0 DEF TakesEvent, Polls
  <1>2. Ended' = Ended /\ IdsInv' /\ TranslationsInv'
    <2>1. "Identified" # "Finished"
      OBVIOUS
    <2> QED BY <1>0, <2>1, TakesOther
  <1>3. Ready(driver') /\ driver'.queries = driver.queries
    <2>1. driver \in Driver /\ n \in Nat
      BY Facts, Libp2pAssumption
    <2> QED BY <1>0, <2>1, PeerIdentifiedOK
  <1>4. ChannelOK(channel') /\ CallsInv' /\ answer = NoId
    BY <1>0, <1>1, <1>3, PollCalls
  <1>5. QueriesAccounted'
    BY <1>0, <1>1, <1>2, <1>3, <1>4 DEF IInv, QueriesAccounted
  <1>6. NoLostWakeup'
    BY <1>0, <1>1 DEF NoLostWakeup
  <1>7. TypeOK'
    <2>1. driver' \in Driver /\ woken' \in BOOLEAN /\ DOMAIN query_translate' \subseteq Nat
      BY <1>0, <1>3 DEF IInv, TypeOK, Ready
    <2> QED BY <1>0, <1>4, <2>1, PollTypes
  <1> QED BY <1>2, <1>4, <1>5, <1>6, <1>7 DEF IInv

(* PollRoutable and PollOther leave the user in next().                    *)
LEMMA PollAgainGood ==
  ASSUME IInv, NEW what, what # "Finished", TakesEvent(what),
         driver' = driver, query_translate' = query_translate, woken' = TRUE,
         channel' = PollActions(channel) \/ channel' = PushAction(PollActions(channel))
  PROVE  IInv'
  <1>1. driver.pc = "next" /\ answer' = answer /\ kad' = kad
    BY DEF TakesEvent, Polls
  <1>2. Ended' = Ended /\ IdsInv' /\ TranslationsInv'
    BY TakesOther
  <1>3. driver \in Driver /\ Ready(driver')
    BY <1>1, Facts DEF Ready
  <1>4. ChannelOK(channel') /\ CallsInv'
    BY <1>1, <1>3, PollCalls
  <1>5. QueriesAccounted'
    BY <1>1, <1>2 DEF IInv, QueriesAccounted
  <1>6. NoLostWakeup'
    BY DEF NoLostWakeup
  <1>7. TypeOK'
    <2>1. driver' \in Driver /\ woken' \in BOOLEAN /\ DOMAIN query_translate' \subseteq Nat
      BY <1>3 DEF IInv, TypeOK
    <2> QED BY <1>4, <2>1, PollTypes
  <1> QED BY <1>2, <1>4, <1>5, <1>6, <1>7 DEF IInv

(* The end of a query: its translation is there to be removed, and with it *)
(* the query leaves all three places.                                      *)
LEMMA PollFinishedGood ==
  ASSUME IInv, NEW n \in 0 .. MaxAdds, NEW stop \in BOOLEAN, PollFinished(n, stop)
  PROVE  IInv'
  <1> DEFINE D == DOMAIN query_translate
             id == Head(events).id
  <1>0. /\ TakesEvent("Finished") /\ woken' = woken /\ channel' = PollActions(channel)
        /\ driver' = FindNode(driver, query_translate[id], n, stop)
        /\ query_translate' = [i \in D \ {id} |-> query_translate[i]]
    BY DEF PollFinished
  <1>1. /\ driver.pc = "next" /\ woken /\ answer' = answer /\ kad' = kad
        /\ next_query_id' = next_query_id
    BY <1>0 DEF TakesEvent, Polls
  <1>2. id \in Nat /\ Head(events) = EndOf(id)
    <2>1. Head(events) \in Event /\ Head(events).what = "Finished"
      BY <1>0, TakesOldest
    <2> QED BY <2>1 DEF Event, EndOf
  <1> HIDE DEF id, D
  <1>3. \A i, j : EndOf(i) = EndOf(j) => i = j
    <2>1. \A i : EndOf(i).id = i
      BY DEF EndOf
    <2> QED BY <2>1
  <1>4. id \in Ended /\ Ended' = Ended \ {id}
    <2>1. \A i : i \in Ended <=> i \in Nat /\ (EndOf(i) = Head(events) \/ In(EndOf(i), Stream'))
      BY <1>0, TakesOldest
    <2>2. \A i : i \in Ended' <=> i \in Nat /\ In(EndOf(i), Stream')
      BY <1>0, TakesOldest
    <2>3. id \in Ended
      BY <1>2, <2>1
    <2>4. ~In(EndOf(id), Stream')
      BY <1>0, <1>2, <2>3, TakesOldest
    <2> QED BY <1>2, <1>3, <2>1, <2>2, <2>3, <2>4
  <1>5. Ready(driver') /\ driver'.queries = driver.queries \ {query_translate[id]}
    <2>1. driver \in Driver /\ n \in Nat
      BY Facts, Libp2pAssumption
    <2>2. PICK q : q = query_translate[id]
      OBVIOUS
    <2>3. /\ Ready(FindNode(driver, q, n, stop))
          /\ FindNode(driver, q, n, stop).queries = driver.queries \ {q}
      BY <2>1, FindNodeOK
    <2> QED BY <1>0, <2>2, <2>3
  <1>6. ChannelOK(channel') /\ CallsInv' /\ answer = NoId
    BY <1>0, <1>1, <1>5, PollCalls
  <1>7. /\ D = kad.running \cup Ended /\ D \subseteq Nat /\ IsFiniteSet(D)
        /\ \A i \in D : query_translate[i] \in 0 .. next_query_id - 1
        /\ \A i, j \in D : query_translate[i] = query_translate[j] => i = j
        /\ driver.queries = {query_translate[i] : i \in D}
        /\ kad.running \cap Ended = {}
    BY <1>6 DEF IInv, TypeOK, QueriesAccounted, TranslationsInv, IdsInv, D
  <1>8. /\ DOMAIN query_translate' = D \ {id}
        /\ \A i \in D \ {id} : query_translate'[i] = query_translate[i]
    BY <1>0
  <1>9. IdsInv'
    <2>1. \A i \in Ended' : Once([what |-> "Finished", id |-> i], Stream')
      BY <1>0, <1>4, TakesOldest DEF EndOf
    <2>2. answer' \notin DOMAIN query_translate'
      BY <1>1, <1>8 DEF IInv, IdsInv, D
    <2> QED BY <1>1, <1>4, <2>1, <2>2 DEF IInv, IdsInv
  <1>10. TranslationsInv'
    <2>1. IsFiniteSet(DOMAIN query_translate')
      BY <1>7, <1>8, FS_RemoveElement
    <2> QED BY <1>1, <1>7, <1>8, <2>1 DEF TranslationsInv
  <1>11. QueriesAccounted'
    <2>1. DOMAIN query_translate' = kad.running \cup Ended'
      BY <1>4, <1>7, <1>8
    <2>2. driver'.queries = {query_translate'[i] : i \in DOMAIN query_translate'}
      BY <1>4, <1>5, <1>7, <1>8
    <2>3. Cardinality(driver'.queries) = Cardinality(DOMAIN query_translate')
      BY <1>10, <2>2, AsManyValues DEF TranslationsInv
    <2>4. answer' = NoId /\ {answer'} \ {NoId} = {}
      BY <1>1, <1>6
    <2> QED BY <1>1, <2>1, <2>2, <2>3, <2>4 DEF QueriesAccounted
  <1>12. NoLostWakeup'
    BY <1>0, <1>1 DEF NoLostWakeup
  <1>13. TypeOK'
    <2>1. driver' \in Driver /\ woken' \in BOOLEAN /\ DOMAIN query_translate' \subseteq Nat
      BY <1>0, <1>5, <1>7, <1>8 DEF IInv, TypeOK, Ready
    <2> QED BY <1>0, <1>6, <2>1, PollTypes
  <1> QED BY <1>6, <1>9, <1>10, <1>11, <1>12, <1>13 DEF IInv

-----------------------------------------------------------------------------
(* The background task.                                                    *)
LEMMA HandleCommandGood == ASSUME IInv, HandleCommand PROVE IInv'
  <1>1. /\ ChannelOK(channel) /\ channel.queue \in Seq(Commands) /\ channel.queue # << >>
        /\ events \in Seq(Event) /\ held \in Seq(Event)
    BY Facts DEF HandleCommand
  <1>2. ChannelOK(channel') /\ channel'.queue = Tail(channel.queue)
    BY <1>1, RecvOK DEF HandleCommand
  <1>3. /\ driver' = driver /\ query_translate' = query_translate
        /\ next_query_id' = next_query_id /\ Stream' = Stream
    BY DEF HandleCommand, Stream, backendVars
  <1>4. NoLostWakeup'
    BY DEF IInv, TypeOK, NoLostWakeup, HandleCommand
  <1>5. woken' \in BOOLEAN
    BY DEF HandleCommand
  <1>6. /\ In("FindNode", channel.queue) <=> "FindNode" = Head(channel.queue)
                                               \/ In("FindNode", Tail(channel.queue))
        /\ Once("FindNode", channel'.queue)
        /\ ~("FindNode" = Head(channel.queue) /\ In("FindNode", Tail(channel.queue)))
    <2>1. Once("FindNode", channel.queue)
      BY DEF IInv, CallsInv
    <2> QED BY <1>1, <1>2, <2>1, InTail
  <1>7. CASE Head(channel.queue) # "FindNode"
    <2>1. kad' = kad /\ answer' = answer
      BY <1>7 DEF HandleCommand
    <2>2. IdsInv' /\ TranslationsInv' /\ Ended' = Ended
      BY <1>3, <2>1, QueriesKept
    <2>3. CallsInv'
      BY <1>2, <1>3, <1>6, <2>1 DEF IInv, CallsInv
    <2>4. QueriesAccounted'
      BY <1>3, <2>1, <2>2 DEF IInv, QueriesAccounted
    <2>5. TypeOK'
      BY <1>2, <1>5, <2>1 DEF IInv, TypeOK, ChannelOK, HandleCommand, backendVars
    <2> QED BY <1>4, <2>2, <2>3, <2>4, <2>5 DEF IInv
  <1>8. CASE Head(channel.queue) = "FindNode"
    <2>1. /\ answer' = kad.next_id /\ kad'.running = kad.running \cup {kad.next_id}
          /\ kad'.next_id = kad.next_id + 1
          /\ kad' = [running |-> kad.running \cup {kad.next_id}, next_id |-> kad.next_id + 1]
      BY <1>8 DEF HandleCommand
    <2>2. /\ kad.next_id \in Nat /\ kad.running \subseteq Nat /\ NoId \notin Nat
          /\ driver.pc = "answer" /\ answer = NoId
      BY <1>6, <1>8 DEF IInv, TypeOK, CallsInv, NoId
    <2>3. Ended' = Ended
      BY <1>3 DEF Ended
    <2>4. \A id \in kad.running \cup Ended : id < kad.next_id
      BY DEF IInv, IdsInv
    <2>5. Ended \subseteq Nat
      BY Facts, EndedIs
    <2>6. DOMAIN query_translate = kad.running \cup Ended
      BY <2>2 DEF IInv, QueriesAccounted
    <2>7. kad.next_id \notin kad.running \cup Ended
      BY <2>2, <2>4
    <2>8. IdsInv'
      <3>1. \A id \in kad'.running \cup Ended' : id < kad'.next_id
        <4>1. PICK m \in Nat : m = kad.next_id
          BY <2>2
        <4>2. \A id \in kad.running \cup Ended : id \in Nat /\ id < m
          BY <2>2, <2>4, <2>5, <4>1
        <4>3. \A id \in kad.running \cup Ended \cup {m} : id < m + 1
          BY <4>2
        <4>4. kad'.running \cup Ended' = kad.running \cup Ended \cup {m} /\ kad'.next_id = m + 1
          BY <2>1, <2>3, <4>1
        <4> QED BY <4>3, <4>4
      <3>2. kad'.running \cap Ended' = {}
        BY <2>1, <2>3, <2>7 DEF IInv, IdsInv
      <3>3. answer' \notin DOMAIN query_translate'
        BY <1>3, <2>1, <2>6, <2>7
      <3> QED BY <1>3, <2>3, <3>1, <3>2, <3>3 DEF IInv, IdsInv
    <2>9. TranslationsInv'
      BY <1>3 DEF IInv, TranslationsInv
    <2>10. CallsInv'
      BY <1>2, <1>3, <1>6, <1>8, <2>2 DEF CallsInv
    <2>11. QueriesAccounted'
      <3>1. DOMAIN query_translate' \cup ({answer'} \ {NoId}) = kad'.running \cup Ended'
        BY <1>3, <2>1, <2>2, <2>3, <2>6
      <3> QED BY <1>3, <2>2, <3>1 DEF IInv, QueriesAccounted
    <2>12. TypeOK'
      <3>1. answer' \in Nat \cup {NoId} /\ kad' \in [running : SUBSET Nat, next_id : Nat]
        BY <2>1, <2>2
      <3> QED BY <1>2, <1>5, <3>1 DEF IInv, TypeOK, ChannelOK, HandleCommand, backendVars
    <2> QED BY <1>4, <2>8, <2>9, <2>10, <2>11, <2>12 DEF IInv
  <1> QED BY <1>7, <1>8

(* An event is put behind the stream.                                      *)
LEMMA HoldsEvent ==
  ASSUME IInv, held = << >>, NEW e \in Event, held' = <<e>>, events' = events
  PROVE  /\ Stream' \in Seq(Event)
         /\ \A x : In(x, Stream') <=> In(x, Stream) \/ x = e
         /\ \A x : Once(x, Stream) /\ ~(x = e /\ In(x, Stream)) => Once(x, Stream')
         /\ held' \in Seq(Event) /\ Len(held') <= 1
         /\ Ended' = EndedIn(Stream')
  <1>1. events \in Seq(Event)
    BY Facts
  <1>2. Stream = events
    BY <1>1 DEF Stream
  <1>3. events' \o held' = Append(events, e)
    BY <1>1
  <1>4. Stream' = Append(events, e)
    BY <1>3 DEF Stream
  <1>5. /\ \A x : In(x, Stream') <=> In(x, Stream) \/ x = e
        /\ \A x : Once(x, Stream) /\ ~(x = e /\ In(x, Stream)) => Once(x, Stream')
    BY <1>1, <1>2, <1>4, InAppend
  <1>6. Stream' \in Seq(Event)
    BY <1>1, <1>4
  <1>7. held' \in Seq(Event) /\ Len(held') <= 1
    OBVIOUS
  <1>8. Ended' = EndedIn(Stream')
    BY DEF Ended, EndedIn
  <1> QED BY <1>5, <1>6, <1>7, <1>8

LEMMA QueryEndsGood ==
  ASSUME IInv, NEW id \in kad.running, QueryEnds(id)
  PROVE  IInv'
  <1>1. /\ held = << >> /\ held' = <<EndOf(id)>> /\ events' = events
        /\ kad' = [kad EXCEPT !.running = @ \ {id}]
        /\ UNCHANGED <<driver, woken, channel, answer, query_translate, next_query_id>>
    BY DEF QueryEnds, EndOf, backendVars
  <1>2. kad \in [running : SUBSET Nat, next_id : Nat] /\ id \in Nat
    BY DEF IInv, TypeOK
  <1>3. kad'.running = kad.running \ {id} /\ kad'.next_id = kad.next_id /\ kad' \in [running : SUBSET Nat, next_id : Nat]
    BY <1>1, <1>2
  <1>4. EndOf(id) \in Event
    BY <1>2 DEF EndOf, Event
  <1>5. /\ Stream' \in Seq(Event)
        /\ \A x : In(x, Stream') <=> In(x, Stream) \/ x = EndOf(id)
        /\ \A x : Once(x, Stream) /\ ~(x = EndOf(id) /\ In(x, Stream)) => Once(x, Stream')
        /\ held' \in Seq(Event) /\ Len(held') <= 1
        /\ Ended' = EndedIn(Stream')
    BY <1>1, <1>4, HoldsEvent
  <1>6. \A i, j : EndOf(i) = EndOf(j) => i = j
    <2>1. \A i : EndOf(i).id = i
      BY DEF EndOf
    <2> QED BY <2>1
  <1>7. Ended' = Ended \cup {id}
    <2>1. \A i : i \in Ended <=> i \in Nat /\ In(EndOf(i), Stream)
      BY Facts, EndedIs
    <2>2. \A i : i \in Ended' <=> i \in Nat /\ In(EndOf(i), Stream')
      BY <1>5, EndedIs
    <2> QED BY <1>2, <1>5, <1>6, <2>1, <2>2
  <1>8. id \notin Ended /\ ~In(EndOf(id), Stream)
    <2>1. \A i : i \in Ended <=> i \in Nat /\ In(EndOf(i), Stream)
      BY Facts, EndedIs
    <2>2. id \notin Ended
      BY DEF IInv, IdsInv
    <2> QED BY <1>2, <2>1, <2>2
  <1>9. IdsInv'
    <2>1. \A i \in Ended' : Once([what |-> "Finished", id |-> i], Stream')
      <3>1. \A i \in Ended : Once(EndOf(i), Stream)
        BY DEF IInv, IdsInv, EndOf
      <3>2. \A i \in Ended : Once(EndOf(i), Stream')
        BY <1>5, <1>6, <1>8, <3>1
      <3>3. Once(EndOf(id), Stream')
        <4>1. Once(EndOf(id), Stream)
          BY <1>8, OnceNone
        <4> QED BY <1>5, <1>8, <4>1
      <3> QED BY <1>7, <3>2, <3>3 DEF EndOf
    <2>2. kad'.running \cup Ended' = kad.running \cup Ended
      BY <1>3, <1>7
    <2>3. kad'.running \cap Ended' = {}
      BY <1>3, <1>7 DEF IInv, IdsInv
    <2> QED BY <1>1, <1>3, <2>1, <2>2, <2>3 DEF IInv, IdsInv
  <1>10. TranslationsInv'
    BY <1>1 DEF IInv, TranslationsInv
  <1>11. CallsInv'
    BY <1>1 DEF IInv, CallsInv
  <1>12. QueriesAccounted'
    <2>1. kad'.running \cup Ended' = kad.running \cup Ended
      BY <1>3, <1>7
    <2> QED BY <1>1, <2>1 DEF IInv, QueriesAccounted
  <1>13. NoLostWakeup'
    BY <1>1 DEF IInv, NoLostWakeup
  <1>14. TypeOK'
    BY <1>1, <1>3, <1>5 DEF IInv, TypeOK, QueryEnds
  <1> QED BY <1>9, <1>10, <1>11, <1>12, <1>13, <1>14 DEF IInv

LEMMA SwarmEventGood ==
  ASSUME IInv, NEW what \in {"Identified", "Routable", "Other"}, SwarmEvent(what)
  PROVE  IInv'
  <1>1. /\ held = << >> /\ held' = <<Told(what)>> /\ events' = events
        /\ kad' = kad /\ answer' = answer /\ query_translate' = query_translate
        /\ next_query_id' = next_query_id
        /\ UNCHANGED <<driver, woken, channel, task>>
    BY DEF SwarmEvent, backendVars
  <1>2. Told(what) \in Event /\ Told(what).what # "Finished"
    BY DEF Told, Event
  <1>3. /\ Stream' \in Seq(Event)
        /\ \A x : In(x, Stream') <=> In(x, Stream) \/ x = Told(what)
        /\ \A x : Once(x, Stream) /\ ~(x = Told(what) /\ In(x, Stream)) => Once(x, Stream')
        /\ held' \in Seq(Event) /\ Len(held') <= 1
        /\ Ended' = EndedIn(Stream')
    BY <1>1, <1>2, HoldsEvent
  <1>4. \A i : EndOf(i) # Told(what)
    <2>1. \A i : EndOf(i).what = "Finished"
      BY DEF EndOf
    <2> QED BY <1>2, <2>1
  <1>5. Ended' = Ended
    <2>1. \A i : i \in Ended <=> i \in Nat /\ In(EndOf(i), Stream)
      BY Facts, EndedIs
    <2>2. \A i : i \in Ended' <=> i \in Nat /\ In(EndOf(i), Stream')
      BY <1>3, EndedIs
    <2> QED BY <1>3, <1>4, <2>1, <2>2
  <1>6. \A i \in Ended : Once(EndOf(i), Stream')
    <2>1. \A i \in Ended : Once(EndOf(i), Stream)
      BY DEF IInv, IdsInv, EndOf
    <2> QED BY <1>3, <1>4, <2>1
  <1>7. IdsInv' /\ TranslationsInv'
    BY <1>1, <1>5, <1>6, EndsKept
  <1>8. CallsInv' /\ NoLostWakeup'
    BY <1>1 DEF IInv, CallsInv, NoLostWakeup
  <1>9. QueriesAccounted'
    BY <1>1, <1>5 DEF IInv, QueriesAccounted
  <1>10. TypeOK'
    <2>1. told' \in 0 .. MaxTold
      BY Libp2pAssumption DEF IInv, TypeOK, SwarmEvent
    <2> QED BY <1>1, <1>3, <2>1 DEF IInv, TypeOK
  <1> QED BY <1>7, <1>8, <1>9, <1>10 DEF IInv

LEMMA DeliverEventGood == ASSUME IInv, DeliverEvent PROVE IInv'
  <1>1. events \in Seq(Event) /\ held \in Seq(Event)
    BY Facts
  <1>2. Stream' = Stream
    <2>1. (events \o held) \o << >> = events \o held
      BY <1>1
    <2> QED BY <2>1 DEF Stream, DeliverEvent
  <1>3. /\ kad' = kad /\ answer' = answer /\ query_translate' = query_translate
        /\ next_query_id' = next_query_id /\ driver' = driver /\ channel' = channel
        /\ woken' = TRUE /\ task' = task /\ told' = told
    BY DEF DeliverEvent, backendVars
  <1>4. IdsInv' /\ TranslationsInv' /\ Ended' = Ended
    BY <1>2, <1>3, QueriesKept
  <1>5. CallsInv' /\ NoLostWakeup'
    BY <1>3 DEF IInv, CallsInv, NoLostWakeup
  <1>6. QueriesAccounted'
    BY <1>3, <1>4 DEF IInv, QueriesAccounted
  <1>7. TypeOK'
    <2>1. Len(held) <= 1 /\ Len(events) < EventBuffer /\ EventBuffer \in Nat
      BY Libp2pAssumption DEF IInv, TypeOK, DeliverEvent
    <2>2. /\ events' \in Seq(Event) /\ Len(events') <= EventBuffer
          /\ held' \in Seq(Event) /\ Len(held') <= 1
      BY <1>1, <2>1 DEF DeliverEvent
    <2> QED BY <1>3, <2>2 DEF IInv, TypeOK
  <1> QED BY <1>4, <1>5, <1>6, <1>7 DEF IInv

LEMMA TaskEndsGood == ASSUME IInv, TaskEnds PROVE IInv'
  <1>1. /\ kad' = kad /\ answer' = answer /\ query_translate' = query_translate
        /\ next_query_id' = next_query_id /\ Stream' = Stream
        /\ UNCHANGED <<driver, woken, channel, events, held, told>> /\ task' = "ended"
    BY DEF TaskEnds, Stream, backendVars
  <1>2. IdsInv' /\ TranslationsInv' /\ Ended' = Ended
    BY <1>1, QueriesKept
  <1>3. CallsInv' /\ NoLostWakeup'
    BY <1>1 DEF IInv, CallsInv, NoLostWakeup
  <1>4. QueriesAccounted'
    BY <1>1, <1>2 DEF IInv, QueriesAccounted
  <1>5. TypeOK'
    BY <1>1 DEF IInv, TypeOK
  <1> QED BY <1>2, <1>3, <1>4, <1>5 DEF IInv

-----------------------------------------------------------------------------
(* Nothing is queued, asked or translated at the start.                    *)
LEMMA InitGood == ASSUME Init PROVE IInv
  <1>1. /\ Ready(driver) /\ driver.queries = {} /\ driver \in Driver
    BY NewDriverOK DEF Init, Ready
  <1>2. events = << >> /\ held = << >> /\ Stream = << >> /\ channel = NewChannel
    <2>1. << >> \o << >> = << >>
      OBVIOUS
    <2> QED BY <2>1 DEF Init, Stream
  <1>3. Ended = {}
    BY <1>2 DEF Ended
  <1>4. DOMAIN query_translate = {} /\ query_translate = << >> /\ answer = NoId
    BY DEF Init
  <1>5. channel \in Channel /\ channel.queue = << >> /\ channel.ready = << >> /\ channel.user = "idle"
    <2>1. << >> \in Seq(Commands) /\ << >> \in Seq({"fresh", "granted"}) /\ << >> \in Seq({"action", "user"})
      OBVIOUS
    <2> QED BY <1>2, <2>1 DEF NewChannel, Channel
  <1>6. GrantedActions(channel) = 0
    <2>1. GrantedIn(channel.ready) = {}
      BY <1>5 DEF GrantedIn
    <2> QED BY <1>5, <2>1, GrantedNat, FS_EmptySet
  <1>7. Len(channel.queue) + Granted(channel) <= CommandBuffer
    <2>1. Granted(channel) = 0
      BY <1>5, <1>6, GrantedNat
    <2>2. Len(channel.queue) = 0
      BY <1>5
    <2> QED BY <2>1, <2>2, ChannelAssumption
  <1>8. TypeOK
    <2>1. /\ events \in Seq(Event) /\ Len(events) <= EventBuffer
          /\ held \in Seq(Event) /\ Len(held) <= 1
      BY <1>2, Libp2pAssumption
    <2>2. kad \in [running : SUBSET Nat, next_id : Nat]
      BY Libp2pAssumption DEF Init
    <2>3. told \in 0 .. MaxTold /\ next_query_id \in Nat /\ woken \in BOOLEAN /\ task = "up"
      BY Libp2pAssumption DEF Init
    <2> QED BY <1>1, <1>4, <1>5, <1>7, <2>1, <2>2, <2>3 DEF TypeOK
  <1>9. QueriesAccounted
    BY <1>1, <1>3, <1>4, FS_EmptySet DEF QueriesAccounted, Init
  <1>10. NoLostWakeup
    BY DEF NoLostWakeup, Init
  <1>11. CallsInv
    <2>1. ~In("FindNode", channel.queue) /\ Once("FindNode", channel.queue)
      BY <1>5, InEmpty
    <2> QED BY <1>1, <1>4, <2>1 DEF CallsInv, Ready
  <1>12. IdsInv
    BY <1>3, <1>4 DEF IdsInv, Init
  <1>13. TranslationsInv
    BY <1>4, FS_EmptySet DEF TranslationsInv
  <1> QED BY <1>8, <1>9, <1>10, <1>11, <1>12, <1>13 DEF IInv

(* Every step of either task keeps the invariant.                          *)
LEMMA NextGood == ASSUME IInv, [Next]_vars PROVE IInv'
  <1>1. CASE CallSends BY <1>1, CallSendsGood
  <1>2. CASE FindNodeReturns BY <1>2, FindNodeReturnsGood
  <1>3. CASE PollEmpty BY <1>3, PollEmptyGood
  <1>4. CASE PollRoutable
    <2>1. /\ "Routable" # "Finished" /\ TakesEvent("Routable") /\ driver' = driver
          /\ query_translate' = query_translate /\ woken' = TRUE
          /\ channel' = PushAction(PollActions(channel))
      BY <1>4 DEF PollRoutable
    <2> QED BY <2>1, PollAgainGood
  <1>5. CASE PollOther
    <2>1. /\ "Other" # "Finished" /\ TakesEvent("Other") /\ driver' = driver
          /\ query_translate' = query_translate /\ woken' = TRUE
          /\ channel' = PollActions(channel)
      BY <1>5 DEF PollOther
    <2> QED BY <2>1, PollAgainGood
  <1>6. CASE PollFound
    <2>1. PICK n \in 0 .. MaxAdds, stop \in BOOLEAN : PollIdentified(n, stop) \/ PollFinished(n, stop)
      BY <1>6 DEF PollFound
    <2> QED BY <2>1, PollIdentifiedGood, PollFinishedGood
  <1>7. CASE HandleCommand BY <1>7, HandleCommandGood
  <1>8. CASE DeliverEvent BY <1>8, DeliverEventGood
  <1>9. CASE TaskEnds BY <1>9, TaskEndsGood
  <1>10. CASE \E id \in kad.running : QueryEnds(id) BY <1>10, QueryEndsGood
  <1>11. CASE \E what \in {"Identified", "Routable", "Other"} : SwarmEvent(what)
    BY <1>11, SwarmEventGood
  <1>12. CASE UNCHANGED vars
    <2>1. /\ kad' = kad /\ answer' = answer /\ query_translate' = query_translate
          /\ next_query_id' = next_query_id /\ Stream' = Stream
          /\ UNCHANGED <<driver, woken, channel, events, held, task, told>>
      BY <1>12 DEF vars, backendVars, Stream
    <2>2. IdsInv' /\ TranslationsInv' /\ Ended' = Ended
      BY <2>1, QueriesKept
    <2> QED BY <2>1, <2>2 DEF IInv, TypeOK, QueriesAccounted, NoLostWakeup, CallsInv
  <1> QED BY <1>1, <1>2, <1>3, <1>4, <1>5, <1>6, <1>7, <1>8, <1>9, <1>10, <1>11, <1>12
          DEF Next, Poll

(* The inductive invariant.                                                *)
THEOREM InductiveInvariant == Spec => []IInv
  <1>1. Init => IInv BY InitGood
  <1>2. IInv /\ [Next]_vars => IInv' BY NextGood
  <1> QED BY <1>1, <1>2, PTL DEF Spec

(* Types, and the bounds of both channels: commands queued and places      *)
(* promised never exceed the command channel, events never the other.      *)
THEOREM TypeCorrect == Spec => []TypeOK
  <1>1. IInv => TypeOK BY DEF IInv
  <1> QED BY <1>1, InductiveInvariant, PTL

(* The unwrap in poll_next always finds a translation, whether the query   *)
(* ends before or after find_node returns, and the driver's slots are      *)
(* exactly the queries of Kademlia that run or whose end is on the way.    *)
THEOREM SlotsAreExact == Spec => []QueriesAccounted
  <1>1. IInv => QueriesAccounted BY DEF IInv
  <1> QED BY <1>1, InductiveInvariant, PTL

(* The user's task never sleeps in next() on an event that is there.       *)
THEOREM EventsWake == Spec => []NoLostWakeup
  <1>1. IInv => NoLostWakeup BY DEF IInv
  <1> QED BY <1>1, InductiveInvariant, PTL

=============================================================================
