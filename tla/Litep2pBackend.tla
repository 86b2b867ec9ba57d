--------------------------- MODULE Litep2pBackend ---------------------------
(***************************************************************************)
(* Litep2pBackend (subp2p-explorer-core/src/litep2p.rs) used by discovery. *)
(* Its poll_next reads three streams by hand.  A stream wakes the task for *)
(* a new item only if it was found empty by the last poll, and what        *)
(* poll_next consumes without returning it may leave the task asleep with  *)
(* items waiting.                                                          *)
(*                                                                         *)
(* The background task only executes commands and drives litep2p, whose    *)
(* events it throws away.  Kademlia has a task and a handle of its own:    *)
(* the handle numbers the queries and sends commands through one bounded   *)
(* channel, and Kademlia sends its events through another; while it waits  *)
(* for a place there, it takes no command.  listen_addresses, which        *)
(* discovery does not call, and the contents of events are left out.       *)
(***************************************************************************)
EXTENDS Integers, FiniteSets, Queues, CommandChannel, DiscoveryDriver

CONSTANTS
  KadCommands,         \* capacity of Kademlia's command channel
  KadEvents,           \* capacity of Kademlia's event channel
  MaxAdds,             \* bound on the calls of add_known_peer after one event
  MaxWalks,            \* bound on the queries that may be replaced
  MaxTold              \* bound on the items that answer no query

ASSUME Litep2pAssumption ==
  /\ KadCommands \in Nat \ {0} /\ KadEvents \in Nat \ {0}
  /\ MaxAdds \in Nat /\ MaxWalks \in Nat /\ MaxTold \in Nat

VARIABLES
  driver,              \* the user
  woken,               \* the user's task will poll, when it is in next()
  registered,          \* the streams that will wake it
  channel,             \* tx, rx and pending_actions
  half_added,          \* add_known_peer is past its first await
  ping, identify,      \* ping_stream, identify_stream: how many items wait
  kad_handle,          \* Kademlia's events
  kad_commands,        \* Kademlia's commands
  held,                \* the event Kademlia is sending, if any
  kad,                 \* Kademlia: running queries; its handle: next id
  told,                \* see MaxTold
  failed,              \* history: queries whose QueryFailed was read
  ignored              \* history: the last poll ended in an arm that is empty

streamVars == <<ping, identify, kad_handle>>
kadVars == <<kad_commands, held, kad>>
vars == <<driver, woken, registered, channel, half_added, streamVars, kadVars, told,
          failed, ignored>>

NoId == -1

KademliaCommand == [what : {"FindNode"}, id : Nat] \cup [what : {"AddKnownPeer"}, id : {NoId}]

KademliaEvent ==
  [what : {"FindNodeSuccess", "QueryFailed"}, id : Nat]
    \cup [what : {"RoutingTableUpdate", "Other"}, id : {NoId}]

Init ==
  /\ driver = NewDriver
  /\ woken = TRUE /\ registered = {}
  /\ channel = NewChannel /\ half_added = FALSE
  /\ ping = 0 /\ identify = 0 /\ kad_handle = << >>
  /\ kad_commands = << >> /\ held = << >>
  /\ kad = [running |-> {}, next_id |-> 0]
  /\ told = 0
  /\ failed = {} /\ ignored = FALSE

-----------------------------------------------------------------------------
(* add_known_peer: a command for the background task, then one for         *)
(* Kademlia.                                                               *)
AddKnownPeer ==
  /\ driver.pc = "call" /\ Wants(driver) = "AddKnownAddress"
  /\ ~half_added /\ channel.user # "waiting"
  /\ channel' = Send(channel, "AddKnownAddress")
  /\ half_added' = Sent(channel)
  /\ woken' = TRUE
  /\ UNCHANGED <<driver, registered, streamVars, kadVars, told, failed, ignored>>

SendsKademlia(command) ==
  /\ Len(kad_commands) < KadCommands
  /\ kad_commands' = Append(kad_commands, command)
  /\ woken' = TRUE
  /\ UNCHANGED <<registered, channel, streamVars, held, told, failed, ignored>>

AddKnownPeerReturns ==
  /\ driver.pc = "call" /\ Wants(driver) = "AddKnownAddress" /\ half_added
  /\ SendsKademlia([what |-> "AddKnownPeer", id |-> NoId])
  /\ driver' = AddressSent(driver)
  /\ half_added' = FALSE
  /\ UNCHANGED kad

FindNodeCall ==
  /\ driver.pc = "call" /\ Wants(driver) = "FindNode"
  /\ SendsKademlia([what |-> "FindNode", id |-> kad.next_id])
  /\ driver' = QueryStarted(driver, kad.next_id)
  /\ kad' = [kad EXCEPT !.next_id = @ + 1]
  /\ UNCHANGED half_added

(* poll_next.  Every poll reads one ping and polls the actions.            *)
Polls ==
  /\ driver.pc = "next" /\ woken
  /\ ping' = IF ping > 0 THEN ping - 1 ELSE 0
  /\ UNCHANGED <<half_added, kadVars, told>>

PollIdentified(n, stop) ==
  /\ Polls
  /\ identify > 0 /\ identify' = identify - 1
  /\ channel' = PushAction(PollActions(channel))
  /\ driver' = PeerIdentified(driver, n, stop)
  /\ ignored' = FALSE
  /\ UNCHANGED <<woken, registered, kad_handle, failed>>

(* The streams that this poll finds empty, apart from Kademlia's.          *)
FoundEmpty == {"identify"} \cup (IF ping = 0 THEN {"ping"} ELSE {})

PollEmpty ==
  /\ Polls
  /\ identify = 0 /\ kad_handle = << >>
  /\ channel' = PollActions(channel)
  /\ woken' = FALSE
  /\ registered' = FoundEmpty \cup {"kad"}
  /\ ignored' = FALSE
  /\ UNCHANGED <<driver, identify, kad_handle, failed>>

TakesEvent(whats) ==
  /\ Polls
  /\ identify = 0 /\ kad_handle # << >> /\ Head(kad_handle).what \in whats
  /\ kad_handle' = Tail(kad_handle)
  /\ channel' = PollActions(channel)
  /\ UNCHANGED identify

PollFindNodeSuccess(n, stop) ==
  /\ TakesEvent({"FindNodeSuccess"})
  /\ driver' = FindNode(driver, Head(kad_handle).id, n, stop)
  /\ ignored' = FALSE
  /\ UNCHANGED <<woken, registered, failed>>

(* RoutingTableUpdate and QueryFailed: Pending, and no wake-up.            *)
PollIgnored ==
  /\ TakesEvent({"RoutingTableUpdate", "QueryFailed"})
  /\ failed' = IF Head(kad_handle).what = "QueryFailed"
               THEN failed \cup {Head(kad_handle).id} ELSE failed
  /\ woken' = FALSE
  /\ registered' = FoundEmpty
  /\ ignored' = TRUE
  /\ UNCHANGED driver

(* Fault: the last arm forgets to wake the task, too.                      *)
PollOtherSleeps ==
  /\ TakesEvent({"Other"})
  /\ woken' = FALSE
  /\ registered' = FoundEmpty
  /\ ignored' = FALSE
  /\ UNCHANGED <<driver, failed>>

PollOther ==
  /\ TakesEvent({"Other"})
  /\ woken' = TRUE
  /\ registered' = FoundEmpty
  /\ ignored' = FALSE
  /\ UNCHANGED <<driver, failed>>

-----------------------------------------------------------------------------
(* The background task.  An action that is granted its place wakes the     *)
(* user's task.                                                            *)
HandleCommand ==
  /\ channel.queue # << >>
  /\ channel' = Recv(channel)
  /\ woken' = (woken \/ channel.waiting # << >>)
  /\ UNCHANGED <<driver, registered, half_added, streamVars, kadVars, told, failed, ignored>>

(* litep2p puts an item into a stream, and wakes whoever found it empty.   *)
Wakes(stream) ==
  /\ woken' = (woken \/ stream \in registered)
  /\ registered' = registered \ {stream}
  /\ UNCHANGED <<driver, channel, half_added, failed, ignored>>

PingArrives ==
  /\ told < MaxTold /\ told' = told + 1
  /\ ping' = ping + 1
  /\ Wakes("ping")
  /\ UNCHANGED <<identify, kad_handle, kadVars>>

IdentifyArrives ==
  /\ told < MaxTold /\ told' = told + 1
  /\ identify' = identify + 1
  /\ Wakes("identify")
  /\ UNCHANGED <<ping, kad_handle, kadVars>>

(* Kademlia's task, a step for each of its awaits: it takes a command, or  *)
(* has something to tell or a query that ended, and then sends the event.  *)
KademliaWorks ==
  /\ held = << >>
  /\ UNCHANGED <<driver, woken, registered, channel, half_added, streamVars, failed, ignored>>

KademliaTakes ==
  /\ KademliaWorks
  /\ kad_commands # << >> /\ kad_commands' = Tail(kad_commands)
  /\ kad' = [kad EXCEPT !.running = @ \cup ({Head(kad_commands).id} \ {NoId})]
  /\ UNCHANGED <<held, told>>

KademliaTells(what) ==
  /\ KademliaWorks
  /\ told < MaxTold /\ told' = told + 1
  /\ held' = <<[what |-> what, id |-> NoId]>>
  /\ UNCHANGED <<kad_commands, kad>>

QueryEnds(id, what) ==
  /\ KademliaWorks
  /\ kad.next_id < MaxWalks
  /\ kad' = [kad EXCEPT !.running = @ \ {id}]
  /\ held' = <<[what |-> what, id |-> id]>>
  /\ UNCHANGED <<kad_commands, told>>

KademliaSends ==
  /\ held # << >> /\ Len(kad_handle) < KadEvents
  /\ kad_handle' = kad_handle \o held
  /\ held' = << >>
  /\ Wakes("kad")
  /\ UNCHANGED <<ping, identify, kad_commands, kad, told>>

PollFound ==
  \E n \in 0 .. MaxAdds, stop \in BOOLEAN :
    PollIdentified(n, stop) \/ PollFindNodeSuccess(n, stop)

Poll == PollEmpty \/ PollIgnored \/ PollOther \/ PollFound

Next ==
  \/ AddKnownPeer \/ AddKnownPeerReturns \/ FindNodeCall \/ Poll \/ HandleCommand
  \/ PingArrives \/ IdentifyArrives \/ KademliaTakes \/ KademliaSends
  \/ \E what \in {"RoutingTableUpdate", "Other"} : KademliaTells(what)
  \/ \E id \in kad.running, what \in {"FindNodeSuccess", "QueryFailed"} : QueryEnds(id, what)

(* Tasks that are woken are run, and Kademlia does not pass over a command *)
(* for ever.                                                               *)
Fairness ==
  /\ WF_vars(AddKnownPeer) /\ WF_vars(AddKnownPeerReturns) /\ WF_vars(FindNodeCall)
  /\ WF_vars(Poll) /\ WF_vars(HandleCommand)
  /\ SF_vars(KademliaTakes) /\ WF_vars(KademliaSends)

Spec == Init /\ [][Next]_vars /\ Fairness

-----------------------------------------------------------------------------
UserTypeOK ==
  /\ driver \in Driver /\ driver.pc # "answer"
  /\ woken \in BOOLEAN /\ half_added \in BOOLEAN
  /\ registered \subseteq {"ping", "identify", "kad"}
  /\ ping \in Nat /\ identify \in Nat
  /\ kad_handle \in Seq(KademliaEvent) /\ held \in Seq(KademliaEvent)
  /\ kad_commands \in Seq(KademliaCommand)
  /\ kad \in [running : SUBSET Nat, next_id : Nat]
  /\ told \in 0 .. MaxTold
  /\ failed \subseteq Nat /\ ignored \in BOOLEAN

TypeOK ==
  /\ UserTypeOK
  /\ channel \in Channel
  /\ Len(channel.queue) + Granted(channel) <= CommandBuffer
  /\ Len(kad_commands) <= KadCommands
  /\ Len(kad_handle) <= KadEvents /\ Len(held) <= 1

(* The queries that a queue of Kademlia mentions.                          *)
IdsIn(seq) == {seq[k].id : k \in DOMAIN seq} \ {NoId}

EachOnce(seq) ==
  \A k, l \in DOMAIN seq : seq[k].id = seq[l].id /\ seq[k].id # NoId => k = l

Stream == kad_handle \o held

Asked == IdsIn(kad_commands)
Ended == IdsIn(Stream)

(* The driver tracks the queries that Kademlia is asked for, those that    *)
(* run, those whose end is on the way, and, for ever, those that failed:   *)
(* QueryFailed is never passed on, so each failure costs one of its slots, *)
(* and nothing else does.                                                  *)
LeaksAreFailures ==
  /\ driver.queries = Asked \cup kad.running \cup Ended \cup failed
  /\ failed \cap (Asked \cup kad.running \cup Ended) = {}

(* The task sleeps on an item only if the last poll swallowed a            *)
(* RoutingTableUpdate or a QueryFailed, and never on an identify item.     *)
SleepsOnlyWhenIgnored ==
  driver.pc = "next" /\ ~woken =>
    /\ identify = 0
    /\ kad_handle # << >> => ignored

(* The inductive invariant, which does not depend on the command channel.  *)
(* Query ids are fresh and each query ends once; a sleeping task is woken  *)
(* by the next identify item and, unless the last poll ended in an empty   *)
(* arm, by the next event of Kademlia.                                     *)
EndsInv ==
  /\ \A id \in Asked \cup kad.running \cup Ended \cup failed : id < kad.next_id
  /\ Asked \cap (kad.running \cup Ended) = {} /\ kad.running \cap Ended = {}
  /\ EachOnce(kad_commands) /\ EachOnce(Stream)

SleepInv ==
  driver.pc = "next" /\ ~woken =>
    /\ "identify" \in registered
    /\ ignored \/ "kad" \in registered

IInv == UserTypeOK /\ LeaksAreFailures /\ SleepsOnlyWhenIgnored /\ EndsInv /\ SleepInv

(* A call hangs only behind one of two jams, neither of which anybody      *)
(* clears while the user is in a call: every place of the command channel  *)
(* is granted to actions, which only poll_next polls, or both channels of  *)
(* Kademlia are full and it waits for a place for an event, which only     *)
(* poll_next can make.                                                     *)
Jammed ==
  \/ GrantedActions(channel) = CommandBuffer
  \/ /\ held # << >> /\ Len(kad_handle) = KadEvents
     /\ Len(kad_commands) = KadCommands

CallsReturnUnlessJammed ==
  driver.pc = "call" ~> driver.pc \in {"next", "done"} \/ Jammed

(* `We need to wake up the task again to poll for more events.  Otherwise, *)
(* we would be stuck in the pending state': the task never sleeps while    *)
(* Kademlia has an event for it.                                           *)
NoLostWakeup == driver.pc = "next" /\ kad_handle # << >> => woken
=============================================================================
