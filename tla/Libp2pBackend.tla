---------------------------- MODULE Libp2pBackend ----------------------------
(***************************************************************************)
(* Libp2pBackend (subp2p-explorer-core/src/libp2p.rs) used by discovery.   *)
(* Two tasks: the user's, which calls find_node and add_known_peer or      *)
(* polls for an event, and the background task, which owns the swarm.      *)
(* Commands go one way and events the other, both through bounded          *)
(* channels.  A step is what a task does between two awaits.               *)
(*                                                                         *)
(* peer_addresses is never read and left out, as are addresses and the     *)
(* contents of events.                                                     *)
(***************************************************************************)
EXTENDS Integers, FiniteSets, Queues, CommandChannel, DiscoveryDriver

CONSTANTS
  EventBuffer,         \* capacity of the event channel
  FirstId,             \* the first query id of Kademlia
  MaxAdds,             \* bound on the addresses of one event
  MaxWalks,            \* bound on the queries that may be replaced
  MaxTold              \* bound on the events that answer no query

ASSUME Libp2pAssumption ==
  /\ EventBuffer \in Nat \ {0}
  /\ FirstId \in Nat /\ MaxAdds \in Nat /\ MaxWalks \in Nat /\ MaxTold \in Nat

VARIABLES
  driver,              \* the user
  woken,               \* the user's task will poll, when it is in next()
  channel,             \* command_tx, command_rx and pending_actions
  events,              \* tx, rx
  held,                \* the event the background task is sending, if any
  task,                \* the background task: up, ended
  kad,                 \* Kademlia: running queries, next id
  answer,              \* the oneshot of find_node
  query_translate, next_query_id,
  told                 \* see MaxTold

backendVars == <<query_translate, next_query_id>>
vars == <<driver, woken, channel, events, held, task, kad, answer, backendVars, told>>

NoId == -1

Event == [what : {"Finished"}, id : Nat]
           \cup [what : {"Identified", "Routable", "Other"}, id : {NoId}]

Told(what) == [what |-> what, id |-> NoId]

Init ==
  /\ driver = NewDriver
  /\ woken = TRUE
  /\ channel = NewChannel
  /\ events = << >> /\ held = << >>
  /\ task = "up"
  /\ kad = [running |-> {}, next_id |-> FirstId]
  /\ answer = NoId
  /\ query_translate = << >> /\ next_query_id = 0
  /\ told = 0

-----------------------------------------------------------------------------
(* The user calls add_known_peer (one command per address) or find_node.   *)
CallSends ==
  /\ driver.pc = "call" /\ channel.user # "waiting"
  /\ channel' = Send(channel, Wants(driver))
  /\ driver' = IF ~Sent(channel) THEN driver
               ELSE IF Wants(driver) = "FindNode" THEN [driver EXCEPT !.pc = "answer"]
               ELSE AddressSent(driver)
  /\ woken' = TRUE
  /\ UNCHANGED <<events, held, task, kad, answer, backendVars, told>>

(* Fault: the query is not entered into query_translate.                   *)
FindNodeUntranslated ==
  /\ driver.pc = "answer" /\ answer # NoId
  /\ next_query_id' = next_query_id + 1
  /\ driver' = QueryStarted(driver, next_query_id)
  /\ answer' = NoId
  /\ woken' = TRUE
  /\ UNCHANGED <<channel, events, held, task, kad, query_translate, told>>

(* find_node receives Kademlia's id.                                       *)
FindNodeReturns ==
  /\ driver.pc = "answer" /\ answer # NoId
  /\ query_translate' = [id \in DOMAIN query_translate \cup {answer} |->
                           IF id = answer THEN next_query_id ELSE query_translate[id]]
  /\ next_query_id' = next_query_id + 1
  /\ driver' = QueryStarted(driver, next_query_id)
  /\ answer' = NoId
  /\ woken' = TRUE
  /\ UNCHANGED <<channel, events, held, task, kad, told>>

-----------------------------------------------------------------------------
(* poll_next: the actions first, then one event.                           *)
Polls == driver.pc = "next" /\ woken

TakesEvent(what) ==
  /\ Polls
  /\ events # << >> /\ Head(events).what = what
  /\ events' = Tail(events)
  /\ UNCHANGED <<held, task, kad, answer, next_query_id, told>>

PollEmpty ==
  /\ Polls /\ events = << >>
  /\ channel' = PollActions(channel)
  /\ woken' = FALSE
  /\ UNCHANGED <<driver, events, held, task, kad, answer, backendVars, told>>

PollIdentified(n, stop) ==
  /\ TakesEvent("Identified")
  /\ channel' = PollActions(channel)
  /\ driver' = PeerIdentified(driver, n, stop)
  /\ UNCHANGED <<woken, query_translate>>

(* The unwrap is the domain of query_translate.                            *)
PollFinished(n, stop) ==
  LET id == Head(events).id
  IN  /\ TakesEvent("Finished")
      /\ channel' = PollActions(channel)
      /\ driver' = FindNode(driver, query_translate[id], n, stop)
      /\ query_translate' = [i \in DOMAIN query_translate \ {id} |-> query_translate[i]]
      /\ UNCHANGED woken

(* RoutablePeer and PendingRoutablePeer: an action is pushed.              *)
PollRoutable ==
  /\ TakesEvent("Routable")
  /\ channel' = PushAction(PollActions(channel))
  /\ woken' = TRUE
  /\ UNCHANGED <<driver, query_translate>>

(* Fault: the task is not woken after an event of no interest.             *)
PollOtherSleeps ==
  /\ TakesEvent("Other")
  /\ channel' = PollActions(channel)
  /\ woken' = FALSE
  /\ UNCHANGED <<driver, query_translate>>

PollOther ==
  /\ TakesEvent("Other")
  /\ channel' = PollActions(channel)
  /\ woken' = TRUE
  /\ UNCHANGED <<driver, query_translate>>

-----------------------------------------------------------------------------
(* Fault: the id of a new query is not sent back.                          *)
HandleCommandSilently ==
  /\ task = "up" /\ held = << >> /\ channel.queue # << >>
  /\ channel' = Recv(channel)
  /\ woken' = (woken \/ channel.waiting # << >>)
  /\ UNCHANGED <<driver, events, held, task, kad, answer, backendVars, told>>

(* handle_cmd.  An action that is granted its place wakes the user's task. *)
HandleCommand ==
  /\ task = "up" /\ held = << >> /\ channel.queue # << >>
  /\ channel' = Recv(channel)
  /\ woken' = (woken \/ channel.waiting # << >>)
  /\ IF Head(channel.queue) = "FindNode"
     THEN /\ answer' = kad.next_id
          /\ kad' = [running |-> kad.running \cup {kad.next_id}, next_id |-> kad.next_id + 1]
     ELSE UNCHANGED <<answer, kad>>
  /\ UNCHANGED <<driver, events, held, task, backendVars, told>>

(* swarm.select_next_some: a query ended, or something else happened.      *)
QueryEnds(id) ==
  /\ task = "up" /\ held = << >>
  /\ kad.next_id < MaxWalks
  /\ held' = <<[what |-> "Finished", id |-> id]>>
  /\ kad' = [kad EXCEPT !.running = @ \ {id}]
  /\ UNCHANGED <<driver, woken, channel, events, task, answer, backendVars, told>>

SwarmEvent(what) ==
  /\ task = "up" /\ held = << >>
  /\ told < MaxTold /\ told' = told + 1
  /\ held' = <<Told(what)>>
  /\ UNCHANGED <<driver, woken, channel, events, task, kad, answer, backendVars>>

(* Fault: events are sent without regard to the bound of the channel.      *)
DeliverEventAtOnce ==
  /\ task = "up" /\ held # << >> /\ driver.pc # "done"
  /\ events' = events \o held
  /\ held' = << >>
  /\ woken' = TRUE
  /\ UNCHANGED <<driver, channel, task, kad, answer, backendVars, told>>

(* handle_swarm_event: awaits a place, and does nothing else meanwhile.    *)
DeliverEvent ==
  /\ task = "up" /\ held # << >> /\ driver.pc # "done"
  /\ Len(events) < EventBuffer
  /\ events' = events \o held
  /\ held' = << >>
  /\ woken' = TRUE
  /\ UNCHANGED <<driver, channel, task, kad, answer, backendVars, told>>

(* The backend is dropped: send fails, or recv returns None.               *)
TaskEnds ==
  /\ task = "up" /\ driver.pc = "done"
  /\ held # << >> \/ channel.queue = << >>
  /\ task' = "ended"
  /\ UNCHANGED <<driver, woken, channel, events, held, kad, answer, backendVars, told>>

PollFound ==
  \E n \in 0 .. MaxAdds, stop \in BOOLEAN : PollIdentified(n, stop) \/ PollFinished(n, stop)

Poll == PollEmpty \/ PollRoutable \/ PollOther \/ PollFound

Next ==
  \/ CallSends \/ FindNodeReturns \/ Poll
  \/ HandleCommand \/ DeliverEvent \/ TaskEnds
  \/ \E id \in kad.running : QueryEnds(id)
  \/ \E what \in {"Identified", "Routable", "Other"} : SwarmEvent(what)

(* Tasks that are woken are run; select! takes its branches at random, so  *)
(* it does not pass over a command for ever.                               *)
Fairness ==
  /\ WF_vars(CallSends) /\ WF_vars(FindNodeReturns) /\ WF_vars(Poll)
  /\ SF_vars(HandleCommand) /\ WF_vars(DeliverEvent) /\ WF_vars(TaskEnds)

Spec == Init /\ [][Next]_vars /\ Fairness

-----------------------------------------------------------------------------
TypeOK ==
  /\ driver \in Driver
  /\ woken \in BOOLEAN
  /\ channel \in Channel
  /\ Len(channel.queue) + Granted(channel) <= CommandBuffer
  /\ events \in Seq(Event) /\ Len(events) <= EventBuffer
  /\ held \in Seq(Event) /\ Len(held) <= 1
  /\ task \in {"up", "ended"}
  /\ kad \in [running : SUBSET Nat, next_id : Nat]
  /\ answer \in Nat \cup {NoId}
  /\ DOMAIN query_translate \subseteq Nat
  /\ next_query_id \in Nat /\ told \in 0 .. MaxTold

(* Every query is accounted for in three places: Kademlia runs it or its   *)
(* end is on the way, query_translate knows it (or find_node is about to   *)
(* enter it), and the driver tracks it under the translated id.  So the    *)
(* unwrap of poll_next never fails, although a query may end before        *)
(* find_node returns, and no slot of the driver leaks.                     *)
Stream == events \o held

Ended == {Stream[k].id : k \in DOMAIN Stream} \ {NoId}

QueriesAccounted ==
  /\ DOMAIN query_translate \cup ({answer} \ {NoId}) = kad.running \cup Ended
  /\ driver.pc = "next" => answer = NoId
  /\ driver.queries = {query_translate[id] : id \in DOMAIN query_translate}
  /\ Cardinality(driver.queries) = Cardinality(DOMAIN query_translate)

(* `We need to wake up the task again to poll for more events': the task   *)
(* of the user never sleeps in next() while an event waits for it.         *)
NoLostWakeup == driver.pc = "next" /\ events # << >> => woken

(* The inductive invariant.  The user has one call under way: a FindNode   *)
(* that is queued or answered belongs to a user who waits for it.  Ids are *)
(* fresh, no query ends twice, and no two queries have the same            *)
(* translation.                                                            *)
CallsInv ==
  /\ driver.pc = "call" => Wants(driver) \in Commands
  /\ Once("FindNode", channel.queue)
  /\ ~(In("FindNode", channel.queue) /\ answer # NoId)
  /\ In("FindNode", channel.queue) \/ answer # NoId => driver.pc = "answer"

IdsInv ==
  /\ \A id \in kad.running \cup Ended : id < kad.next_id
  /\ kad.running \cap Ended = {}
  /\ \A id \in Ended : Once([what |-> "Finished", id |-> id], Stream)
  /\ answer \notin DOMAIN query_translate

TranslationsInv ==
  /\ IsFiniteSet(DOMAIN query_translate)
  /\ \A id \in DOMAIN query_translate : query_translate[id] \in 0 .. next_query_id - 1
  /\ \A i, j \in DOMAIN query_translate : query_translate[i] = query_translate[j] => i = j

IInv ==
  /\ TypeOK /\ QueriesAccounted /\ NoLostWakeup
  /\ CallsInv /\ IdsInv /\ TranslationsInv

(* A call hangs only behind one of two jams: the background task waits for *)
(* a place in the event channel, which only the user can make, or every    *)
(* place of the command channel is granted to actions, which only the user *)
(* can poll.                                                               *)
Jammed ==
  \/ held # << >> /\ Len(events) = EventBuffer
  \/ GrantedActions(channel) = CommandBuffer

CallsReturnUnlessJammed ==
  driver.pc \in {"call", "answer"} ~> driver.pc \in {"next", "done"} \/ Jammed
=============================================================================
