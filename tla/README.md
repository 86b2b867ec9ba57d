# Verification of subp2p-explorer

TLA+ specifications of the concurrent parts of subp2p-explorer, the TLC runs
that check them on small instances, and TLAPS proofs that hold for every
instance. Paths below are relative to the repository (`src/` here).

## 1. The system

subp2p-explorer connects to Substrate networks as a light libp2p node and
reports on them. Four crates:

| crate | role |
|---|---|
| `subp2p-explorer` | libp2p behaviours: notifications, peer info, Kademlia set-up, transport |
| `cli` | the commands: authorities, authority check, network discovery, peer discovery, bootnodes, dial, extrinsics |
| `subp2p-explorer-core` | one `NetworkBackend` interface over libp2p and litep2p |
| `bench-cli` | discovery benchmarks over that interface |

### Components, their state and their operations

**Handshake substreams** (`notifications/upgrades/handshake.rs`). An inbound
notification substream has read the remote's handshake and must send ours
before any message flows. State: a six-valued enum. Operations:
`set_handshake`, `poll_process` (send, flush), `poll_next` (send, flush, read,
close). Hard: both poll loops move the state out with `mem::replace(.., Done)`
before each turn, and the error returns leave `Done` there.

**NotificationsHandler** (`notifications/handler.rs`). One per connection. State:
for each protocol (block-announces, transactions) one of `Closed`,
`OpenDesiredByRemote`, `Opening`, `Open`, and one queue `pending_events`.
Operations: `Open` and `Close` from the behaviour; inbound and outbound
substreams negotiated, negotiation failed, from libp2p; `poll`. Hard: a request
for a substream outlives the state it was made in (`pending_opening`); some
events are queued and some are returned directly; any socket call can fail.
Correct when: one request per opening, the events tell the truth about the state
and come in its order, no message before the handshake, no opening that hangs.

**Notifications behaviour** (`notifications/behavior.rs`). One per node. State: its
event queue and `peers_details`. Reacts to connections coming and going and to
handler events; each reaction is a command that travels back to the handler
through the swarm. Hard: behaviour and handlers run in different tasks and every
decision is old when it arrives. Correct when: a Close ends the session it was
meant for and no other, the remote's wish to open is answered, the application
hears of an opening before its messages.

**AuthorityDiscovery** (`cli/src/commands/authorities.rs`,
`util/authorities.rs`). One select loop over swarm events and two timers. State:
the tracked get-record queries (`queries`, at most `MAX_QUERIES`), the position
in the authority list, `remaining_authorities`, and three views of what was found
(`authority_to_details`, `peer_details`, `dialed_addresses` with
`dial_outcomes`). Hard: Kademlia keeps running queries whose id was forgotten,
records arrive late, twice, undecodable or under a key nobody asked for; a slot
that is not refilled stalls the discovery. Correct when: slots neither leak nor
overflow, no missing authority is left without a query while a slot is free, the
views agree.

**NetworkDiscovery, PeerDiscovery** (`discovery.rs`, `discover_peer.rs`). A pool of
`MAX_QUERIES` random-walk or target queries, topped up on every completion, and a
set of dialed addresses. Hard: dialing an address also puts it into Kademlia's table,
which reports it back; one address may be reported many times and for many peers.
Correct when: the pool stays full, each address is dialed once, everything dialed is
reported as discovered and no route of the table is missed.

**Authority check** (`authority_check.rs`). Runs the authority discovery, drops its
swarm, then tries a TCP connection to every address of every authority, in batches of
`MAX_PARALLEL_CHECKS`, and reports per authority and in total. State: the checks still
to do, the batch in flight, the results per authority. Hard: results of a batch arrive
in any order and are joined with dial outcomes by address; one address may belong to
several authorities; the same things are counted at three places. Correct when: every
address found is checked and reported exactly once with its own outcome, the different
counts of healthy authorities and of dials agree, the command ends.

**Identity names** (`identity.rs`). Four rounds of storage queries (key owner, identity,
parent, identity of the parent), each of which may fail, and a registration format that
is guessed from the bytes. Correct when: whatever fails, a name shown is the name of
that authority's account, and without a failure no name is forgotten.

**Bootnodes, dial_peer** (`bootnodes.rs`, `dial_peer.rs`). Event loops over a swarm with
only identify in it, bounded by a timeout. Hard: one peer behind several addresses,
answers that are repeated, an error of one dial that ends the whole command. Correct
when: each verdict has its reason and the loops stop when nobody is left to wait for.

**Extrinsics** (`extrinsics.rs`). Keeps one sender per peer and protocol that the
notifications behaviour hands out, and answers each notification with the extrinsic
until a counter runs out. Hard: senders outlive their sessions, each connection tells its
openings on its own, a second connection of a peer replaces the sender of the first,
`start_send` may refuse. Correct when: the counter bounds the loop and the channel, and a
kept sender is never an outdated one of the same connection.

**PeerInfo behaviour** (`peer_behavior.rs`). `details` per peer with the endpoints of
its connections, fed by ping and identify, which it polls one after the other. Hard: two
connections with equal endpoints, events of ping that come in front of identify's.
Correct when: exactly the endpoints of connections that are up are listed (which the code
misses, see section 3), and each identification is reported once, in order, and stored.

**Libp2pBackend, Litep2pBackend** (`subp2p-explorer-core/src/libp2p.rs`, `litep2p.rs`).
Two implementations of `NetworkBackend`: the user's task calls `find_node` and
`add_known_peer` or polls for an event; a background task owns the network. State: a
bounded command channel, `pending_actions` (sends that only `poll_next` polls), a bounded
event channel and `query_translate` (libp2p), three streams read by hand and the two bounded
channels of litep2p's Kademlia, which has a task of its own (litep2p).
`discovery` of `bench-cli` is their user and keeps 50 queries going. Hard: bounded
channels in both directions, wake-ups, a query that ends before its call returns. Correct
when: every query is accounted for, no wake-up is lost, every call returns.

**Messages and roles** (`notifications/messages.rs`). Decoding, pure.

**Types, transport and discovery builders, ss58 and crypto helpers, command line.**
Wrappers and configuration without behaviour of their own.

`PROJECT.json` lists the hazards, each at its line, and the properties that cover them.

## 2. Modules

| module | models |
|---|---|
| `Queues` | what is said of the FIFO queues: membership, at most once, order |
| `QueueLemmas` | what pushing and popping do to these predicates |
| `HandshakeSubstream` | the inbound substream as pure functions: a poll call is the set of its outcomes |
| `HandlerTransitions` | the callbacks and `poll` of the handler as functions of a handler |
| `HandlerLemmas` | what each of them does to types, queue, accounting and sockets |
| `NotificationsHandler` | one handler against any behaviour, any remote and libp2p |
| `NotificationsHandlerProofs` | its theorems |
| `Notifications` | the behaviour, a handler per connection, the swarm between them |
| `NotificationsProofs` | its theorems, and that it implements `NotificationsHandler` |
| `MCNotifications` | instances of `Notifications` |
| `Authorities` | the list of authorities, shared by discovery, check and names |
| `AuthorityDiscovery` | the discovery loop with Kademlia running beside it |
| `MCAuthorityDiscovery` | an instance with good, foreign and undecodable records |
| `AuthorityCheck` | `check_authorities`: the discovery, the TCP checks and the report in sequence |
| `AuthorityCheckProofs` | the theorems about the discovery and, on top of them, about the check |
| `MCAuthorityCheck` | an instance with a shared, a private and a portless address |
| `IdentityNames` | `fetch_identity_names` and the decoding of registrations |
| `Crawler` | the loop that `NetworkDiscovery` and `PeerDiscovery` share, with Kademlia's table beside it |
| `MCCrawler` | an instance with a bootnode and a target |
| `IdentifySwarm` | a swarm with nothing but identify, as two commands build it |
| `Bootnodes` | `verify_bootnodes` over `IdentifySwarm` |
| `DialPeer` | `dial_peer` over `IdentifySwarm` |
| `Extrinsics` | `submit_extrinsics` over the sessions of the notifications behaviour |
| `MCCommands` | instances of the three, of `IdentityNames` and of `PeerBehaviour`, one of them per behaviour |
| `PeerBehaviour` | the peer info behaviour with ping and identify inside |
| `MCPeerBehaviour` | an instance of `PeerBehaviour` alone, with two connections of equal endpoints |
| `CommandsProofs` | the theorems about `Bootnodes`, `DialPeer`, `Extrinsics`, `Crawler`, `IdentityNames` and `PeerBehaviour` |
| `CommandChannel` | the command channel of a backend and its `pending_actions`, as functions |
| `DiscoveryDriver` | `discovery` of `bench-cli`, the user of both backends, as functions |
| `Libp2pBackend` | the libp2p backend, its background task and its user |
| `Libp2pBackendProofs` | its theorems, and lemmas about the command channel |
| `Litep2pBackend` | the litep2p backend, its streams, its user and the channels of Kademlia |
| `Litep2pBackendProofs` | its theorems |

### How state and actions correspond to the code

*HandshakeSubstream.* `state` is the Rust enum. `flushed` is a history variable:
whether our handshake really left. Every socket call may be pending, succeed or
fail, so `poll_process(s)` and `poll_next(s)` are sets of (substream, return value)
pairs; each pair is one path through the loop, with the state that path leaves.

*HandlerTransitions.* A protocol is a record with the fields of the four variants.
`wire` is a history of what the outbound substream accepted in this session. `poll`
first drains `pending_events`; with an empty queue it forwards the user's
messages, flushes (the first failing protocol returns `CloseDesired`) and polls
the inbound substreams in index order until one has an event. Handshake bytes,
protocol names and the `inbound` flag only pass through and are left out.
`connection_keep_alive` only feeds libp2p's idle timeout; the end of a connection
is possible at any time in `Notifications`.

*NotificationsHandler.* A step is one callback, because libp2p calls a handler from
one task. `requests[i]` counts the substream requests libp2p has taken and not
answered; it is libp2p's contract that each is answered once. `announced[i]` is a
history: what a listener to the handler's events believes.

*Notifications.* `commands[c]` and `toBehaviour[c]` are the channels of connection
`c`; the second one is bounded and the connection task does not poll its handler
when it is full. The swarm polls the behaviour until it is pending before it takes
another connection event (`PoolEvent` requires `events = << >>`), and drops a
command for a connection that is gone. The end of a connection is reported behind
the events it had sent.

*AuthorityDiscovery.* A step is one turn of the `select!`. `dht.running` is
Kademlia's own set of running queries: it is not in the code and is what the
tracked ids are compared with. `hash_authority_id` is injective, so a record's key
is an authority. Signatures are abstracted to who signed. `advance_dht_queries`
takes members of a HashSet in any order. The address book of Kademlia
(`add_address`) feeds nothing back into this code and is left out.

*AuthorityCheck.* The discovery is composed by EXTENDS: while `step` is `discovery` a step
is a step of `AuthorityDiscovery`, and `IntoResults` (the `into_results` call that drops
the swarm) freezes its results. A check is an index into the authority list and an address,
as in the code, because an address shared by two authorities is checked twice. A batch is
drained from the front of the list, so authorities come in order while the addresses of one,
which are in a hash set, come in any; `buffer_unordered` completes them in any order. An
address is abstracted to whether it is public and has a TCP endpoint. `summary` is what is
printed between discovery and checks, `report.stats` is `compute_global_stats`.

*IdentityNames.* A step is one RPC answer; any call may fail and returns what has been
found. A registration is abstracted to what the two guesses at its layout can tell apart: the
number of additional fields, whose encoding (times four) the wrong guess takes for the tag of
the display name, and the number of bytes behind it, of which that guess may need more than
there are (`decode_data_as_string`). `stash_to_auth` inverts a map that
need not be injective; any inverse is possible because a hash map is iterated. Display
names that are given as a hash or are empty are left out.

*IdentifySwarm, Bootnodes, DialPeer.* A dial ends up connected or down; a connected remote
answers identify any number of times. The timeout of the commands may fire at any moment.
`refused_dial` and `timed_out` are histories of why the loop was left.

*Extrinsics.* A session is one protocol open on one connection. `told_events[c]` are the
events of connection `c` on their way: the `pending_events` of its handler and its channel to
the behaviour, as `Notifications` has them in detail. The swarm takes from any connection, so
the openings of one connection are told in order and those of two connections in any order,
and a session may have ended long before its opening is taken. A connection that ends takes
with it what its handler had not yet handed over. `queued` is what `start_send` put into the
session's channel. While its connection is up, a session ends only on the behaviour's answer
to its own `CloseDesired`, which is behind its opening in the queue (`Announced` in
`SessionEnds`); `CloseEndsBrokenSession` and `OpenBeforeNotification` of `Notifications` say so.

*PeerBehaviour.* `ping` and `identify` are the queues of the inner behaviours. `poll` drops
the ignored events in front, returns the first other one, and polls identify only when ping
has nothing; events that it treats alike have one name. `connections` is a Vec in the code,
of which the order is never used: it is modelled as how often each endpoint is in it.
`heard`, `reported` and `pinged` are histories, and so is the number `nr` that an
identification carries.

*Crawler.* A step is one turn of the `select!`. The two commands have the same loop;
`target` and the notes of it exist only in `discover_peer`, `dialed_peers` only in
`discovery`, and neither is read by the loop, so one module has both. `pool.running`,
`book` (the routing table) and `updates` (its queued `RoutingUpdated` events) are
Kademlia's. Other peers extend the table (`TableGrows`), failed dials shrink it
(`TableShrinks`), and `add_address` may be refused by a full bucket. `dials` counts the
calls of `swarm.dial`; `told` counts what other peers said.

*CommandChannel.* tokio gives a place that becomes free to the sender that has waited
longest, whether or not that sender is being polled (`Recv` moves the head of `waiting`
to granted). `PollActions` is one `poll_next_unpin` of a `FuturesUnordered`: it polls
ready futures in order until one completes, and leaves the rest.

*Libp2pBackend, Litep2pBackend.* A step is what one task does between two awaits.
`woken` says whether the executor will poll the user's task while it is in `next()`: a
poll that returns Pending clears it unless it called `wake_by_ref`; an arriving item sets
it, in litep2p only if the last poll found that stream empty and so left a waker
(`registered`). The background task of the libp2p backend holds an event (`held`) while
it awaits a place for it, and does nothing else. In the litep2p backend that is Kademlia's
task (external, modelled from its handle): `find_node` and the second half of
`add_known_peer` await a place in `kad_commands`, from which Kademlia takes nothing while it
holds an event that finds `kad_handle` full. The handle numbers the queries itself, so an id
is tracked before Kademlia has heard of it. Which event fills `peers_data` is
abstracted: after any event the driver may stop.

Definitions whose comment starts with "Fault:" are plausible bugs. No specification
uses them; putting one in the place of the definition after it shows that the
property aimed at it can fail.

## 3. Runs

| run | instance | result |
|---|---|---|
| `handler` | 2 protocols, 2 messages, at most 4 queued events before the environment must poll | 74,666 states, all hold |
| `notifications_two_protocols` | 1 connection, 2 protocols, event buffer 2, 2 remote substreams | 112,055 states, all hold |
| `notifications_two_connections` | 2 connections of one peer, 1 protocol, event buffer 1 | 169,101 states, all hold |
| `notifications_closed` | 1 connection, 1 protocol | `ClosedIsReported` violated |
| `authority_check` | 3 authorities, 2 slots, 5 records, 3 addresses, 5 submitted queries, batches of 2 | 206,063 states, all hold |
| `authority_addresses` | the discovery alone, 7 submitted queries | `AddressesNamePeer` violated |
| `crawler` | 2 queries in flight and one replaced, a bootnode and a target, 2 addresses, 2 things told by peers | 1,612,289 states, all hold |
| `commands` | extrinsics: 2 connections of one peer, 3 sessions, 2 notifications; bootnodes and dial: 3 addresses, 2 of one peer, 2 answers each; names: 2 authorities, 2 accounts, 9 kinds of registration; peer info: 3 connections of one peer, two with equal endpoints, 1 of another, 2 identifications | 1,125,335 states, all hold |
| `peer_endpoints` | the peer info behaviour alone | `EndpointsListed` violated |
| `libp2p_backend` | 2 places for commands, 3 for events, 2 query slots, 5 events that answer no query | 414,984 states, all hold |
| `litep2p_backend` | 1 place for commands, 1 and 2 in Kademlia's channels, 2 query slots, 3 items that answer no query | 259,130 states, all hold |
| `litep2p_wakeups` | the same, 4 such items | `NoLostWakeup` violated |

What they show:

- `OneRequestPerOpening`, `NoAnswerWhenOpen`: the `pending_opening` bookkeeping is
  exact under every order of Open, Close and answers; the handler's
  "missmatch-state" arms are dead code.
- `AnnouncementsFollowState`: although `poll` returns some events around the queue,
  `HandshakeCompleted` and `Close` always describe the state in order.
- `NoMessageBeforeHandshake`: the `Done` that error paths leave behind is never read
  from, because the handler drops the substream on every error.
- `OrderedDelivery`: messages may be lost, never repeated or reordered.
- `RequestsResolve`, `ProtocolsSettle`: no opening hangs, no broken session stays.
- `RemoteOpenIsAnswered`, `CloseEndsBrokenSession`, `OpenBeforeNotification`: the
  round trips through the swarm always fit the session they started in.
- `HandlersConform`: every step of the composed system is, for each connection, a
  step (or a stutter) of `NotificationsHandler`. What is proved there of a handler
  under any behaviour therefore holds of the handlers of this system.
- `SlotsSound`, `NoStall`, `ViewsExact`: the slots of the discovery neither leak nor
  overflow nor idle, and remaining authorities, dialed addresses and addresses per peer
  agree with the addresses per authority, also after the swarm is gone.
- `ReportComplete`: the joins of `check_authorities` (index to batch result, address to dial
  outcome) lose and duplicate nothing, also for an address that two authorities share.
- `VerdictsAgree`: `is_authority_failing` and the counter of fully reachable authorities,
  written independently, are complements.
- `SummariesAgree`: the three places that count dials agree unless authorities share an
  address; the differences then are one-sided.
- `CheckCompletes`: the command ends, with a report or an error of its set-up.
- `LoopBounded`, `SenderIsCurrent`: the loop of `submit_extrinsics` leaves at the notification
  after `close_after` ones (the 31st) and cannot fill a channel. A peer with one connection is
  sent to through its live session as soon as its opening has been taken. With two connections
  the opening told last wins, and that may be one whose session has ended while the other
  connection has a live one: the repository promises nothing for that case.
- `VerdictsJustified`, `AnswersCounted`: no verdict without a reason. `received` of
  `dial_peer` counts answers, not addresses, so one remote that answers twice can end the
  command before another has answered; nothing else can.
- `NamesExact`: a failed round or an account shared by two authorities loses names and never
  assigns a wrong one, unless a registration is among those that the two layouts share.
- `ListedAreUp`, `IdentifiedExact`: `details` never lists a closed connection, however many
  share an endpoint. Identifications are neither lost nor reordered by the order in which the
  inner behaviours are polled.
- `PoolFull`: whatever order answers, timeouts and ticks come in, `MAX_QUERIES` queries
  are tracked between two events, all of them alive. The 15-second resubmission, whose
  comment speaks of silently stalled queries, therefore never submits anything.
- `DialsMatchDiscovered`, `NoRouteMissed`, `TargetConsistent`: the early return of
  `force_dial`, the echo of its `add_address` and shared addresses do not make the
  dialed, discovered and noted addresses drift apart.
- `QueriesAccounted`, `NoLostWakeup` (libp2p): the `unwrap` of `poll_next` is safe although
  a query can end before `find_node` returns, the driver's slots do not leak, and the
  task does not sleep while an event waits.
- `CallsReturnUnlessJammed`: a call returns unless the system jams in one of two ways. In
  both backends the sends in `pending_actions` may be granted every place of the command
  channel while the user, who alone can poll them, waits for a place. And a task that waits
  for a place for an event takes no command: in the libp2p backend that is the background
  task, in the litep2p backend Kademlia's, whose command channel then fills up, too. All of
  these are reachable in the instances checked; with the real bounds (1,048,576 events; 512
  and 32 commands; litep2p's own channels) they need a long backlog. The property does not
  excuse the jams, it shows that there are no others.
- `LeaksAreFailures`, `SleepsOnlyWhenIgnored` (litep2p): the two weaknesses of this
  backend have no other cause than the arms at lines 225-229.

The four violated properties are quoted promises of the repository:

- `ClosedIsReported`: `behavior.rs:47-49` documents `CustomProtocolClosed`; the
  behaviour never emits it, so an application keeps stale senders.
- `AddressesNamePeer`: `authorities.rs:1023` expects a peer id in every address;
  `util/authorities.rs:58` lets a record pass when *some* address has one.
- `NoLostWakeup` (litep2p): `litep2p.rs:232-235` explains why the task must be woken after
  an event that is not returned; two of the arms before it do not do so.
- `EndpointsListed`: `peer_behavior.rs:66` documents `connections` as "Connected endpoints with
  this peer."; `retain` at line 199 removes every entry equal to the closed endpoint, so
  closing one of two connections to one address unlists the other.

### Bounds, and why they are enough

Two protocols are what the code has; the two may interfere only through the shared
queue and the order of the loops in `poll`. `MaxPending` stops the environment, not
the handler: four entries hold the longest burst of one protocol
(request, error, close) and one entry of the other. `Notifications` uses six, which
its environment cannot fill. Two messages suffice for an inversion or a repetition.
Two connections of one peer are the case in which per-peer state is shared; a third
adds no new pair. An event buffer of one forces the back-pressure that delays
handler events. In `AuthorityCheck`, three authorities over two slots make the
list outlast the slots, then the backfill choose; one authority that is never found
keeps the backfill and the resubmission busy; five submissions allow a resubmission
in the middle and late answers to forgotten ids. Four checks (one address is checked
twice) over batches of two give a second batch that finds results of the first for the
same authority; the three addresses are of the three kinds the check tells apart.
`MaxSubmitted` bounds the guards only, and the proofs do without it. In `Crawler`, two peers and two addresses allow
one address to be shared and one to be told twice; together with the bootnode two things
told by others suffice for an echo, a drop and a re-insertion. `MaxTold` and `MaxWalks`
bound the guards only, and the proofs do without them. In the backends, one place (two,
three) per channel makes every channel run full, two slots make the driver replace one
query while another runs, and the events that answer no query are enough to fill the
channel with actions once. Three of them suffice to fill Kademlia's event channel and leave it
holding one more, with which its command channel fills as well.

In `Extrinsics` three sessions over two connections of one peer give the sequences open,
end, reopen and open twice at once; two notifications make the loop leave at the third, and
the channel has room for just two payloads. Two answers per address distinguish answers
from addresses, and three addresses with two of one peer distinguish addresses from peers.
The chains of `IdentityNames` are all those over two accounts with every kind of
registration the decoder tells apart (`additional` of 0, 1, 8 and 9: no string, the shortest
and the longest string, past the last string tag; with 8, exactly the bytes the string needs and
one less). In `PeerBehaviour` the third connection of a peer has another endpoint,
so that closing one of two equal ones can be told from clearing the list.

`CHECK_DEADLOCK FALSE` is used where the system really stops: all connections gone,
a command at its end, the crawl over (or its submissions used up), the benchmark done, or its
tasks jammed or asleep, which is what the backend runs are about.

### Fairness

- `Drain` (a handler with queued events is polled) and `BehaviourPoll`: libp2p polls
  after every callback until it gets Pending.
- `CommandDelivered`: the connection task reads its command channel.
- `OutboundNegotiated \/ OutboundFailed`: libp2p bounds every negotiation with a
  timeout, and reports one or the other.
- `PoolEvent` is strongly fair: it is disabled while the behaviour has events, and the
  pool serves its connections in turn.

- Backends: a task that is woken is run (weak fairness of the user's and the background
  task's steps). `HandleCommand` of libp2p is strongly fair because `tokio::select!` picks
  among ready branches at random, and so is `KademliaTakes` of litep2p, whose Kademlia task
  chooses between its commands and the network in the same way.

- `Progress` of `CheckSpec`: an RPC call, a dial and a TCP connection end or time out, and
  the timer that ends the discovery is a branch of a `select!` that polls its branches in
  random order. Records, routing events and the resubmission timer are not assumed to come.

Nothing is assumed of sockets, of the remote, or of the user.

## 4. Proofs

Eight modules are checked by TLAPS with Z3, Zenon and LS4. Every safety invariant that a
passing run checks is a theorem for every value of the constants, and so is the refinement
`HandlersConform`. The inductive invariants in the modules themselves (`IInv`) and those in
the proof modules were checked by TLC on the instances of section 3 before they were proved.

**QueueLemmas, HandlerLemmas.** Pushing at the back and taking from the front, in terms of
`In`, `Once` and `Led`; and, callback by callback, what the functions of
`HandlerTransitions` do to a handler. `Good(h, n, a)` is the invariant of one handler with
its outstanding requests and what its listener believes. `OneRequestPerOpening` alone is not
inductive: from a state in which `pending_opening` is set in `Opening` or `Open`, an answer
would leave the flag without a request. `WellFormed` excludes that, and fixes the substream of
`OpenDesiredByRemote` to one that still waits for its handshake, which also shows that the
error arm of that state in `poll` is dead. `PushEffect` says what one queued event does to the
accounting and to what a listener will hear, `SocketsKeep` that the socket half of `poll`
touches neither. `OrderedDelivery` is part of `WellFormed`: what is on the wire followed by
what is in the channel ascends, and a flush moves messages from one to the other.

**NotificationsHandlerProofs**, for any number of protocols, any messages and any
`MaxPending` (assumptions `HandlerAssumption`, `MaxPendingAssumption`):

- `TypeCorrect`, `RequestsAccounted`, `OpenHasNoRequest`, `AnnouncementsFaithful`,
  `HandshakeComesFirst`, `MessagesInOrder`: `TypeOK`, `OneRequestPerOpening`,
  `NoAnswerWhenOpen`, `AnnouncementsFollowState`, `NoMessageBeforeHandshake` and
  `OrderedDelivery` are invariants of `Spec`.

**NotificationsProofs**, for any connections, peers, protocols and buffer sizes (assumptions
`HandlerAssumption`, `NotificationsAssumption`):

- `TypeCorrect`, `CloseIsExact`, `RemoteAnswered`, `OpenComesFirst`: `TypeOK`,
  `CloseEndsBrokenSession`, `RemoteOpenIsAnswered` and `OpenBeforeNotification` are invariants.
- `HandlersRefine`: `Spec => HandlersConform`, the step simulation.

`IInv` has four parts besides the types. `ConnectionsInv`: every handler is `Good`, and no
`CloseDesired` or `Notification` is ever queued in it (`poll` returns those around the queue).
`CloseInv` adds to `CloseEndsBrokenSession` that at most one Close per protocol is on its way
(`OneClose`): if two were, the first to arrive would end the session and leave the second to
end the next one. `AnnouncedInv` strengthens `OpenBeforeNotification` along the whole path:
an open session is announced, or its `HandshakeCompleted` is still in the handler or in the
channel, ahead of its notifications (`Led`). The proof treats one protocol of one connection
at a time (`FlowAt`) and has one lemma per action. `HandlersRefine` uses the same lemmas: each
step of the system leaves a handler alone or is the action of `NotificationsHandler` with the
same name.

**AuthorityCheckProofs**, for every authority list, slot count, set of records, kinds of
addresses and batch size (assumptions `DiscoveryAssumption`, `CheckAssumption`, of which the
addresses being finite is a part):

- `DiscoverySlots`, `DiscoveryNeverStalls`, `DiscoveryViewsAgree`: `SlotsSound`,
  `NoStall` and `ViewsExact` are invariants of the discovery alone.
- `CheckTypes`, `CheckSlots`, `CheckNeverStalls`, `CheckViewsAgree`, `ReportCovers`,
  `VerdictsAddUp`: `CheckTypeOK`, `SlotsSound`, `NoStall`, `ViewsExact`, `ReportComplete` and
  `VerdictsAgree` are invariants of the composed specification.
- `SummariesAddUp`: so is `SummariesAgree`, under the hypothesis that no authority is in the
  list twice. The list is the answer of the runtime call, which the code takes as it is; were one
  listed twice, the final statistics would count its addresses twice and the earlier
  summary once.

The discovery's invariant is the conjunction of the three with the types. Its heart is the
effect of `advance_dht_queries`: adding a batch of n new ids to a function with k ids gives
k + n of them (fresh ids, hence `running` bounded by `next_id` in the type), the list part
uses up the slots or the list, the backfill the slots or the missing authorities. The step
lemma is reused as it is for the check. `ReportComplete` speaks of the last state only; what
is inductive is a ledger: once the discovery is over, an address of an authority is waiting,
in flight, or has exactly one result, in the current batch or in `grouped` (`Ledger`,
`Covered`), and the results the addresses come from do not change any more. `VerdictsAgree`
needs no batches: a finite set is split into those that satisfy `is_authority_failing` and
those that do not, which are the fully reachable ones. `SummariesAgree` needs `Printed`, that
the earlier summary describes the state the report is made of; then both sides count the
pairs of an authority and one of its addresses, once by authority and once by outcome.

**CommandsProofs**, for any connections, peers, addresses, storage and bounds (assumptions
`SwarmAssumption`, `ExtrinsicsAssumption`, `CrawlerAssumption`, `IdentityAssumption`,
`PeerBehaviourAssumption`):

- `BootnodeVerdicts`, `DialPeerCounts`, `ExtrinsicsBounded`, `ExtrinsicsSender`:
  `VerdictsJustified`, `AnswersCounted`, `LoopBounded` and `SenderIsCurrent` are invariants.
- `CrawlerTypes`, `PoolStaysFull`, `CrawlDialsOnce`, `CrawlMissesNoRoute`, `TargetSummary`:
  `TypeOK`, `PoolFull`, `DialsMatchDiscovered`, `NoRouteMissed` and `TargetConsistent` are
  invariants of the crawler.
- `NamesAreExact`: `NamesExact` is an invariant of the lookup of names.
- `ListedEndpoints`, `IdentifiedOnce`: `ListedAreUp` and `IdentifiedExact` are invariants of
  the peer info behaviour.

`SenderIsCurrent` is not inductive: it needs that of two sessions of one connection and
protocol the earlier has ended (`EarlierEnded`), that each connection tells its own openings in
their order and only those (`OpeningsOrdered`), and that a connection that has
yet to tell of a session has yet to tell of its later live ones, too (`LatestUntold`). Nothing is said about the order between
connections, because there is none. Then an opening that is taken is later than every
announced session of its connection and protocol, and those have ended. `AnswersCounted` needs that `received` is below the number of
addresses as long as the loop waits. `ExtrinsicsAssumption` contains that `close_after` is at
most the size of a channel.

The crawler's `IInv` is the conjunction of its properties and is preserved part by part: the
pool and the routes do not depend on each other. `TopUp` counts: fresh ids (the type bounds
every id by `next_id`) fill the pool to exactly `MAX_QUERIES`. `AnnounceStep` shows that an
update leaves the queue only when its addresses have been recorded. The type says that an
update names at least one address, without which `TargetConsistent` would not be inductive.

For the names, `LookupInv` says what has been found after each round as a function of the
storage and of the inverse of the owner map that the hash map happened to give: before the
last round exactly the authorities chosen by it whose stash has a registration have a name,
and `missing` are the other stashes. For `PeerBehaviour`, `Known` says that a peer with a
connection or with an identification that waits has an entry in `details`; without it an
identification could be reported and, because `and_modify` finds nothing to modify, not stored.

**Libp2pBackendProofs**, for any channel capacities, slots and bounds (assumptions
`ChannelAssumption`, `DriverAssumption`, `Libp2pAssumption`):

- `TypeCorrect`, `SlotsAreExact`, `EventsWake`: `TypeOK`, `QueriesAccounted` and `NoLostWakeup`
  are invariants.

The types contain that commands in the queue and places granted together fit the channel,
which needs a lemma for each operation of the channel. `CallsInv`: the user has one call under
way, so at most one FindNode is queued or answered. `IdsInv`: ids are fresh and no query ends
twice, so the end that `poll_next` takes out of the stream is the only one and its translation is
there. `TranslationsInv`: `query_translate` is one-to-one, so removing one entry frees one slot.

**Litep2pBackendProofs**, for any slots, bounds and capacities (assumptions `DriverAssumption`,
`Litep2pAssumption`):

- `FailuresAreTheLeaks`, `EmptyArmsAreTheSleeps`: `LeaksAreFailures` and `SleepsOnlyWhenIgnored`
  are invariants.

`EndsInv` has the freshness of ids and that a query is in one place at a time: asked for, running
or ended, once each; `Stream` is Kademlia's event channel with the event it holds. `SleepInv` says which streams hold a waker of a sleeping
task, which is what an arriving item finds. Nothing depends on the command channel of the
background task, so the proof leaves it arbitrary.

Only model-checked: the liveness properties `RequestsResolve`, `ProtocolsSettle`,
`CallsReturnUnlessJammed` of both backends and `CheckCompletes`, because liveness under fairness
and ENABLED are outside what the installed provers do; and the four expected violations, which
are counterexamples.

## 5. Not modelled

- Varint framing, handshake sizes, the choice of an upgrade in `UpgradeCollec`:
  byte-level, no state across calls.
- Printing, progress bars, geolocation, JSON output, argument parsing.
- RPC calls (runtime API, system_properties, chain-spec downloads): I/O. Where a command
  goes on after one, the call is a step that succeeds or fails.
- Handshake messages and role bits: decoding without state.
- Kademlia and the swarm themselves: external, modelled by what they may report.
- The wrapper types of `subp2p-explorer-core/src/types`.
- Which of several dial outcomes of one address should win: the code keeps the last,
  no document says more, so the model keeps the last and states nothing.

## 6. Plan

Done: the notification stack, the authority discovery and its check, the crawlers, the small
commands, the peer info behaviour and the backends, and a theorem for every safety invariant
and for the refinement. Left:

1. Proofs: the abstract promise of a backend (a slot per query) as a specification of its own
   that both backends are shown to implement or to miss.
2. `resolve_bootnodes` with its fallbacks, the listen addresses of the litep2p backend, the
   outbound handshake upgrade, the role bit mask.
