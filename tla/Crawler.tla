------------------------------- MODULE Crawler -------------------------------
(***************************************************************************)
(* The DHT crawlers of the command line: NetworkDiscovery (discovery.rs)   *)
(* walks the network at random, PeerDiscovery (discover_peer.rs) hunts one *)
(* target.  Both are the same loop over a pool of get_closest_peers        *)
(* queries that dials every address it hears of.  The fields only one of   *)
(* them has (dialed_peers; the target's) feed back into nothing, so one    *)
(* module carries them all and each command is a projection of it.         *)
(*                                                                         *)
(* A step is one turn of the select! of drive_events.  Kademlia is beside  *)
(* it: `book' is its routing table and `updates' the RoutingUpdated events *)
(* it has queued.  It queues one for every address that is new to the      *)
(* table, also when the crawler adds it: the crawler hears its own echo.   *)
(*                                                                         *)
(* The contents of Info and the per-peer count of dialings are never read  *)
(* and left out.                                                           *)
(***************************************************************************)
EXTENDS Integers, FiniteSets

CONSTANTS
  MaxQueries,          \* MAX_QUERIES
  Peers, Addresses,
  Target,              \* the peer PeerDiscovery hunts
  Roles, NoRole,       \* ProtocolRole; NoRole: no entry, or bytes of no role
  Bootnodes,           \* [Peers -> SUBSET Addresses], given to build_swarm
  MaxWalks,            \* bound on the queries ever submitted
  MaxTold              \* bound on what other peers tell about routes

ASSUME CrawlerAssumption ==
  /\ MaxQueries \in Nat \ {0}
  /\ Target \in Peers
  /\ NoRole \notin Roles
  /\ Bootnodes \in [Peers -> SUBSET Addresses]
  /\ MaxWalks \in Nat
  /\ MaxTold \in Nat

VARIABLES
  phase,                      \* new, running (inside drive_events), done
  pool,                       \* queries; Kademlia's running ones; next id
  discovered_with_addresses,  \* addresses per peer; {}: no entry
  peer_details,               \* peers that were identified
  peer_role,
  dialed_peers,
  dialed_addresses,
  target,                     \* target_identified, _dht_reports, _known_addresses
  book, updates,              \* Kademlia, see above
  dials,                      \* history: how often swarm.dial(address) was called
  told                        \* history: routes other peers told us

dialVars == <<dialed_addresses, dials>>
kadVars  == <<book, updates>>
toldVars == <<told>>
vars == <<phase, pool, discovered_with_addresses, peer_details, peer_role, dialed_peers,
          dialVars, target, kadVars, toldVars>>

Update(p, addresses) == [peer |-> p, addresses |-> addresses]

NewPool == [queries |-> {}, running |-> {}, next_id |-> 0]

(* The events of new entries of p, whose entry was known so far.           *)
RoutingUpdates(p, known, new) == {Update(p, known \cup {x}) : x \in new}

(* build_swarm has put the bootnodes into the table.                       *)
Init ==
  /\ phase = "new"
  /\ pool = NewPool
  /\ discovered_with_addresses = [p \in Peers |-> {}]
  /\ peer_details = {}
  /\ peer_role = [p \in Peers |-> NoRole]
  /\ dialed_peers = {}
  /\ dialed_addresses = {}
  /\ target = [identified |-> FALSE, dht_reports |-> 0, known_addresses |-> {}]
  /\ book = Bootnodes
  /\ updates = UNION {RoutingUpdates(p, {}, Bootnodes[p]) : p \in Peers}
  /\ dials = [x \in Addresses |-> 0]
  /\ told = 0

-----------------------------------------------------------------------------
(* Fault: the same query id is used again and again.                       *)
top_up_queries_reused(d) ==
  [d EXCEPT !.queries = @ \cup {d.next_id}, !.running = @ \cup {d.next_id}]

(* Fault: one query is submitted, however many are missing.                *)
top_up_queries_once(d) ==
  [queries |-> d.queries \cup {d.next_id}, running |-> d.running \cup {d.next_id},
   next_id |-> d.next_id + 1]

(* get_closest_peers until MAX_QUERIES are tracked.                        *)
top_up_queries(d) ==
  LET missing == MaxQueries - Cardinality(d.queries)
      ids == d.next_id .. d.next_id + missing - 1
  IN  IF missing > 0
      THEN [queries |-> d.queries \cup ids, running |-> d.running \cup ids,
            next_id |-> d.next_id + missing]
      ELSE d

(* Fault: an address is dialed again when it is reported again.            *)
force_dial_again(addresses) ==
  /\ dialed_addresses' = dialed_addresses \cup addresses
  /\ dials' = [x \in Addresses |-> IF x \in addresses THEN dials[x] + 1 ELSE dials[x]]

(* force_dial for each address: dialed at most once, errors only logged.   *)
force_dial(addresses) ==
  /\ dialed_addresses' = dialed_addresses \cup addresses
  /\ dials' = [x \in Addresses |->
                 IF x \in addresses \ dialed_addresses THEN dials[x] + 1 ELSE dials[x]]

(* The add_address of force_dial, for the addresses not dialed before.     *)
(* Kademlia takes those it does not have, unless the bucket is full.       *)
add_address(p, addresses, pending) ==
  \E new \in SUBSET (addresses \ (dialed_addresses \cup book[p])) :
    /\ book' = [book EXCEPT ![p] = @ \cup new]
    /\ updates' = pending \cup RoutingUpdates(p, book[p], new)

(* Fault: an address that is not dialed is not recorded either.            *)
DiscoveredNew(p, addresses) ==
  discovered_with_addresses' =
    [discovered_with_addresses EXCEPT ![p] = @ \cup (addresses \ dialed_addresses)]

Discovered(p, addresses) ==
  discovered_with_addresses' = [discovered_with_addresses EXCEPT ![p] = @ \cup addresses]

(* Fault: reports are counted, their addresses forgotten.                  *)
note_target_addresses_only(addresses) == [target EXCEPT !.dht_reports = @ + 1]

note_target_addresses(addresses) ==
  [target EXCEPT !.dht_reports = @ + 1, !.known_addresses = @ \cup addresses]

-----------------------------------------------------------------------------
(* A query ended, with success or by its timeout; `addresses' are those of *)
(* the target in the answer.                                               *)
GetClosestPeers(id, addresses) ==
  /\ phase = "running" /\ pool.next_id < MaxWalks
  /\ id \in pool.running
  /\ target' = IF addresses = {} THEN target ELSE note_target_addresses(addresses)
  /\ pool' = top_up_queries([pool EXCEPT !.queries = @ \ {id}, !.running = @ \ {id}])
  /\ UNCHANGED <<phase, discovered_with_addresses, peer_details, peer_role, dialed_peers,
                 dialVars, kadVars, told>>

(* KademliaEvent::RoutingUpdated.                                          *)
RoutingUpdated(u) ==
  /\ phase = "running"
  /\ target' = IF u.peer = Target THEN note_target_addresses(u.addresses) ELSE target
  /\ add_address(u.peer, u.addresses, updates \ {u})
  /\ force_dial(u.addresses)
  /\ Discovered(u.peer, u.addresses)
  /\ UNCHANGED <<phase, pool, peer_details, peer_role, dialed_peers, toldVars>>

(* KademliaEvent::RoutablePeer and PendingRoutablePeer.                    *)
RoutablePeer(p, x) ==
  /\ phase = "running" /\ told < MaxTold
  /\ target' = IF p = Target THEN note_target_addresses({x}) ELSE target
  /\ add_address(p, {x}, updates)
  /\ force_dial({x})
  /\ Discovered(p, {x})
  /\ told' = told + 1
  /\ UNCHANGED <<phase, pool, peer_details, peer_role, dialed_peers>>

(* Kademlia learns an address from the traffic of its queries.             *)
TableGrows(p, x) ==
  /\ phase = "running" /\ told < MaxTold
  /\ x \notin book[p]
  /\ book' = [book EXCEPT ![p] = @ \cup {x}]
  /\ updates' = updates \cup RoutingUpdates(p, book[p], {x})
  /\ told' = told + 1
  /\ UNCHANGED <<phase, pool, discovered_with_addresses, peer_details, peer_role,
                 dialed_peers, dialVars, target>>

(* Kademlia drops an address that could not be dialed.                     *)
TableShrinks(p, x) ==
  /\ phase = "running"
  /\ x \in book[p]
  /\ book' = [book EXCEPT ![p] = @ \ {x}]
  /\ UNCHANGED <<phase, pool, discovered_with_addresses, peer_details, peer_role,
                 dialed_peers, dialVars, target, updates, toldVars>>

Identified(p) ==
  /\ phase = "running"
  /\ peer_details' = peer_details \cup {p}
  /\ target' = IF p = Target THEN [target EXCEPT !.identified = TRUE] ELSE target
  /\ UNCHANGED <<phase, pool, discovered_with_addresses, peer_role, dialed_peers,
                 dialVars, kadVars, toldVars>>

(* A handshake that is no role is ignored.                                 *)
CustomProtocolOpen(p, role) ==
  /\ phase = "running"
  /\ peer_role' = IF role = NoRole THEN peer_role ELSE [peer_role EXCEPT ![p] = role]
  /\ UNCHANGED <<phase, pool, discovered_with_addresses, peer_details, dialed_peers,
                 dialVars, target, kadVars, toldVars>>

(* SwarmEvent::Dialing, with a peer id.                                    *)
Dialing(p) ==
  /\ phase = "running"
  /\ dialed_peers' = dialed_peers \cup {p}
  /\ UNCHANGED <<phase, pool, discovered_with_addresses, peer_details, peer_role,
                 dialVars, target, kadVars, toldVars>>

(* drive_events: the first batch, the resubmit timer, the outer timeout.   *)
Start ==
  /\ phase = "new"
  /\ phase' = "running"
  /\ pool' = top_up_queries(pool)
  /\ UNCHANGED <<discovered_with_addresses, peer_details, peer_role, dialed_peers,
                 dialVars, target, kadVars, toldVars>>

ResubmitTick ==
  /\ phase = "running"
  /\ pool' = top_up_queries(pool)
  /\ UNCHANGED <<phase, discovered_with_addresses, peer_details, peer_role, dialed_peers,
                 dialVars, target, kadVars, toldVars>>

Timeout ==
  /\ phase = "running"
  /\ phase' = "done"
  /\ UNCHANGED <<pool, discovered_with_addresses, peer_details, peer_role, dialed_peers,
                 dialVars, target, kadVars, toldVars>>

Next ==
  \/ Start \/ ResubmitTick \/ Timeout
  \/ \E id \in pool.running, addresses \in SUBSET Addresses : GetClosestPeers(id, addresses)
  \/ \E u \in updates : RoutingUpdated(u)
  \/ \E p \in Peers :
       \/ \E x \in Addresses : RoutablePeer(p, x) \/ TableGrows(p, x) \/ TableShrinks(p, x)
       \/ \E role \in Roles \cup {NoRole} : CustomProtocolOpen(p, role)
       \/ Identified(p) \/ Dialing(p)

Spec == Init /\ [][Next]_vars

-----------------------------------------------------------------------------
Pool(n) ==
  [queries : SUBSET (0 .. n - 1), running : SUBSET (0 .. n - 1), next_id : Nat]

TypeOK ==
  /\ phase \in {"new", "running", "done"}
  /\ pool \in Pool(pool.next_id)
  /\ discovered_with_addresses \in [Peers -> SUBSET Addresses]
  /\ peer_details \subseteq Peers
  /\ peer_role \in [Peers -> Roles \cup {NoRole}]
  /\ dialed_peers \subseteq Peers
  /\ dialed_addresses \subseteq Addresses
  /\ target \in [identified : BOOLEAN, dht_reports : Nat, known_addresses : SUBSET Addresses]
  /\ book \in [Peers -> SUBSET Addresses]
  /\ updates \subseteq [peer : Peers, addresses : (SUBSET Addresses) \ {{}}]
  /\ dials \in [Addresses -> Nat]
  /\ told \in 0 .. MaxTold

(* `Exactly MAX_QUERIES random walks are always running': whatever order   *)
(* answers, timeouts and ticks come in, the pool is neither short nor      *)
(* overfull between two events, and every id in it is one Kademlia will    *)
(* still report.                                                           *)
PoolFull ==
  /\ Cardinality(pool.queries) <= MaxQueries
  /\ phase = "running" => Cardinality(pool.queries) = MaxQueries
  /\ pool.queries = pool.running

(* `Each address is dialed at most once', and what was dialed is what is   *)
(* reported as discovered, however often and for however many peers the    *)
(* address is reported.                                                    *)
DialsMatchDiscovered ==
  /\ dialed_addresses = UNION {discovered_with_addresses[p] : p \in Peers}
  /\ \A x \in Addresses : dials[x] = IF x \in dialed_addresses THEN 1 ELSE 0

(* No route is missed: what Kademlia's table holds has been discovered for *)
(* that peer, or is in an update that the crawler has still to take.       *)
NoRouteMissed ==
  \A p \in Peers : \A x \in book[p] :
    \/ x \in discovered_with_addresses[p]
    \/ \E u \in updates : u.peer = p /\ x \in u.addresses

(* The summary of discover_peer agrees with the crawl: the target's known  *)
(* addresses include all that were discovered for it, are empty iff there  *)
(* was no report, and it counts as identified iff its Info can be printed. *)
TargetConsistent ==
  /\ discovered_with_addresses[Target] \subseteq target.known_addresses
  /\ target.dht_reports = 0 <=> target.known_addresses = {}
  /\ target.identified <=> Target \in peer_details

(* The inductive invariant: all of the above.                              *)
IInv ==
  TypeOK /\ PoolFull /\ DialsMatchDiscovered /\ NoRouteMissed /\ TargetConsistent
=============================================================================
