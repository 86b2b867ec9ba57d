------------------------- MODULE AuthorityDiscovery -------------------------
(***************************************************************************)
(* AuthorityDiscovery (cli/src/commands/authorities.rs): find the DHT      *)
(* record of every authority with at most MAX_QUERIES tracked queries, and *)
(* dial every address the records name.                                    *)
(*                                                                         *)
(* The select loop of `discover' is one task, so a step is the handling of *)
(* one swarm event or of one timer tick.  Kademlia runs beside it: a query *)
(* reports any number of records and then its end, in any order with the   *)
(* other queries, and it keeps running when the code forgets its id.       *)
(*                                                                         *)
(* hash_authority_id is injective, so a record key is its authority.  The  *)
(* counters and timestamps that are only printed (dht_errors, old_log,     *)
(* start_time) and finished_query, which nothing sets, are left out.       *)
(***************************************************************************)
EXTENDS Authorities, Integers, FiniteSets

CONSTANTS
  MaxQueries,           \* MAX_QUERIES
  MaxDiscoveryQueries,  \* MAX_DISCOVERY_QUERIES
  Addresses, Peers,     \* multiaddresses and peer ids
  PeerIdOf,             \* get_peer_id: the /p2p part of an address, or NoPeer
  NoPeer,
  DhtRecords,           \* the records that remote peers may return
  MaxSubmitted          \* bound on the get_record queries ever submitted

(* `key' is what the record is filed under, `signer' whose auth_signature  *)
(* verifies, `peer_key' whose peer_signature does (NoPeer: none).          *)
DhtRecordsAssumption ==
  \A r \in DhtRecords :
    /\ r.addresses \subseteq Addresses
    /\ r.peer_key \in Peers \cup {NoPeer}

ASSUME DiscoveryAssumption ==
  /\ authorities \in Seq(Range(authorities))
  /\ MaxQueries \in Nat \ {0}
  /\ MaxDiscoveryQueries \in Nat \ {0}
  /\ NoPeer \notin Peers
  /\ PeerIdOf \in [Addresses -> Peers \cup {NoPeer}]
  /\ DhtRecordsAssumption
  /\ MaxSubmitted \in Nat

VARIABLES
  phase,                  \* new, running (inside `discover'), done
  dht,                    \* the query bookkeeping, see Dht
  remaining_authorities,
  authority_to_details,   \* addresses per authority; {}: no entry
  peer_details,           \* addresses and first authority per peer; {}: no entry
  peer_info,              \* peers that were identified
  dialed_addresses,
  dial_outcomes           \* None, Success or Failed per address

results == <<remaining_authorities, authority_to_details, peer_details>>
dials   == <<dialed_addresses, dial_outcomes>>
vars    == <<phase, dht, results, peer_info, dials>>

(* `queries' maps the tracked query ids to their authority; Kademlia       *)
(* numbers queries from `next_id' on and works on the ids in `running'.    *)
(* queries_discovery is the number of tracked get_closest_peers queries,   *)
(* each of which Kademlia reports exactly once.                            *)
NoQueries == [id \in {} |-> id]

NewDht ==
  [queries |-> NoQueries, running |-> {}, next_id |-> 0, records_keys |-> {},
   query_index |-> 0, queries_discovery |-> 0]

InFlight(d) == Range(d.queries)
Slots(d)    == MaxQueries - Cardinality(DOMAIN d.queries)

Init ==
  /\ phase = "new"
  /\ dht = NewDht
  /\ remaining_authorities = Authority
  /\ authority_to_details = [a \in Authority |-> {}]
  /\ peer_details = [p \in Peers |-> [authority_id |-> {}, addresses |-> {}]]
  /\ peer_info = {}
  /\ dialed_addresses = {}
  /\ dial_outcomes = [x \in Addresses |-> "None"]

-----------------------------------------------------------------------------
(* The query bookkeeping.                                                  *)

(* One get_record per authority of the sequence `batch'.                   *)
query_dht_records(d, batch) ==
  LET ids == d.next_id .. d.next_id + Len(batch) - 1
  IN  [d EXCEPT !.records_keys = @ \cup Range(batch),
                !.queries = [id \in DOMAIN @ \cup ids |->
                               IF id \in ids THEN batch[id - d.next_id + 1] ELSE @[id]],
                !.running = @ \cup ids,
                !.next_id = @ + Len(batch)]

(* Fault: a full batch is submitted whatever is still running.             *)
query_peer_info_full(d) == [d EXCEPT !.queries_discovery = @ + MaxDiscoveryQueries]

query_peer_info(d) ==
  [d EXCEPT !.queries_discovery = IF @ < MaxDiscoveryQueries THEN MaxDiscoveryQueries ELSE @]

Smaller(m, n) == IF m < n THEN m ELSE n

(* iter().take(n) over a set: its first n members in some order.           *)
Taken(S, n) == Injection(1 .. Smaller(n, Cardinality(S)), S)

(* advance_dht_queries: first the authorities not asked for yet, ...       *)
FromList(d) ==
  LET n == Smaller(Slots(d), Len(authorities) - d.query_index)
  IN  [query_dht_records(d, SubSeq(authorities, d.query_index + 1, d.query_index + n))
         EXCEPT !.query_index = @ + n]

(* Fault: the backfill does not subtract the queries already there.        *)
BackfilledFully(d, remaining) ==
  IF d.query_index >= Len(authorities) /\ Slots(d) > 0
  THEN {query_dht_records(d, b) : b \in Taken(remaining \ InFlight(d), MaxQueries)}
  ELSE {d}

(* ... then, once the list is used up, those still without a record.       *)
Backfilled(d, remaining) ==
  IF d.query_index >= Len(authorities) /\ Slots(d) > 0
  THEN {query_dht_records(d, b) : b \in Taken(remaining \ InFlight(d), Slots(d))}
  ELSE {d}

advance_dht_queries(d, remaining) ==
  {query_peer_info(e) : e \in Backfilled(FromList(d), remaining)}

resubmit_remaining_dht_queries(d, remaining) ==
  {LET e == query_dht_records([d EXCEPT !.queries = NoQueries], b)
   IN  IF Cardinality(remaining) < MaxQueries THEN query_peer_info(e) ELSE e
   : b \in Taken(remaining, MaxQueries)}

(* decode_dht_record: signed by the authority, addresses of one peer, and  *)
(* signed by that peer.  Addresses without a peer id are skipped over.     *)
PeerIds(addresses) == {PeerIdOf[x] : x \in addresses} \ {NoPeer}

Decodes(r, authority) ==
  /\ r.signer = authority
  /\ r.addresses # {}
  /\ PeerIds(r.addresses) = {r.peer_key}

-----------------------------------------------------------------------------
(* The swarm reports something about get_record query `id'.  The slot is   *)
(* free from the first report on, although the query may go on.            *)
Room == dht.next_id < MaxSubmitted

Without(f, x) == [y \in DOMAIN f \ {x} |-> f[y]]

Freed(id) == [dht EXCEPT !.queries = Without(@, id)]

Advance(d) == dht' \in advance_dht_queries(d, remaining_authorities')

(* Fault: the early returns forget to advance.                             *)
RecordRejectedQuietly(id, r) ==
  /\ ~(r.key \in dht.records_keys /\ Decodes(r, r.key))
  /\ UNCHANGED <<results, dials>>
  /\ dht' = Freed(id)

(* The query found a record, but its key was never asked for or it does    *)
(* not decode.                                                             *)
RecordRejected(id, r) ==
  /\ ~(r.key \in dht.records_keys /\ Decodes(r, r.key))
  /\ UNCHANGED <<results, dials>>
  /\ Advance(Freed(id))

(* Fault: refused dials are not remembered as dialed.                      *)
DialAllForgetful(addresses) ==
  LET new == addresses \ dialed_addresses
  IN  \E refused \in SUBSET new :
        /\ dialed_addresses' = dialed_addresses \cup (new \ refused)
        /\ dial_outcomes' = [x \in Addresses |->
                               IF x \in refused THEN "Failed" ELSE dial_outcomes[x]]

(* Every address is dialed once; swarm.dial refuses some at once.          *)
DialAll(addresses) ==
  LET new == addresses \ dialed_addresses
  IN  /\ dialed_addresses' = dialed_addresses \cup new
      /\ \E refused \in SUBSET new :
           dial_outcomes' = [x \in Addresses |->
                               IF x \in refused THEN "Failed" ELSE dial_outcomes[x]]

(* The peer keeps the authority of its first record and gathers addresses. *)
PeerMerged(r) ==
  [peer_details EXCEPT ![r.peer_key] =
     [authority_id |-> IF @.addresses = {} THEN {r.key} ELSE @.authority_id,
      addresses    |-> @.addresses \cup r.addresses]]

StillRemaining(r) == remaining_authorities \ {r.key}

RecordAccepted(id, r) ==
  /\ r.key \in dht.records_keys /\ Decodes(r, r.key)
  /\ authority_to_details' =
       [authority_to_details EXCEPT ![r.key] = @ \cup r.addresses]
  /\ peer_details' = PeerMerged(r)
  /\ DialAll(r.addresses)
  /\ remaining_authorities' = StillRemaining(r)
  /\ Advance(Freed(id))

GetRecordFound(id) ==
  /\ phase = "running" /\ Room
  /\ id \in dht.running
  /\ \E r \in DhtRecords : RecordRejected(id, r) \/ RecordAccepted(id, r)
  /\ UNCHANGED <<phase, peer_info>>

(* The query is over: finished, not found or timed out.                    *)
GetRecordEnded(id) ==
  /\ phase = "running" /\ Room
  /\ id \in dht.running
  /\ UNCHANGED <<results, dials>>
  /\ Advance([Freed(id) EXCEPT !.running = @ \ {id}])
  /\ UNCHANGED <<phase, peer_info>>

GetClosestPeers ==
  /\ phase = "running"
  /\ dht.queries_discovery > 0
  /\ dht' = query_peer_info([dht EXCEPT !.queries_discovery = @ - 1])
  /\ UNCHANGED <<phase, results, peer_info, dials>>

Identified(p) ==
  /\ phase = "running"
  /\ peer_info' = peer_info \cup {p}
  /\ UNCHANGED <<phase, dht, results, dials>>

(* The outcome of a dial, of ours or of Kademlia's own, is recorded for    *)
(* the addresses we dialed.  The last report counts.                       *)
Recorded(addresses, outcome) ==
  dial_outcomes' = [x \in Addresses |->
                      IF x \in addresses \cap dialed_addresses THEN outcome
                      ELSE dial_outcomes[x]]

ConnectionEstablished(x) ==
  /\ phase = "running"
  /\ Recorded({x}, "Success")
  /\ UNCHANGED <<phase, dht, results, peer_info, dialed_addresses>>

OutgoingConnectionError(attempts) ==
  /\ phase = "running"
  /\ Recorded(attempts, "Failed")
  /\ UNCHANGED <<phase, dht, results, peer_info, dialed_addresses>>

(* discover: the first queries, then the loop with its two timers.         *)
Discover ==
  /\ phase = "new"
  /\ phase' = "running"
  /\ UNCHANGED <<results, peer_info, dials>>
  /\ Advance(dht)

ResubmitTick ==
  /\ phase = "running" /\ Room
  /\ dht' \in resubmit_remaining_dht_queries(dht, remaining_authorities)
  /\ UNCHANGED <<phase, results, peer_info, dials>>

ExitTick ==
  /\ phase = "running"
  /\ phase' = "done"
  /\ UNCHANGED <<dht, results, peer_info, dials>>

Next ==
  \/ Discover \/ ResubmitTick \/ ExitTick \/ GetClosestPeers
  \/ \E id \in dht.running : GetRecordFound(id) \/ GetRecordEnded(id)
  \/ \E p \in Peers : Identified(p)
  \/ \E x \in Addresses : ConnectionEstablished(x)
  \/ \E attempts \in SUBSET Addresses : OutgoingConnectionError(attempts)

Spec == Init /\ [][Next]_vars

-----------------------------------------------------------------------------
(* Every id was given out by Kademlia.                                     *)
Dht(d) ==
  [queries : [DOMAIN d.queries -> Authority], running : SUBSET (0 .. d.next_id - 1),
   next_id : Nat, records_keys : SUBSET Authority,
   query_index : 0 .. Len(authorities), queries_discovery : 0 .. MaxDiscoveryQueries]

TypeOK ==
  /\ phase \in {"new", "running", "done"}
  /\ dht \in Dht(dht)
  /\ remaining_authorities \subseteq Authority
  /\ authority_to_details \in [Authority -> SUBSET Addresses]
  /\ peer_details \in [Peers -> [authority_id : SUBSET Authority,
                                 addresses : SUBSET Addresses]]
  /\ peer_info \subseteq Peers
  /\ dialed_addresses \subseteq Addresses
  /\ dial_outcomes \in [Addresses -> {"None", "Success", "Failed"}]

(* The tracked queries are at most MAX_QUERIES, each is one that Kademlia  *)
(* still works on (so its slot will be freed by an event), and its key is  *)
(* known when its record arrives, even after a resubmission threw the      *)
(* older ids away.                                                         *)
SlotsSound ==
  /\ Cardinality(DOMAIN dht.queries) <= MaxQueries
  /\ DOMAIN dht.queries \subseteq dht.running
  /\ InFlight(dht) \subseteq dht.records_keys

(* `Always advance queries ... otherwise ... the discovery stalls until    *)
(* the resubmit timer fires': between two events either every slot is      *)
(* taken or every authority without a record has a tracked query.          *)
NoStall ==
  phase = "running" =>
    \/ Cardinality(DOMAIN dht.queries) = MaxQueries
    \/ remaining_authorities \subseteq InFlight(dht)

(* An authority is queried for again exactly as long as nothing is known   *)
(* of it.                                                                  *)
RemainingExact ==
  remaining_authorities = {a \in Authority : authority_to_details[a] = {}}

(* The report covers what was found: every published address was dialed,   *)
(* outcomes exist for dialed addresses only, and the addresses by peer are *)
(* the addresses by authority.                                             *)
Found == UNION Range(authority_to_details)

DialsExact ==
  /\ dialed_addresses = Found
  /\ \A x \in Addresses : dial_outcomes[x] # "None" => x \in dialed_addresses

PeersExact == UNION {peer_details[p].addresses : p \in Peers} = Found

(* The four views of what was found never drift apart, although a record   *)
(* may come several times, from forgotten queries and for known            *)
(* authorities, and every dial may be refused.                             *)
ViewsExact == RemainingExact /\ DialsExact /\ PeersExact

(* What the proofs carry along: all of the above.                          *)
IInv ==
  TypeOK /\ SlotsSound /\ NoStall /\ RemainingExact /\ DialsExact /\ PeersExact

(* `All must have valid peerIDs': what the report of discover_authorities  *)
(* expects of every address it was handed.                                 *)
AddressesNamePeer == \A x \in Found : PeerIdOf[x] # NoPeer
=============================================================================
