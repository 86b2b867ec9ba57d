------------------------ MODULE AuthorityCheckProofs ------------------------
(***************************************************************************)
(* Proofs about AuthorityDiscovery and AuthorityCheck for any list of      *)
(* authorities, any records, any MAX_QUERIES and batch size and any        *)
(* results of the connections.  The discovery comes first: the check is    *)
(* the discovery followed by the batches and the report.                   *)
(***************************************************************************)
EXTENDS AuthorityCheck, FiniteSetTheorems, TLAPS

(* The bookkeeping part of the invariant, about one value of dht.          *)
Sound(d) ==
  /\ d \in Dht(d)
  /\ Cardinality(DOMAIN d.queries) <= MaxQueries
  /\ DOMAIN d.queries \subseteq d.running
  /\ InFlight(d) \subseteq d.records_keys

Served(d, m) ==
  \/ Cardinality(DOMAIN d.queries) = MaxQueries
  \/ m \subseteq InFlight(d)

(* The authorities of a Vec are finitely many.                             *)
LEMMA AuthorityFinite == IsFiniteSet(Authority)
  <1>1. Len(authorities) \in Nat /\ authorities \in [1 .. Len(authorities) -> Authority]
    BY DiscoveryAssumption DEF Authority
  <1>2. authorities \in Surjection(1 .. Len(authorities), Authority)
    BY <1>1 DEF Surjection, Authority, Range
  <1> QED BY <1>1, <1>2, FS_Interval, FS_Surjection

(* A batch of l consecutive query ids has l members.                       *)
LEMMA IntervalSize ==
  ASSUME NEW a \in Nat, NEW l \in Nat
  PROVE  IsFiniteSet(a .. a + l - 1) /\ Cardinality(a .. a + l - 1) = l
  <1> DEFINE b == a + l - 1
  <1>1. a \in Int /\ b \in Int
    OBVIOUS
  <1>2. b - a + 1 = l /\ (a > b <=> l = 0)
    OBVIOUS
  <1> HIDE DEF b
  <1>3. IsFiniteSet(a .. b) /\ Cardinality(a .. b) = IF a > b THEN 0 ELSE b - a + 1
    BY <1>1, FS_Interval
  <1>4. IsFiniteSet(a .. b) /\ Cardinality(a .. b) = l
    BY <1>2, <1>3
  <1> QED BY <1>4 DEF b

(* The tracked queries are finitely many, so MAX_QUERIES minus their       *)
(* number does not underflow.                                              *)
LEMMA QueriesFinite ==
  ASSUME NEW d, Sound(d)
  PROVE  /\ IsFiniteSet(DOMAIN d.queries)
         /\ Cardinality(DOMAIN d.queries) \in Nat
         /\ Slots(d) \in Nat /\ Slots(d) <= MaxQueries
  <1>1. d.next_id \in Nat /\ DOMAIN d.queries \subseteq 0 .. d.next_id - 1
    BY DEF Sound, Dht
  <1>2. IsFiniteSet(DOMAIN d.queries)
    <2>1. 0 \in Int /\ d.next_id - 1 \in Int
      BY <1>1
    <2>2. IsFiniteSet(0 .. d.next_id - 1)
      BY <2>1, FS_Interval
    <2> QED BY <1>1, <2>2, FS_Subset
  <1>3. Cardinality(DOMAIN d.queries) \in Nat
    BY <1>2, FS_CardinalityType
  <1> QED BY <1>2, <1>3, DiscoveryAssumption DEF Sound, Slots

(* The first n members of a finite set are all of it when n is enough.     *)
LEMMA TakenEffect ==
  ASSUME NEW S, IsFiniteSet(S), NEW n \in Nat, NEW b \in Taken(S, n)
  PROVE  /\ Cardinality(S) \in Nat
         /\ b \in Seq(S) /\ Len(b) = Smaller(n, Cardinality(S))
         /\ Range(b) \subseteq S
         /\ Cardinality(S) <= n => Range(b) = S
  <1> DEFINE k == Smaller(n, Cardinality(S))
  <1>1. Cardinality(S) \in Nat /\ k \in Nat
    BY FS_CardinalityType DEF Smaller
  <1>2. b \in Injection(1 .. k, S) /\ b \in [1 .. k -> S]
    BY DEF Taken, Injection
  <1>3. b \in Seq(S) /\ Len(b) = k
    BY <1>1, <1>2
  <1>4. Range(b) \subseteq S
    BY <1>2 DEF Range
  <1>5. ASSUME Cardinality(S) <= n PROVE Range(b) = S
    <2>1. k = Cardinality(S)
      BY <1>1, <1>5 DEF Smaller
    <2>2. Cardinality(1 .. k) = Cardinality(S)
      BY <1>1, <2>1, FS_Interval
    <2>3. b \in Surjection(1 .. k, S)
      BY <1>2, <2>2, FS_Injection
    <2> QED BY <1>2, <1>4, <2>3 DEF Surjection, Range
  <1> QED BY <1>1, <1>3, <1>4, <1>5

(* query_dht_records with a batch that fits into the free slots.           *)
LEMMA QueryEffect ==
  ASSUME NEW d, Sound(d), NEW batch \in Seq(Authority), Len(batch) <= Slots(d),
         NEW e, e = query_dht_records(d, batch)
  PROVE  /\ Sound(e)
         /\ Cardinality(DOMAIN e.queries) = Cardinality(DOMAIN d.queries) + Len(batch)
         /\ InFlight(e) = InFlight(d) \cup Range(batch)
         /\ e.query_index = d.query_index
  <1> DEFINE n == d.next_id
             ids == n .. n + Len(batch) - 1
             q == [id \in DOMAIN d.queries \cup ids |->
                     IF id \in ids THEN batch[id - n + 1] ELSE d.queries[id]]
  <1>1. /\ n \in Nat /\ d.running \subseteq 0 .. n - 1
        /\ DOMAIN d.queries \subseteq d.running
        /\ d.queries \in [DOMAIN d.queries -> Authority]
        /\ d.records_keys \subseteq Authority
        /\ d.query_index \in 0 .. Len(authorities)
        /\ d.queries_discovery \in 0 .. MaxDiscoveryQueries
        /\ Len(batch) \in Nat /\ DOMAIN batch = 1 .. Len(batch)
        /\ InFlight(d) \subseteq d.records_keys
    BY DEF Sound, Dht
  <1>2. /\ e.queries = q /\ e.running = d.running \cup ids
        /\ e.next_id = n + Len(batch)
        /\ e.records_keys = d.records_keys \cup Range(batch)
        /\ e.query_index = d.query_index
        /\ e.queries_discovery = d.queries_discovery
        /\ e = [queries |-> e.queries, running |-> e.running, next_id |-> e.next_id,
                records_keys |-> e.records_keys, query_index |-> e.query_index,
                queries_discovery |-> e.queries_discovery]
    BY DEF query_dht_records, Sound, Dht
  <1>3. \A id \in ids : id - n + 1 \in 1 .. Len(batch) /\ batch[id - n + 1] \in Authority
    BY <1>1
  <1>4. q \in [DOMAIN d.queries \cup ids -> Authority] /\ DOMAIN q = DOMAIN d.queries \cup ids
    BY <1>1, <1>3
  <1>5. ids \cap DOMAIN d.queries = {}
    BY <1>1
  <1>6. IsFiniteSet(ids) /\ Cardinality(ids) = Len(batch)
    BY <1>1, IntervalSize
  <1>7. Cardinality(DOMAIN q) = Cardinality(DOMAIN d.queries) + Len(batch)
    <2>1. IsFiniteSet(DOMAIN d.queries) /\ Cardinality(DOMAIN d.queries) \in Nat
      BY QueriesFinite
    <2>2. Cardinality(DOMAIN d.queries \cup ids)
            = Cardinality(DOMAIN d.queries) + Cardinality(ids)
                - Cardinality(DOMAIN d.queries \cap ids)
      BY <1>6, <2>1, FS_Union
    <2>3. DOMAIN d.queries \cap ids = {}
      BY <1>5
    <2>4. Cardinality(DOMAIN d.queries \cap ids) = 0
      BY <2>3, FS_EmptySet
    <2> QED BY <1>1, <1>4, <1>6, <2>1, <2>2, <2>4
  <1>8. Range(q) = Range(d.queries) \cup Range(batch)
    <2>1. ASSUME NEW id \in DOMAIN q PROVE q[id] \in Range(d.queries) \cup Range(batch)
      BY <1>1, <1>3, <1>4 DEF Range
    <2>2. ASSUME NEW id \in DOMAIN d.queries PROVE d.queries[id] \in Range(q)
      <3>1. id \in DOMAIN q /\ q[id] = d.queries[id]
        BY <1>4, <1>5
      <3> QED BY <3>1 DEF Range
    <2>3. ASSUME NEW k \in DOMAIN batch PROVE batch[k] \in Range(q)
      <3> DEFINE j == n + k - 1
      <3>1. k \in 1 .. Len(batch) /\ Len(batch) \in Nat /\ n \in Nat
        BY <1>1
      <3>2. j \in ids /\ j - n + 1 = k
        BY <3>1
      <3> HIDE DEF j
      <3>3. j \in DOMAIN q /\ q[j] = batch[k]
        BY <1>4, <3>2
      <3> QED BY <3>3 DEF Range
    <2> HIDE DEF q
    <2>4. Range(q) \subseteq Range(d.queries) \cup Range(batch)
      BY <2>1 DEF Range
    <2>5. Range(d.queries) \subseteq Range(q)
      BY <2>2 DEF Range
    <2>6. Range(batch) \subseteq Range(q)
      BY <2>3 DEF Range
    <2> QED BY <2>4, <2>5, <2>6
  <1>9. Range(batch) \subseteq Authority
    BY <1>1 DEF Range
  <1> HIDE DEF q
  <1>10. e \in Dht(e)
    <2>1. e.queries \in [DOMAIN e.queries -> Authority]
      BY <1>2, <1>4
    <2>2. e.running \in SUBSET (0 .. e.next_id - 1) /\ e.next_id \in Nat
      BY <1>1, <1>2
    <2>3. e.records_keys \in SUBSET Authority
      BY <1>1, <1>2, <1>9
    <2> QED BY <1>1, <1>2, <2>1, <2>2, <2>3 DEF Dht
  <1>11. DOMAIN e.queries \subseteq e.running
    BY <1>1, <1>2, <1>4
  <1>12. InFlight(e) = InFlight(d) \cup Range(batch)
    BY <1>2, <1>8 DEF InFlight
  <1>13. InFlight(e) \subseteq e.records_keys
    BY <1>1, <1>2, <1>12
  <1>14. Cardinality(DOMAIN e.queries) <= MaxQueries
    BY <1>1, <1>2, <1>7, QueriesFinite, DiscoveryAssumption DEF Slots
  <1> QED BY <1>2, <1>7, <1>10, <1>11, <1>12, <1>13, <1>14 DEF Sound

(* advance_dht_queries, first loop: the slots are full or the list is used *)
(* up.                                                                     *)
LEMMA FromListEffect ==
  ASSUME NEW d, Sound(d), NEW e, e = FromList(d)
  PROVE  /\ Sound(e)
         /\ Slots(e) = 0 \/ e.query_index >= Len(authorities)
  <1> DEFINE x == d.query_index
             n == Smaller(Slots(d), Len(authorities) - x)
             batch == SubSeq(authorities, x + 1, x + n)
             f == query_dht_records(d, batch)
  <1>1. /\ Slots(d) \in Nat /\ Cardinality(DOMAIN d.queries) \in Nat
        /\ MaxQueries \in Nat /\ Slots(d) = MaxQueries - Cardinality(DOMAIN d.queries)
    BY QueriesFinite, DiscoveryAssumption DEF Slots
  <1>2. x \in 0 .. Len(authorities) /\ Len(authorities) \in Nat
    BY DiscoveryAssumption DEF Sound, Dht
  <1>3. n \in Nat /\ n <= Slots(d) /\ n <= Len(authorities) - x
        /\ (n = Slots(d) \/ n = Len(authorities) - x)
    BY <1>1, <1>2 DEF Smaller
  <1>4. batch \in Seq(Authority) /\ Len(batch) = n
    <2>1. authorities \in Seq(Authority)
      BY DiscoveryAssumption DEF Authority
    <2> HIDE DEF n
    <2> QED BY <1>2, <1>3, <2>1
  <1> HIDE DEF batch, n
  <1>5. /\ Sound(f) /\ f.query_index = x
        /\ Cardinality(DOMAIN f.queries) = Cardinality(DOMAIN d.queries) + n
    BY <1>3, <1>4, QueryEffect
  <1>6. e = [f EXCEPT !.query_index = @ + n]
    BY DEF FromList, batch, n
  <1> HIDE DEF f
  <1>7. /\ e.queries = f.queries /\ e.running = f.running /\ e.records_keys = f.records_keys
        /\ e.next_id = f.next_id /\ e.queries_discovery = f.queries_discovery
        /\ e.query_index = x + n
        /\ e = [queries |-> e.queries, running |-> e.running, next_id |-> e.next_id,
                records_keys |-> e.records_keys, query_index |-> e.query_index,
                queries_discovery |-> e.queries_discovery]
    BY <1>5, <1>6 DEF Sound, Dht
  <1>8. e.query_index \in 0 .. Len(authorities)
    BY <1>2, <1>3, <1>7
  <1>9. Sound(e)
    BY <1>5, <1>7, <1>8 DEF Sound, Dht, InFlight
  <1>10. n = Slots(d) => Slots(e) = 0
    BY <1>1, <1>3, <1>5, <1>7 DEF Slots
  <1>11. n = Len(authorities) - x => e.query_index >= Len(authorities)
    BY <1>2, <1>3, <1>7
  <1> QED BY <1>3, <1>9, <1>10, <1>11

(* query_peer_info leaves the get-record bookkeeping alone.                *)
LEMMA PeerInfoEffect ==
  ASSUME NEW d, Sound(d), NEW m
  PROVE  Sound(query_peer_info(d)) /\ (Served(d, m) => Served(query_peer_info(d), m))
  <1> DEFINE e == query_peer_info(d)
  <1>1. /\ e.queries = d.queries /\ e.running = d.running /\ e.records_keys = d.records_keys
        /\ e.next_id = d.next_id /\ e.query_index = d.query_index
        /\ e.queries_discovery \in 0 .. MaxDiscoveryQueries
        /\ e = [queries |-> e.queries, running |-> e.running, next_id |-> e.next_id,
                records_keys |-> e.records_keys, query_index |-> e.query_index,
                queries_discovery |-> e.queries_discovery]
    BY DiscoveryAssumption DEF query_peer_info, Sound, Dht
  <1> HIDE DEF e
  <1>2. Sound(e) /\ (Served(d, m) => Served(e, m))
    BY <1>1 DEF Sound, Served, Dht, InFlight
  <1> QED BY <1>2 DEF e

(* advance_dht_queries leaves no authority unserved while a slot is free.  *)
LEMMA AdvanceEffect ==
  ASSUME NEW d, Sound(d), NEW m \in SUBSET Authority, NEW e \in advance_dht_queries(d, m)
  PROVE  Sound(e) /\ Served(e, m)
  <1> DEFINE f == FromList(d)
  <1>1. Sound(f) /\ (Slots(f) = 0 \/ f.query_index >= Len(authorities))
    BY FromListEffect
  <1>2. PICK g \in Backfilled(f, m) : e = query_peer_info(g)
    BY DEF advance_dht_queries
  <1> HIDE DEF f
  <1>3. /\ Slots(f) \in Nat /\ Cardinality(DOMAIN f.queries) \in Nat
        /\ MaxQueries \in Nat /\ Slots(f) = MaxQueries - Cardinality(DOMAIN f.queries)
    BY <1>1, QueriesFinite, DiscoveryAssumption DEF Slots
  <1>4. CASE ~(f.query_index >= Len(authorities) /\ Slots(f) > 0)
    <2>1. g = f /\ Slots(f) = 0
      BY <1>1, <1>2, <1>3, <1>4 DEF Backfilled
    <2>2. Served(g, m)
      BY <1>3, <2>1 DEF Served
    <2> QED BY <1>1, <1>2, <2>1, <2>2, PeerInfoEffect
  <1>5. CASE f.query_index >= Len(authorities) /\ Slots(f) > 0
    <2> DEFINE need == m \ InFlight(f)
    <2>1. PICK b \in Taken(need, Slots(f)) : g = query_dht_records(f, b)
      BY <1>2, <1>5 DEF Backfilled
    <2>2. IsFiniteSet(need)
      BY AuthorityFinite, FS_Subset
    <2> HIDE DEF need
    <2>3. /\ Cardinality(need) \in Nat
          /\ b \in Seq(need) /\ Len(b) = Smaller(Slots(f), Cardinality(need))
          /\ Cardinality(need) <= Slots(f) => Range(b) = need
      BY <1>3, <2>1, <2>2, TakenEffect
    <2>4. b \in Seq(Authority)
      BY <2>3 DEF need
    <2>5. Len(b) <= Slots(f) /\ (Cardinality(need) <= Slots(f) \/ Len(b) = Slots(f))
      BY <1>3, <2>3 DEF Smaller
    <2>6. /\ Sound(g) /\ InFlight(g) = InFlight(f) \cup Range(b)
          /\ Cardinality(DOMAIN g.queries) = Cardinality(DOMAIN f.queries) + Len(b)
      BY <1>1, <2>1, <2>4, <2>5, QueryEffect
    <2>7. CASE Len(b) = Slots(f)
      <3>1. Cardinality(DOMAIN g.queries) = MaxQueries
        BY <1>3, <2>6, <2>7
      <3>2. Served(g, m)
        BY <3>1 DEF Served
      <3> QED BY <1>2, <2>6, <3>2, PeerInfoEffect
    <2>8. CASE Cardinality(need) <= Slots(f)
      <3>1. m \subseteq InFlight(g)
        BY <2>3, <2>6, <2>8 DEF need
      <3>2. Served(g, m)
        BY <3>1 DEF Served
      <3> QED BY <1>2, <2>6, <3>2, PeerInfoEffect
    <2> QED BY <2>5, <2>7, <2>8
  <1> QED BY <1>4, <1>5

(* So does resubmit_remaining_dht_queries.                                 *)
LEMMA ResubmitEffect ==
  ASSUME NEW d, Sound(d), NEW m \in SUBSET Authority,
         NEW e \in resubmit_remaining_dht_queries(d, m)
  PROVE  Sound(e) /\ Served(e, m)
  <1> DEFINE c == [d EXCEPT !.queries = NoQueries]
  <1>1. /\ MaxQueries \in Nat /\ DOMAIN NoQueries = {} /\ Range(NoQueries) = {}
        /\ NoQueries \in [{} -> Authority]
    BY DiscoveryAssumption DEF NoQueries, Range
  <1>2. /\ c.queries = NoQueries /\ c.running = d.running /\ c.records_keys = d.records_keys
        /\ c.next_id = d.next_id /\ c.query_index = d.query_index
        /\ c.queries_discovery = d.queries_discovery
        /\ c = [queries |-> c.queries, running |-> c.running, next_id |-> c.next_id,
                records_keys |-> c.records_keys, query_index |-> c.query_index,
                queries_discovery |-> c.queries_discovery]
    BY DEF Sound, Dht
  <1>3. PICK b \in Taken(m, MaxQueries) :
          LET g == query_dht_records(c, b)
          IN  e = g \/ e = query_peer_info(g)
    BY DEF resubmit_remaining_dht_queries
  <1> HIDE DEF c
  <1>4. Cardinality(DOMAIN c.queries) = 0
    BY <1>1, <1>2, FS_EmptySet
  <1>5. Sound(c) /\ Slots(c) = MaxQueries
    <2>1. InFlight(c) = {}
      BY <1>1, <1>2 DEF InFlight
    <2>2. c \in Dht(c)
      BY <1>1, <1>2 DEF Sound, Dht
    <2>3. DOMAIN c.queries \subseteq c.running
      BY <1>1, <1>2
    <2> QED BY <1>1, <1>4, <2>1, <2>2, <2>3 DEF Sound, Slots
  <1>6. IsFiniteSet(m)
    BY AuthorityFinite, FS_Subset
  <1>7. /\ Cardinality(m) \in Nat /\ b \in Seq(m) /\ Len(b) = Smaller(MaxQueries, Cardinality(m))
        /\ Cardinality(m) <= MaxQueries => Range(b) = m
    BY <1>1, <1>3, <1>6, TakenEffect
  <1>8. b \in Seq(Authority)
    BY <1>7
  <1>9. Len(b) <= MaxQueries /\ (Cardinality(m) <= MaxQueries \/ Len(b) = MaxQueries)
    BY <1>1, <1>7 DEF Smaller
  <1> DEFINE g == query_dht_records(c, b)
  <1>10. /\ Sound(g) /\ InFlight(g) = InFlight(c) \cup Range(b)
         /\ Cardinality(DOMAIN g.queries) = Cardinality(DOMAIN c.queries) + Len(b)
    BY <1>5, <1>8, <1>9, QueryEffect
  <1>11. e = g \/ e = query_peer_info(g)
    BY <1>3
  <1> HIDE DEF g
  <1>12. Served(g, m)
    <2>1. CASE Len(b) = MaxQueries
      BY <1>1, <1>4, <1>10, <2>1 DEF Served
    <2>2. CASE Cardinality(m) <= MaxQueries
      BY <1>7, <1>10, <2>2 DEF Served
    <2> QED BY <1>9, <2>1, <2>2
  <1> QED BY <1>10, <1>11, <1>12, PeerInfoEffect

(* Forgetting a query id, whether or not Kademlia is done with it.         *)
LEMMA FreedEffect ==
  ASSUME NEW d, Sound(d), NEW id, NEW r \in {d.running, d.running \ {id}},
         NEW e, e = [d EXCEPT !.queries = Without(@, id), !.running = r]
  PROVE  Sound(e)
  <1> DEFINE q == Without(d.queries, id)
  <1>1. /\ d.queries \in [DOMAIN d.queries -> Authority]
        /\ DOMAIN d.queries \subseteq d.running /\ InFlight(d) \subseteq d.records_keys
        /\ d.running \subseteq 0 .. d.next_id - 1
    BY DEF Sound, Dht
  <1>2. DOMAIN q = DOMAIN d.queries \ {id} /\ \A y \in DOMAIN q : q[y] = d.queries[y]
    BY DEF Without
  <1>3. q \in [DOMAIN q -> Authority]
    BY <1>1 DEF Without
  <1>4. Range(q) \subseteq Range(d.queries)
    BY <1>2 DEF Range
  <1>5. IsFiniteSet(DOMAIN d.queries) /\ Cardinality(DOMAIN d.queries) \in Nat
    BY QueriesFinite
  <1> HIDE DEF q
  <1>6. Cardinality(DOMAIN q) <= MaxQueries
    <2>1. Cardinality(DOMAIN q) <= Cardinality(DOMAIN d.queries) /\ IsFiniteSet(DOMAIN q)
      BY <1>2, <1>5, FS_Subset
    <2>2. Cardinality(DOMAIN q) \in Nat
      BY <2>1, FS_CardinalityType
    <2> QED BY <1>5, <2>1, <2>2, DiscoveryAssumption DEF Sound
  <1>7. /\ e.queries = q /\ e.running = r /\ e.records_keys = d.records_keys
        /\ e.next_id = d.next_id /\ e.query_index = d.query_index
        /\ e.queries_discovery = d.queries_discovery
        /\ e = [queries |-> e.queries, running |-> e.running, next_id |-> e.next_id,
                records_keys |-> e.records_keys, query_index |-> e.query_index,
                queries_discovery |-> e.queries_discovery]
    BY DEF Sound, Dht, q
  <1>8. DOMAIN e.queries \subseteq e.running /\ e.running \in SUBSET (0 .. e.next_id - 1)
    BY <1>1, <1>2, <1>7
  <1>9. InFlight(e) \subseteq e.records_keys
    BY <1>1, <1>4, <1>7 DEF InFlight
  <1>10. e \in Dht(e)
    BY <1>3, <1>7, <1>8 DEF Sound, Dht
  <1> QED BY <1>6, <1>7, <1>8, <1>9, <1>10 DEF Sound
-----------------------------------------------------------------------------
(* The addresses found, after those of one record were added.              *)
LEMMA FoundEffect ==
  ASSUME NEW S, NEW f \in [S -> SUBSET Addresses], NEW g \in [S -> SUBSET Addresses],
         NEW k \in S, NEW X, g[k] = f[k] \cup X,
         \A j \in S : j # k => g[j] = f[j]
  PROVE  \A x : (\E j \in S : x \in g[j]) <=> (\E j \in S : x \in f[j]) \/ x \in X
  OBVIOUS

(* A record that passes decode_dht_record under a key that was asked for   *)
(* belongs to an authority and names a peer and an address.                *)
LEMMA AcceptedKey ==
  ASSUME TypeOK, NEW r \in DhtRecords, r.key \in dht.records_keys, Decodes(r, r.key)
  PROVE  /\ r.key \in Authority /\ r.peer_key \in Peers
         /\ r.addresses \in SUBSET Addresses /\ r.addresses # {}
  <1>1. r.addresses \in SUBSET Addresses /\ r.peer_key \in Peers \cup {NoPeer}
    BY DiscoveryAssumption DEF DhtRecordsAssumption
  <1>2. r.addresses # {} /\ r.peer_key # NoPeer
    BY DEF Decodes, PeerIds
  <1>3. r.key \in Authority
    BY DEF TypeOK, Dht
  <1> QED BY <1>1, <1>2, <1>3

(* A record that is accepted updates every view of it.                     *)
LEMMA AcceptedEffect ==
  ASSUME IInv, NEW id, NEW r \in DhtRecords, RecordAccepted(id, r)
  PROVE  /\ remaining_authorities' \in SUBSET Authority
         /\ authority_to_details' \in [Authority -> SUBSET Addresses]
         /\ peer_details' \in [Peers -> [authority_id : SUBSET Authority,
                                          addresses : SUBSET Addresses]]
         /\ dialed_addresses' \in SUBSET Addresses
         /\ dial_outcomes' \in [Addresses -> {"None", "Success", "Failed"}]
         /\ RemainingExact' /\ DialsExact' /\ PeersExact'
  <1> DEFINE k == r.key
             p == r.peer_key
             X == r.addresses
  <1>1. k \in Authority /\ p \in Peers /\ X \in SUBSET Addresses /\ X # {}
    BY AcceptedKey DEF IInv, RecordAccepted
  <1>2. /\ remaining_authorities \in SUBSET Authority
        /\ authority_to_details \in [Authority -> SUBSET Addresses]
        /\ peer_details \in [Peers -> [authority_id : SUBSET Authority,
                                        addresses : SUBSET Addresses]]
        /\ dialed_addresses \in SUBSET Addresses
        /\ dial_outcomes \in [Addresses -> {"None", "Success", "Failed"}]
    BY DEF IInv, TypeOK
  <1>3. /\ authority_to_details' = [authority_to_details EXCEPT ![k] = @ \cup X]
        /\ peer_details' = [peer_details EXCEPT ![p] =
              [authority_id |-> IF @.addresses = {} THEN {k} ELSE @.authority_id,
               addresses    |-> @.addresses \cup X]]
        /\ remaining_authorities' = remaining_authorities \ {k}
        /\ DialAll(X)
    BY DEF RecordAccepted, PeerMerged, StillRemaining
  <1> HIDE DEF k, p, X
  <1>4. /\ dialed_addresses' = dialed_addresses \cup X
        /\ dial_outcomes' \in [Addresses -> {"None", "Success", "Failed"}]
        /\ \A x \in Addresses : dial_outcomes'[x] # "None" =>
              dial_outcomes[x] # "None" \/ x \in X
    <2>1. PICK refused \in SUBSET (X \ dialed_addresses) :
            dial_outcomes' = [x \in Addresses |->
                                IF x \in refused THEN "Failed" ELSE dial_outcomes[x]]
      BY <1>3 DEF DialAll
    <2>2. dialed_addresses' = dialed_addresses \cup X
      BY <1>3 DEF DialAll
    <2> QED BY <1>1, <1>2, <2>1, <2>2
  <1>5. authority_to_details' \in [Authority -> SUBSET Addresses]
        /\ remaining_authorities' \in SUBSET Authority
    BY <1>1, <1>2, <1>3
  <1>6. peer_details' \in [Peers -> [authority_id : SUBSET Authority,
                                     addresses : SUBSET Addresses]]
    <2>1. peer_details[p] \in [authority_id : SUBSET Authority, addresses : SUBSET Addresses]
      BY <1>1, <1>2
    <2>2. [authority_id |-> IF peer_details[p].addresses = {} THEN {k}
                            ELSE peer_details[p].authority_id,
           addresses |-> peer_details[p].addresses \cup X]
            \in [authority_id : SUBSET Authority, addresses : SUBSET Addresses]
      BY <1>1, <2>1
    <2> QED BY <1>1, <1>2, <1>3, <2>2
  <1>7. Found' = Found \cup X
    <2> DEFINE g == authority_to_details'
    <2>1. g = [authority_to_details EXCEPT ![k] = @ \cup X]
      BY <1>3
    <2> HIDE DEF g
    <2>2. UNION Range(g) = (UNION Range(authority_to_details)) \cup X
      <3> DEFINE f == authority_to_details
      <3>1. /\ f \in [Authority -> SUBSET Addresses] /\ g \in [Authority -> SUBSET Addresses]
            /\ g[k] = f[k] \cup X /\ \A j \in Authority : j # k => g[j] = f[j]
        BY <1>1, <1>2, <2>1
      <3> HIDE DEF f
      <3>2. \A x : (\E j \in Authority : x \in g[j])
                     <=> (\E j \in Authority : x \in f[j]) \/ x \in X
        BY <1>1, <3>1, FoundEffect
      <3>3. DOMAIN f = Authority /\ DOMAIN g = Authority
        BY <3>1
      <3>4. \A x : /\ x \in UNION Range(g) <=> \E j \in Authority : x \in g[j]
                   /\ x \in UNION Range(f) <=> \E j \in Authority : x \in f[j]
        BY <3>3 DEF Range
      <3> QED BY <3>2, <3>4 DEF f
    <2> QED BY <2>2 DEF Found, g
  <1>8. RemainingExact'
    <2>1. \A a \in Authority : authority_to_details'[a] = {} <=>
                                a # k /\ authority_to_details[a] = {}
      BY <1>1, <1>2, <1>3
    <2>2. remaining_authorities = {a \in Authority : authority_to_details[a] = {}}
      BY DEF IInv, RemainingExact
    <2> QED BY <1>3, <2>1, <2>2 DEF RemainingExact
  <1>9. DialsExact'
    BY <1>4, <1>7 DEF IInv, DialsExact
  <1>10. PeersExact'
    <2>1. /\ \A q \in Peers : q # p => peer_details'[q] = peer_details[q]
          /\ peer_details'[p].addresses = peer_details[p].addresses \cup X
      BY <1>1, <1>2, <1>3
    <2>2. UNION {peer_details'[q].addresses : q \in Peers}
            = (UNION {peer_details[q].addresses : q \in Peers}) \cup X
      BY <1>1, <2>1
    <2> QED BY <1>7, <2>2 DEF IInv, PeersExact
  <1> QED BY <1>4, <1>2, <1>1, <1>5, <1>6, <1>8, <1>9, <1>10

(* The bookkeeping part of the invariant.                                  *)
LEMMA DhtSound == IInv <=> /\ Sound(dht) /\ NoStall
                           /\ phase \in {"new", "running", "done"}
                           /\ remaining_authorities \subseteq Authority
                           /\ authority_to_details \in [Authority -> SUBSET Addresses]
                           /\ peer_details \in [Peers -> [authority_id : SUBSET Authority,
                                                          addresses : SUBSET Addresses]]
                           /\ peer_info \subseteq Peers
                           /\ dialed_addresses \subseteq Addresses
                           /\ dial_outcomes \in [Addresses -> {"None", "Success", "Failed"}]
                           /\ RemainingExact /\ DialsExact /\ PeersExact
  BY Zenon DEF IInv, TypeOK, SlotsSound, Sound

(* The state built by AuthorityDiscovery::new satisfies the invariant.     *)
LEMMA InitGood == Init => IInv
  <1> SUFFICES ASSUME Init PROVE IInv
    OBVIOUS
  <1>1. /\ MaxQueries \in Nat /\ DOMAIN NoQueries = {} /\ Range(NoQueries) = {}
        /\ NoQueries \in [{} -> Authority] /\ Len(authorities) \in Nat
        /\ MaxDiscoveryQueries \in Nat
    BY DiscoveryAssumption DEF NoQueries, Range
  <1>2. Sound(dht)
    <2>1. /\ dht.queries = NoQueries /\ dht.running = {} /\ dht.records_keys = {}
      BY DEF Init, NewDht
    <2>2. dht \in Dht(dht)
      BY <1>1 DEF Init, NewDht, Dht
    <2>3. Cardinality(DOMAIN dht.queries) = 0
      BY <1>1, <2>1, FS_EmptySet
    <2> QED BY <1>1, <2>1, <2>2, <2>3 DEF Sound, InFlight
  <1>3. Found = {}
    BY DEF Init, Found, Range
  <1>4. NoStall
    BY DEF Init, NoStall
  <1>5. RemainingExact
    BY DEF Init, RemainingExact
  <1>6. DialsExact
    BY <1>3 DEF Init, DialsExact
  <1>7. PeersExact
    BY <1>3 DEF Init, PeersExact
  <1>8. peer_details \in [Peers -> [authority_id : SUBSET Authority,
                                    addresses : SUBSET Addresses]]
    BY DEF Init
  <1> QED BY <1>2, <1>4, <1>5, <1>6, <1>7, <1>8, DhtSound DEF Init

(* What follows when only the query bookkeeping moves.                     *)
LEMMA OnlyQueries ==
  ASSUME IInv, UNCHANGED <<results, peer_info, dials>>,
         phase' \in {"new", "running", "done"}, Sound(dht)', NoStall'
  PROVE  IInv'
  <1>1. /\ RemainingExact' /\ DialsExact' /\ PeersExact'
    BY DhtSound DEF results, dials, RemainingExact, DialsExact, PeersExact, Found
  <1> QED BY <1>1, DhtSound DEF results, dials, IInv, TypeOK, SlotsSound, Sound

(* Every swarm event and every timer tick preserves the invariant.         *)
LEMMA NextGood == IInv /\ [Next]_vars => IInv'
  <1> SUFFICES ASSUME IInv, [Next]_vars PROVE IInv'
    OBVIOUS
  <1>1. Sound(dht) /\ remaining_authorities \in SUBSET Authority
    BY DhtSound
  <1>2. ASSUME Discover PROVE IInv'
    <2>1. dht' \in advance_dht_queries(dht, remaining_authorities)
      BY <1>2 DEF Discover, Advance, results
    <2>2. Sound(dht)' /\ Served(dht', remaining_authorities)
      BY <1>1, <2>1, AdvanceEffect DEF Sound, Dht, InFlight
    <2>3. NoStall'
      BY <1>2, <2>2 DEF NoStall, Served, Discover, results, InFlight
    <2> QED BY <1>2, <2>2, <2>3, OnlyQueries DEF Discover
  <1>3. ASSUME ResubmitTick PROVE IInv'
    <2>1. Sound(dht)' /\ Served(dht', remaining_authorities)
      BY <1>1, <1>3, ResubmitEffect DEF ResubmitTick, Sound, Dht, InFlight
    <2>2. NoStall'
      BY <1>3, <2>1 DEF NoStall, Served, ResubmitTick, results, InFlight
    <2> QED BY <1>3, <2>1, <2>2, OnlyQueries DEF ResubmitTick
  <1>4. ASSUME ExitTick PROVE IInv'
    <2>1. Sound(dht)' /\ NoStall'
      BY <1>1, <1>4 DEF ExitTick, Sound, Dht, InFlight, NoStall
    <2> QED BY <1>4, <2>1, OnlyQueries DEF ExitTick
  <1>5. ASSUME GetClosestPeers PROVE IInv'
    <2> DEFINE d == [dht EXCEPT !.queries_discovery = @ - 1]
    <2>1. /\ d.queries = dht.queries /\ d.running = dht.running /\ d.next_id = dht.next_id
          /\ d.records_keys = dht.records_keys /\ d.query_index = dht.query_index
          /\ d.queries_discovery \in 0 .. MaxDiscoveryQueries
          /\ d = [queries |-> d.queries, running |-> d.running, next_id |-> d.next_id,
                  records_keys |-> d.records_keys, query_index |-> d.query_index,
                  queries_discovery |-> d.queries_discovery]
      <3>1. /\ dht \in Dht(dht) /\ dht.queries_discovery \in 0 .. MaxDiscoveryQueries
            /\ dht.queries_discovery > 0 /\ MaxDiscoveryQueries \in Nat
        BY <1>1, <1>5, DiscoveryAssumption DEF GetClosestPeers, Sound, Dht
      <3>2. d.queries_discovery = dht.queries_discovery - 1
        BY <3>1 DEF Dht
      <3>3. d.queries_discovery \in 0 .. MaxDiscoveryQueries
        BY <3>1, <3>2
      <3> QED BY <3>1, <3>3 DEF Dht
    <2>2. dht' = query_peer_info(d)
      BY <1>5 DEF GetClosestPeers
    <2> HIDE DEF d
    <2>3. Sound(d)
      BY <1>1, <2>1 DEF Sound, Dht, InFlight
    <2>4. Served(dht, remaining_authorities)
      BY <1>5 DEF GetClosestPeers, IInv, NoStall, Served
    <2>5. Served(d, remaining_authorities)
      BY <2>1, <2>4 DEF Served, InFlight
    <2>6. Sound(dht)' /\ Served(dht', remaining_authorities)
      BY <2>2, <2>3, <2>5, PeerInfoEffect DEF Sound, Dht, InFlight
    <2>7. NoStall'
      BY <1>5, <2>6 DEF NoStall, Served, GetClosestPeers, results, InFlight
    <2> QED BY <1>5, <2>6, <2>7, OnlyQueries DEF GetClosestPeers, IInv, TypeOK
  <1>6. ASSUME NEW id \in dht.running, GetRecordFound(id) PROVE IInv'
    <2>1. PICK r \in DhtRecords : RecordRejected(id, r) \/ RecordAccepted(id, r)
      BY <1>6 DEF GetRecordFound
    <2>2. Freed(id) = [dht EXCEPT !.queries = Without(@, id), !.running = dht.running]
      BY <1>1 DEF Freed, Sound, Dht
    <2>3. Sound(Freed(id))
      BY <1>1, <2>2, FreedEffect
    <2>4. CASE RecordRejected(id, r)
      <3>1. dht' \in advance_dht_queries(Freed(id), remaining_authorities)
        BY <2>4 DEF RecordRejected, Advance, results
      <3>2. Sound(dht)' /\ Served(dht', remaining_authorities)
        BY <1>1, <2>3, <3>1, AdvanceEffect DEF Sound, Dht, InFlight
      <3>3. NoStall'
        BY <2>4, <3>2 DEF NoStall, Served, RecordRejected, results, InFlight
      <3> QED BY <1>6, <2>4, <3>2, <3>3, OnlyQueries
              DEF GetRecordFound, RecordRejected, IInv, TypeOK
    <2>5. CASE RecordAccepted(id, r)
      <3>1. /\ remaining_authorities' \in SUBSET Authority
            /\ authority_to_details' \in [Authority -> SUBSET Addresses]
            /\ peer_details' \in [Peers -> [authority_id : SUBSET Authority,
                                             addresses : SUBSET Addresses]]
            /\ dialed_addresses' \in SUBSET Addresses
            /\ dial_outcomes' \in [Addresses -> {"None", "Success", "Failed"}]
            /\ RemainingExact' /\ DialsExact' /\ PeersExact'
        BY <2>5, AcceptedEffect
      <3>2. dht' \in advance_dht_queries(Freed(id), remaining_authorities')
        BY <2>5 DEF RecordAccepted, Advance
      <3>3. Sound(dht)' /\ Served(dht', remaining_authorities')
        BY <2>3, <3>1, <3>2, AdvanceEffect DEF Sound, Dht, InFlight
      <3>4. NoStall'
        BY <3>3 DEF NoStall, Served, InFlight
      <3>5. phase' \in {"new", "running", "done"} /\ peer_info' \subseteq Peers
        BY <1>6 DEF GetRecordFound, IInv, TypeOK
      <3> QED BY <3>1, <3>3, <3>4, <3>5 DEF IInv, TypeOK, SlotsSound, Sound
    <2> QED BY <2>1, <2>4, <2>5
  <1>7. ASSUME NEW id \in dht.running, GetRecordEnded(id) PROVE IInv'
    <2> DEFINE d == [Freed(id) EXCEPT !.running = @ \ {id}]
    <2>1. d = [dht EXCEPT !.queries = Without(@, id), !.running = dht.running \ {id}]
      BY <1>1 DEF Freed, Sound, Dht
    <2> HIDE DEF d
    <2>2. Sound(d)
      BY <1>1, <2>1, FreedEffect
    <2>3. dht' \in advance_dht_queries(d, remaining_authorities)
      BY <1>7 DEF GetRecordEnded, Advance, results, d
    <2>4. Sound(dht)' /\ Served(dht', remaining_authorities)
      BY <1>1, <2>2, <2>3, AdvanceEffect DEF Sound, Dht, InFlight
    <2>5. NoStall'
      BY <1>7, <2>4 DEF NoStall, Served, GetRecordEnded, results, InFlight
    <2> QED BY <1>7, <2>4, <2>5, OnlyQueries DEF GetRecordEnded, IInv, TypeOK
  <1>8. ASSUME NEW p \in Peers, Identified(p) PROVE IInv'
    BY <1>8 DEF Identified, IInv, TypeOK, SlotsSound, NoStall, RemainingExact, DialsExact,
                PeersExact, Found, results, dials, InFlight, Dht
  <1>9. ASSUME NEW X \in SUBSET Addresses, NEW o \in {"Success", "Failed"}, Recorded(X, o),
               UNCHANGED <<phase, dht, results, peer_info, dialed_addresses>>
        PROVE  IInv'
    <2>1. dial_outcomes' \in [Addresses -> {"None", "Success", "Failed"}]
      BY <1>9 DEF Recorded, IInv, TypeOK
    <2>2. DialsExact'
      BY <1>9 DEF Recorded, IInv, DialsExact, Found, results
    <2>3. RemainingExact' /\ PeersExact' /\ SlotsSound' /\ NoStall'
      BY <1>9 DEF IInv, RemainingExact, PeersExact, SlotsSound, NoStall, Found, results,
                  InFlight
    <2>4. TypeOK'
      BY <1>9, <2>1 DEF IInv, TypeOK, results, Dht
    <2> QED BY <2>2, <2>3, <2>4 DEF IInv
  <1>10. ASSUME NEW x \in Addresses, ConnectionEstablished(x) PROVE IInv'
    BY <1>9, <1>10 DEF ConnectionEstablished
  <1>11. ASSUME NEW X \in SUBSET Addresses, OutgoingConnectionError(X) PROVE IInv'
    BY <1>9, <1>11 DEF OutgoingConnectionError
  <1>12. ASSUME UNCHANGED vars PROVE IInv'
    BY <1>12 DEF vars, IInv, TypeOK, SlotsSound, NoStall, RemainingExact, DialsExact,
                 PeersExact, Found, results, dials, InFlight, Dht
  <1> QED
    BY <1>2, <1>3, <1>4, <1>5, <1>6, <1>7, <1>8, <1>10, <1>11, <1>12 DEF Next

(* The inductive invariant of authority discovery, type correctness with it.*)
THEOREM DiscoveryInvariant == Spec => []IInv
  BY InitGood, NextGood, PTL DEF Spec

(* At most MAX_QUERIES tracked queries, all of them alive in Kademlia and  *)
(* with a known key, for any MAX_QUERIES and any number of authorities.    *)
THEOREM DiscoverySlots == Spec => []SlotsSound
  <1>1. IInv => SlotsSound
    BY DEF IInv
  <1> QED BY <1>1, DiscoveryInvariant, PTL

(* advance_dht_queries and the resubmission never leave a slot empty while *)
(* some authority without a record is not being looked for.                *)
THEOREM DiscoveryNeverStalls == Spec => []NoStall
  <1>1. IInv => NoStall
    BY DEF IInv
  <1> QED BY <1>1, DiscoveryInvariant, PTL

(* remaining_authorities, dialed_addresses, peer_details and               *)
(* authority_to_details are views of the same set of records.              *)
THEOREM DiscoveryViewsAgree == Spec => []ViewsExact
  <1>1. IInv => ViewsExact
    BY DEF IInv, ViewsExact
  <1> QED BY <1>1, DiscoveryInvariant, PTL

-----------------------------------------------------------------------------
(* The results of authority i, of finished batches and of the current one. *)
DoneOf(i) == grouped[i] \cup {r.check : r \in {s \in batch_results : s.idx = i}}

Waiting == checks \cup in_flight

TcpTypes ==
  /\ step \in {"setup", "discovery", "checking", "reported", "failed"}
  /\ checks \subseteq AllChecks /\ in_flight \subseteq AllChecks
  /\ batch_results \subseteq [idx : Index, check : AddressCheck]
  /\ grouped \in [Index -> SUBSET AddressCheck]
  /\ peer_ids \in [Authority -> Peers \cup {NoPeer}]

(* Nothing is checked before the discovery is over, and then an address is *)
(* waiting or has one result, never both.                                  *)
Untouched == Waiting = {} /\ \A i \in Index : DoneOf(i) = {}

Ledger ==
  /\ \A i \in Index : \A k \in DoneOf(i) :
       /\ k.is_public = IsPublic[k.address]
       /\ k.result \in AddressResults(k.address)
       /\ Check(i, k.address) \notin Waiting
  /\ \A i \in Index : \A k, l \in DoneOf(i) : k.address = l.address => k = l
  /\ checks \cap in_flight = {}

Covered ==
  IF step \in {"checking", "reported"}
  THEN /\ phase = "done"
       /\ \A i \in Index, x \in Addresses :
            x \in authority_to_details[authorities[i]] <=>
              \/ Check(i, x) \in Waiting
              \/ \E k \in DoneOf(i) : k.address = x
  ELSE Untouched

CheckInv == IInv /\ TcpTypes /\ Ledger /\ Covered

-----------------------------------------------------------------------------
LEMMA ListedAuthority == \A i \in Index : authorities[i] \in Authority
  BY DiscoveryAssumption DEF Index, Authority, Range

LEMMA CheckInitGood == CheckInit => CheckInv
  <1> SUFFICES ASSUME CheckInit PROVE CheckInv
    OBVIOUS
  <1>1. IInv
    BY InitGood DEF CheckInit
  <1>2. TcpTypes
    BY DEF CheckInit, TcpTypes
  <1>3. Untouched
    BY DEF CheckInit, Untouched, Waiting, DoneOf
  <1>4. Ledger
    BY <1>3 DEF CheckInit, Ledger, Untouched
  <1>5. Covered
    BY <1>3 DEF CheckInit, Covered
  <1> QED BY <1>1, <1>2, <1>4, <1>5 DEF CheckInv

(* A step that leaves the TCP checks alone.                                *)
LEMMA TcpStutter ==
  ASSUME UNCHANGED tcp_vars
  PROVE  /\ Waiting' = Waiting
         /\ \A i \in Index : DoneOf(i)' = DoneOf(i)
         /\ Ledger => Ledger'
         /\ Untouched => Untouched'
  <1>1. Waiting' = Waiting
    BY DEF tcp_vars, Waiting
  <1>2. \A i \in Index : DoneOf(i)' = DoneOf(i)
    BY DEF tcp_vars, DoneOf
  <1>3. Untouched => Untouched'
    BY <1>1, <1>2 DEF Untouched
  <1>4. Ledger => Ledger'
    BY <1>1, <1>2 DEF Ledger, tcp_vars
  <1> QED BY <1>1, <1>2, <1>3, <1>4

LEMMA SetUpGood == CheckInv /\ SetUp => CheckInv'
  <1> SUFFICES ASSUME CheckInv, SetUp PROVE CheckInv'
    OBVIOUS
  <1>1. IInv'
    BY NextGood DEF SetUp, CheckInv
  <1>2. TcpTypes'
    BY DEF SetUp, CheckInv, TcpTypes, tcp_vars, out_vars
  <1>3. Untouched
    BY DEF CheckInv, Covered, SetUp
  <1>4. Ledger' /\ Covered'
    BY <1>3, TcpStutter DEF SetUp, CheckInv, Covered
  <1> QED BY <1>1, <1>2, <1>4 DEF CheckInv

LEMMA DiscoveryGood == CheckInv /\ Discovery => CheckInv'
  <1> SUFFICES ASSUME CheckInv, Discovery PROVE CheckInv'
    OBVIOUS
  <1>1. IInv'
    BY NextGood DEF Discovery, CheckInv
  <1>2. TcpTypes'
    BY DEF Discovery, CheckInv, TcpTypes, tcp_vars, out_vars
  <1>3. Untouched
    BY DEF CheckInv, Covered, Discovery
  <1>4. Ledger' /\ Covered'
    BY <1>3, TcpStutter DEF Discovery, CheckInv, Covered
  <1> QED BY <1>1, <1>2, <1>4 DEF CheckInv

(* Dropping the swarm leaves a bookkeeping without queries.                *)
LEMMA SwarmDropped ==
  ASSUME IInv, phase = "done", dht' = NewDht, UNCHANGED <<phase, results, peer_info, dials>>
  PROVE  IInv'
  <1>1. (dht \in Dht(dht))'
    <2>1. NewDht \in Dht(NewDht)
      BY DiscoveryAssumption DEF NewDht, Dht, NoQueries
    <2> QED BY <2>1 DEF Dht
  <1>2. TypeOK'
    BY <1>1 DEF IInv, TypeOK, results, dials
  <1>3. SlotsSound'
    <2>1. DOMAIN NewDht.queries = {} /\ InFlight(NewDht) = {}
      BY DEF NewDht, NoQueries, InFlight, Range
    <2>2. Cardinality(DOMAIN NewDht.queries) <= MaxQueries
      BY <2>1, FS_EmptySet, DiscoveryAssumption
    <2> QED BY <2>1, <2>2 DEF SlotsSound, InFlight
  <1>4. NoStall'
    BY DEF NoStall
  <1>5. RemainingExact' /\ DialsExact' /\ PeersExact'
    BY DEF IInv, RemainingExact, DialsExact, PeersExact, Found, results, dials
  <1> QED BY <1>2, <1>3, <1>4, <1>5 DEF IInv

LEMMA IntoResultsGood == CheckInv /\ IntoResults => CheckInv'
  <1> SUFFICES ASSUME CheckInv, IntoResults PROVE CheckInv'
    OBVIOUS
  <1>1. IInv'
    BY SwarmDropped DEF IntoResults, CheckInv
  <1>2. TcpTypes'
    <2>1. peer_ids' \in [Authority -> Peers \cup {NoPeer}]
      BY DEF IntoResults, FirstPeerIds
    <2> QED BY <2>1 DEF IntoResults, CheckInv, TcpTypes, PendingChecks
  <1>3. Untouched
    BY DEF CheckInv, Covered, IntoResults
  <1>4. \A i \in Index : DoneOf(i)' = {}
    BY <1>3 DEF IntoResults, DoneOf, Untouched
  <1>5. Waiting' = PendingChecks /\ in_flight' = {}
    BY <1>3 DEF IntoResults, Waiting, Untouched
  <1>6. Ledger'
    BY <1>4, <1>5 DEF Ledger
  <1>7. \A i \in Index, x \in Addresses :
          x \in authority_to_details[authorities[i]] <=> Check(i, x) \in PendingChecks
    BY DEF PendingChecks, AllChecks, Check
  <1>8. Covered'
    BY <1>4, <1>5, <1>7 DEF Covered, IntoResults, results, PendingChecks, Check, AllChecks
  <1> QED BY <1>1, <1>2, <1>6, <1>8 DEF CheckInv

LEMMA StartBatchGood == CheckInv /\ StartBatch => CheckInv'
  <1> SUFFICES ASSUME CheckInv, StartBatch PROVE CheckInv'
    OBVIOUS
  <1>1. IInv'
    BY NextGood DEF StartBatch, CheckInv
  <1>2. in_flight' \subseteq checks /\ in_flight = {}
    BY DEF StartBatch, Batches
  <1>3. Waiting' = Waiting
    BY <1>2 DEF StartBatch, Waiting
  <1>4. \A i \in Index : DoneOf(i)' = DoneOf(i)
    BY DEF StartBatch, DoneOf
  <1>5. TcpTypes'
    BY <1>2 DEF StartBatch, CheckInv, TcpTypes, out_vars
  <1>6. Ledger'
    BY <1>3, <1>4 DEF Ledger, CheckInv, StartBatch
  <1>7. Covered'
    BY <1>3, <1>4 DEF Covered, CheckInv, StartBatch, vars, results
  <1> QED BY <1>1, <1>5, <1>6, <1>7 DEF CheckInv

LEMMA EndBatchGood == CheckInv /\ EndBatch => CheckInv'
  <1> SUFFICES ASSUME CheckInv, EndBatch PROVE CheckInv'
    OBVIOUS
  <1>1. IInv'
    BY NextGood DEF EndBatch, CheckInv
  <1>2. Waiting' = Waiting
    BY DEF EndBatch, Waiting
  <1>3. \A i \in Index : DoneOf(i)' = DoneOf(i)
    BY DEF EndBatch, DoneOf
  <1>4. TcpTypes'
    <2>1. \A i \in Index : DoneOf(i) \subseteq AddressCheck
      BY DEF CheckInv, TcpTypes, DoneOf
    <2>2. grouped' \in [Index -> SUBSET AddressCheck]
      BY <2>1 DEF EndBatch, DoneOf
    <2> QED BY <2>2 DEF EndBatch, CheckInv, TcpTypes, out_vars
  <1>5. Ledger'
    BY <1>2, <1>3 DEF Ledger, CheckInv, EndBatch
  <1>6. Covered'
    BY <1>2, <1>3 DEF Covered, CheckInv, EndBatch, vars, results
  <1> QED BY <1>1, <1>4, <1>5, <1>6 DEF CheckInv

LEMMA CheckAddressGood ==
  ASSUME NEW c \in in_flight, CheckInv, CheckAddress(c)
  PROVE  CheckInv'
  <1> DEFINE k(result) == Checked(c, result).check
  <1>1. PICK result \in AddressResults(c.addr) :
          batch_results' = batch_results \cup {Checked(c, result)}
    BY DEF CheckAddress
  <1>2. c \in AllChecks /\ c = Check(c.idx, c.addr) /\ c.idx \in Index /\ c.addr \in Addresses
    BY DEF CheckInv, TcpTypes, AllChecks, Check
  <1>3. IInv'
    BY NextGood DEF CheckAddress, CheckInv
  <1>4. Checked(c, result) = [idx |-> c.idx, check |-> k(result)]
    BY DEF Checked
  <1>5. /\ k(result) \in AddressCheck /\ k(result).address = c.addr
        /\ k(result).is_public = IsPublic[c.addr] /\ k(result).result = result
    BY <1>2, CheckAssumption DEF Checked, AddressCheck, AddressResults
  <1> HIDE DEF k
  <1>6. TcpTypes'
    BY <1>1, <1>2, <1>4, <1>5 DEF CheckAddress, CheckInv, TcpTypes, out_vars
  <1>7. Waiting' = Waiting \ {c} /\ c \in Waiting
    BY DEF CheckAddress, Waiting, CheckInv, Ledger
  <1>8. \A i \in Index :
          DoneOf(i)' = IF i = c.idx THEN DoneOf(i) \cup {k(result)} ELSE DoneOf(i)
    <2> TAKE i \in Index
    <2>1. {r \in batch_results' : r.idx = i} =
            {r \in batch_results : r.idx = i}
              \cup (IF i = c.idx THEN {Checked(c, result)} ELSE {})
      BY <1>1, <1>4
    <2>2. grouped' = grouped
      BY DEF CheckAddress
    <2> QED BY <2>1, <2>2, <1>4 DEF DoneOf
  <1>9. \A l \in DoneOf(c.idx) : l.address # c.addr
    BY <1>2, <1>7 DEF CheckInv, Ledger
  <1>10. \A i \in Index, x \in Addresses : Check(i, x) = c <=> i = c.idx /\ x = c.addr
    BY <1>2 DEF Check
  <1>11. Ledger'
    <2>1. \A i \in Index : \A l \in DoneOf(i)' :
            /\ l.is_public = IsPublic[l.address]
            /\ l.result \in AddressResults(l.address)
            /\ Check(i, l.address) \notin Waiting'
      <3> SUFFICES ASSUME NEW i \in Index, NEW l \in DoneOf(i)'
                   PROVE  /\ l.is_public = IsPublic[l.address]
                          /\ l.result \in AddressResults(l.address)
                          /\ Check(i, l.address) \notin Waiting'
        OBVIOUS
      <3>1. CASE l \in DoneOf(i)
        BY <3>1, <1>7 DEF CheckInv, Ledger
      <3>2. CASE l = k(result) /\ i = c.idx
        BY <3>2, <1>1, <1>2, <1>5, <1>7
      <3> QED BY <3>1, <3>2, <1>8
    <2>2. \A i \in Index : \A l, n \in DoneOf(i)' : l.address = n.address => l = n
      BY <1>5, <1>8, <1>9 DEF CheckInv, Ledger
    <2>3. checks' \cap in_flight' = {}
      BY DEF CheckInv, Ledger, CheckAddress
    <2> QED BY <2>1, <2>2, <2>3 DEF Ledger
  <1>12. Covered'
    <2>1. step = "checking" /\ step' = "checking" /\ phase' = phase
            /\ authority_to_details' = authority_to_details
      BY DEF CheckAddress, vars, results
    <2>2. ASSUME NEW i \in Index, NEW x \in Addresses
          PROVE  (\/ Check(i, x) \in Waiting'
                  \/ \E l \in DoneOf(i)' : l.address = x)
                 <=> (\/ Check(i, x) \in Waiting
                      \/ \E l \in DoneOf(i) : l.address = x)
      <3>1. CASE i = c.idx /\ x = c.addr
        BY <3>1, <1>2, <1>5, <1>7, <1>8
      <3>2. CASE ~(i = c.idx /\ x = c.addr)
        BY <3>2, <1>5, <1>7, <1>8, <1>10
      <3> QED BY <3>1, <3>2
    <2> QED BY <2>1, <2>2 DEF Covered, CheckInv
  <1> QED BY <1>3, <1>6, <1>11, <1>12 DEF CheckInv

LEMMA ReportGood == CheckInv /\ Report => CheckInv'
  <1> SUFFICES ASSUME CheckInv, Report PROVE CheckInv'
    OBVIOUS
  <1>1. IInv'
    BY NextGood DEF Report, CheckInv
  <1>2. TcpTypes'
    BY DEF Report, CheckInv, TcpTypes, tcp_vars
  <1>3. Ledger' /\ Waiting' = Waiting /\ \A i \in Index : DoneOf(i)' = DoneOf(i)
    BY TcpStutter DEF Report, CheckInv
  <1>4. Covered'
    BY <1>3 DEF Covered, CheckInv, Report, vars, results
  <1> QED BY <1>1, <1>2, <1>3, <1>4 DEF CheckInv

LEMMA CheckNextGood == CheckInv /\ [CheckNext]_all_vars => CheckInv'
  <1> SUFFICES ASSUME CheckInv, [CheckNext]_all_vars PROVE CheckInv'
    OBVIOUS
  <1>1. CASE CheckNext
    BY <1>1, SetUpGood, DiscoveryGood, IntoResultsGood, StartBatchGood, CheckAddressGood,
       EndBatchGood, ReportGood DEF CheckNext
  <1>2. CASE UNCHANGED all_vars
    <2>1. IInv'
      BY <1>2, NextGood DEF all_vars, CheckInv
    <2>2. TcpTypes'
      BY <1>2 DEF all_vars, tcp_vars, out_vars, CheckInv, TcpTypes
    <2>3. /\ Ledger' /\ Waiting' = Waiting /\ \A i \in Index : DoneOf(i)' = DoneOf(i)
          /\ Untouched => Untouched'
      BY <1>2, TcpStutter DEF all_vars, CheckInv
    <2>4. Covered'
      BY <1>2, <2>3 DEF Covered, CheckInv, all_vars, vars, results
    <2> QED BY <2>1, <2>2, <2>3, <2>4 DEF CheckInv
  <1> QED BY <1>1, <1>2

-----------------------------------------------------------------------------
(* The invariant of the whole command: that of the discovery, and the      *)
(* account of which addresses are waiting and which have a result.         *)
THEOREM CheckInvariant == CheckSpec => []CheckInv
  BY CheckInitGood, CheckNextGood, PTL DEF CheckSpec

(* All variables of the command keep their types.                          *)
THEOREM CheckTypes == CheckSpec => []CheckTypeOK
  <1>1. CheckInv => CheckTypeOK
    BY DEF CheckInv, IInv, TcpTypes, CheckTypeOK
  <1> QED BY <1>1, CheckInvariant, PTL

(* The tracked queries stay within MAX_QUERIES and belong to running ones, *)
(* also when the swarm is dropped for the TCP checks.                      *)
THEOREM CheckSlots == CheckSpec => []SlotsSound
  <1>1. CheckInv => SlotsSound
    BY DEF CheckInv, IInv
  <1> QED BY <1>1, CheckInvariant, PTL

(* Between two events every slot is taken or every missing authority is    *)
(* being queried.                                                          *)
THEOREM CheckNeverStalls == CheckSpec => []NoStall
  <1>1. CheckInv => NoStall
    BY DEF CheckInv, IInv
  <1> QED BY <1>1, CheckInvariant, PTL

(* What the checks and the report are made from stays consistent to the    *)
(* end of the command.                                                     *)
THEOREM CheckViewsAgree == CheckSpec => []ViewsExact
  <1>1. CheckInv => ViewsExact
    BY DEF CheckInv, IInv, ViewsExact
  <1> QED BY <1>1, CheckInvariant, PTL

-----------------------------------------------------------------------------
(* What is reported at the end: every waiting address has become a result. *)
LEMMA ReportIsComplete == CheckInv /\ Report => ReportComplete'
  <1> SUFFICES ASSUME CheckInv, Report, NEW i \in Index
               PROVE  LET r == report'.results[i]
                          found == authority_to_details'[authorities[i]]
                      IN  /\ r.has_dht_record <=> found # {}
                          /\ {c.address : c \in r.addresses} = found
                          /\ \A c, d \in r.addresses : c.address = d.address => c = d
                          /\ \A c \in r.addresses :
                               /\ c.is_public = IsPublic[c.address]
                               /\ c.result \in AddressResults(c.address)
                               /\ c.dial_outcome = dial_outcomes'[c.address]
    BY DEF ReportComplete
  <1> DEFINE found == authority_to_details[authorities[i]]
             r == AuthorityResult(i)
  <1>1. report'.results[i] = r
    BY DEF Report
  <1>2. authority_to_details' = authority_to_details /\ dial_outcomes' = dial_outcomes
    BY DEF Report, vars, results, dials
  <1>3. Waiting = {} /\ DoneOf(i) = grouped[i]
    BY DEF Report, Waiting, DoneOf
  <1>4. found \subseteq Addresses
    BY ListedAuthority DEF CheckInv, IInv, TypeOK
  <1>5. grouped[i] \subseteq AddressCheck
    BY DEF CheckInv, TcpTypes
  <1>6. \A x \in Addresses : x \in found <=> \E k \in grouped[i] : k.address = x
    BY <1>3 DEF CheckInv, Covered, Report
  <1>7. \A k \in grouped[i] :
          /\ Enriched(k).address = k.address /\ Enriched(k).is_public = k.is_public
          /\ Enriched(k).result = k.result
          /\ Enriched(k).dial_outcome = dial_outcomes[k.address]
    BY <1>5 DEF Enriched, AddressCheck
  <1>8. \A k \in grouped[i] : k.address \in Addresses
    BY <1>5 DEF AddressCheck
  <1>9. r.has_dht_record <=> found # {}
    BY DEF AuthorityResult, HasRecord
  <1>10. r.addresses = {Enriched(k) : k \in grouped[i]}
    <2>1. CASE found = {}
      <3>1. grouped[i] = {}
        BY <2>1, <1>6, <1>8
      <3> QED BY <2>1, <3>1 DEF AuthorityResult, HasRecord
    <2>2. CASE found # {}
      BY <2>2 DEF AuthorityResult, HasRecord
    <2> QED BY <2>1, <2>2
  <1> HIDE DEF r, found
  <1>11. {c.address : c \in r.addresses} = found
    BY <1>4, <1>6, <1>7, <1>8, <1>10
  <1>12. \A c, d \in r.addresses : c.address = d.address => c = d
    <2> SUFFICES ASSUME NEW k \in grouped[i], NEW l \in grouped[i],
                        Enriched(k).address = Enriched(l).address
                 PROVE  Enriched(k) = Enriched(l)
      BY <1>10
    <2>1. k = l
      BY <1>3, <1>7 DEF CheckInv, Ledger
    <2> QED BY <2>1
  <1>13. \A c \in r.addresses :
           /\ c.is_public = IsPublic[c.address]
           /\ c.result \in AddressResults(c.address)
           /\ c.dial_outcome = dial_outcomes[c.address]
    <2> SUFFICES ASSUME NEW k \in grouped[i]
                 PROVE  /\ Enriched(k).is_public = IsPublic[Enriched(k).address]
                        /\ Enriched(k).result \in AddressResults(Enriched(k).address)
                        /\ Enriched(k).dial_outcome = dial_outcomes[Enriched(k).address]
      BY <1>10
    <2> QED BY <1>3, <1>7 DEF CheckInv, Ledger
  <1> QED BY <1>1, <1>2, <1>9, <1>11, <1>12, <1>13 DEF found

(* A result is Ok or Failed unless the check was skipped.                  *)
LEMMA TestedVerdict ==
  ASSUME NEW r, \A c \in r.addresses : c.result \in {"Ok", "Failed", "Skipped"},
         r.has_dht_record \in BOOLEAN, ~r.has_dht_record => r.addresses = {}
  PROVE  is_authority_failing(r) <=>
           ~(Tested(r) # {} /\ \A c \in Tested(r) : c.result = "Ok")
  <1>1. \A c \in Tested(r) : c.result \in {"Ok", "Failed"}
    BY DEF Tested
  <1>2. ~r.has_dht_record => Tested(r) = {}
    BY DEF Tested
  <1> QED BY <1>1, <1>2 DEF is_authority_failing

LEMMA VerdictsOfReport == CheckInv /\ Report => VerdictsAgree'
  <1> SUFFICES ASSUME CheckInv, Report PROVE VerdictsAgree'
    OBVIOUS
  <1> DEFINE rs == [i \in Index |-> AuthorityResult(i)]
             Healthy(r) == Tested(r) # {} /\ \A c \in Tested(r) : c.result = "Ok"
             F == {i \in Index : is_authority_failing(rs[i])}
             G == {i \in Index : Healthy(rs[i])}
             R == {i \in Index : \E c \in rs[i].addresses : c.result = "Ok"}
  <1>1. report'.results = rs /\ report'.failing = F /\ report'.stats = compute_global_stats(rs)
    BY DEF Report
  <1>2. /\ compute_global_stats(rs).fully_reachable_authorities = Cardinality(G)
        /\ compute_global_stats(rs).reachable_authorities = Cardinality(R)
        /\ compute_global_stats(rs).total_authorities = Cardinality(Index)
    BY DEF compute_global_stats
  <1>3. \A i \in Index :
          /\ \A c \in rs[i].addresses : c.result \in {"Ok", "Failed", "Skipped"}
          /\ rs[i].has_dht_record \in BOOLEAN
          /\ ~rs[i].has_dht_record => rs[i].addresses = {}
    <2> TAKE i \in Index
    <2>1. \A k \in grouped[i] : k \in AddressCheck
      BY DEF CheckInv, TcpTypes
    <2>2. \A k \in grouped[i] : Enriched(k).result \in {"Ok", "Failed", "Skipped"}
      BY <2>1 DEF Enriched, AddressCheck
    <2> QED BY <2>2 DEF AuthorityResult, HasRecord
  <1> HIDE DEF rs
  <1>4. G = Index \ F
    BY <1>3, TestedVerdict
  <1>5. IsFiniteSet(Index) /\ Cardinality(Index) \in Nat
    BY FS_Interval, FS_CardinalityType, DiscoveryAssumption DEF Index
  <1>6. F \subseteq Index /\ R \subseteq Index /\ G \subseteq R
    BY DEF Tested
  <1> HIDE DEF F, G, R
  <1>7. Cardinality(G) = Cardinality(Index) - Cardinality(F)
    <2>1. Index \cap F = F
      BY <1>6
    <2>2. Cardinality(Index \ F) = Cardinality(Index) - Cardinality(Index \cap F)
      BY <1>5, FS_Difference
    <2> QED BY <1>4, <2>1, <2>2
  <1>8. Cardinality(F) \in Nat /\ Cardinality(G) <= Cardinality(R)
    BY <1>5, <1>6, FS_Subset, FS_CardinalityType
  <1>9. Cardinality(F) + Cardinality(G) = Cardinality(Index)
    BY <1>5, <1>7, <1>8
  <1> QED BY <1>1, <1>2, <1>8, <1>9 DEF VerdictsAgree

(* Nothing happens after the report.                                       *)
LEMMA ReportIsFinal ==
  ASSUME [CheckNext]_all_vars, step' = "reported"
  PROVE  Report \/ (step = "reported" /\ UNCHANGED <<report, summary, vars>>)
  <1>1. CASE UNCHANGED all_vars
    BY <1>1 DEF all_vars, out_vars
  <1>2. CASE CheckNext
    <2>1. ASSUME SetUp \/ Discovery \/ IntoResults PROVE FALSE
      BY <2>1 DEF SetUp, Discovery, IntoResults
    <2>2. ASSUME StartBatch \/ EndBatch PROVE FALSE
      BY <2>2 DEF StartBatch, EndBatch
    <2>3. ASSUME NEW c \in in_flight, CheckAddress(c) PROVE FALSE
      BY <2>3 DEF CheckAddress
    <2> QED BY <1>2, <2>1, <2>2, <2>3 DEF CheckNext
  <1> QED BY <1>1, <1>2

(* Whatever batches the addresses of an authority fall into and in which   *)
(* order their checks end, the report lists each address once, with its    *)
(* own result and the outcome of its own dial, and no other address.       *)
THEOREM ReportCovers == CheckSpec => []ReportComplete
  <1>1. CheckInit => ReportComplete
    BY DEF CheckInit, ReportComplete
  <1>2. CheckInv /\ ReportComplete /\ [CheckNext]_all_vars => ReportComplete'
    <2> SUFFICES ASSUME CheckInv, ReportComplete, [CheckNext]_all_vars, step' = "reported"
                 PROVE  ReportComplete'
      BY DEF ReportComplete
    <2>1. CASE Report
      BY <2>1, ReportIsComplete
    <2>2. CASE step = "reported" /\ UNCHANGED <<report, summary, vars>>
      BY <2>2 DEF ReportComplete, vars, results, dials
    <2> QED BY <2>1, <2>2, ReportIsFinal
  <1> QED BY <1>1, <1>2, CheckInvariant, PTL DEF CheckSpec

(* is_authority_failing and compute_global_stats partition the             *)
(* authorities: the failing ones and the fully reachable ones add up, for  *)
(* any number of them.                                                     *)
THEOREM VerdictsAddUp == CheckSpec => []VerdictsAgree
  <1>1. CheckInit => VerdictsAgree
    BY DEF CheckInit, VerdictsAgree
  <1>2. CheckInv /\ VerdictsAgree /\ [CheckNext]_all_vars => VerdictsAgree'
    <2> SUFFICES ASSUME CheckInv, VerdictsAgree, [CheckNext]_all_vars, step' = "reported"
                 PROVE  VerdictsAgree'
      BY DEF VerdictsAgree
    <2>1. CASE Report
      BY <2>1, VerdictsOfReport
    <2>2. CASE step = "reported" /\ UNCHANGED <<report, summary, vars>>
      BY <2>2 DEF VerdictsAgree
    <2> QED BY <2>1, <2>2, ReportIsFinal
  <1> QED BY <1>1, <1>2, CheckInvariant, PTL DEF CheckSpec

-----------------------------------------------------------------------------
(* What was printed after the discovery is about the state that the report *)
(* describes, for the discovery is over.                                   *)
Printed ==
  step \in {"checking", "reported"} =>
    summary = DialSummary(peer_ids) /\ peer_ids \in FirstPeerIds

LEMMA SameSummary ==
  ASSUME authority_to_details' = authority_to_details, peer_info' = peer_info,
         dial_outcomes' = dial_outcomes, NEW first, peer_ids' = first
  PROVE  /\ DialSummary(peer_ids)' = DialSummary(first)
         /\ FirstPeerIds' = FirstPeerIds
  <1>1. TotalAddrs' = TotalAddrs
    BY DEF TotalAddrs
  <1>2. \A outcome : Dialed(outcome)' = Dialed(outcome)
    BY DEF Dialed
  <1>3. \A a : HasRecord(a)' = HasRecord(a)
    BY DEF HasRecord
  <1> QED BY <1>1, <1>2, <1>3 DEF DialSummary, FirstPeerIds

LEMMA PrintedGood == Printed /\ [CheckNext]_all_vars => Printed'
  <1> SUFFICES ASSUME Printed, [CheckNext]_all_vars, step' \in {"checking", "reported"}
               PROVE  summary' = DialSummary(peer_ids)' /\ peer_ids' \in FirstPeerIds'
    BY DEF Printed
  <1> USE DEF vars, results, dials, out_vars
  <1>1. CASE IntoResults
    <2>1. /\ authority_to_details' = authority_to_details /\ peer_info' = peer_info
          /\ dial_outcomes' = dial_outcomes
      BY <1>1 DEF IntoResults
    <2>2. PICK first \in FirstPeerIds : peer_ids' = first /\ summary' = DialSummary(first)
      BY <1>1 DEF IntoResults
    <2> QED BY <2>1, <2>2, SameSummary
  <1>2. CASE ~IntoResults
    <2>1. /\ step \in {"checking", "reported"} /\ peer_ids' = peer_ids /\ summary' = summary
          /\ authority_to_details' = authority_to_details /\ peer_info' = peer_info
          /\ dial_outcomes' = dial_outcomes
      <3>1. CASE UNCHANGED all_vars
        BY <3>1 DEF all_vars
      <3>2. CASE SetUp \/ Discovery
        BY <3>2 DEF SetUp, Discovery
      <3>3. CASE StartBatch \/ EndBatch \/ Report
        BY <3>3 DEF StartBatch, EndBatch, Report
      <3>4. ASSUME NEW c \in in_flight, CheckAddress(c)
            PROVE  /\ step \in {"checking", "reported"} /\ peer_ids' = peer_ids
                   /\ summary' = summary
                   /\ authority_to_details' = authority_to_details /\ peer_info' = peer_info
                   /\ dial_outcomes' = dial_outcomes
        BY <3>4 DEF CheckAddress
      <3> QED BY <1>2, <3>1, <3>2, <3>3, <3>4 DEF CheckNext
    <2>2. summary = DialSummary(peer_ids) /\ peer_ids \in FirstPeerIds
      BY <2>1 DEF Printed
    <2> QED BY <2>1, <2>2, SameSummary
  <1> QED BY <1>1, <1>2

(* Counting: a partition in two, and one in three.                         *)
LEMMA TwoParts ==
  ASSUME NEW A, NEW B, IsFiniteSet(A \cup B), A \cap B = {}
  PROVE  /\ Cardinality(A \cup B) = Cardinality(A) + Cardinality(B)
         /\ Cardinality(A) \in Nat /\ Cardinality(B) \in Nat
  <1>1. IsFiniteSet(A) /\ IsFiniteSet(B)
    <2>1. A \in SUBSET (A \cup B) /\ B \in SUBSET (A \cup B)
      OBVIOUS
    <2> QED BY <2>1, FS_Subset
  <1>2. Cardinality(A) \in Nat /\ Cardinality(B) \in Nat
    BY <1>1, FS_CardinalityType
  <1>3. Cardinality(A \cup B) = Cardinality(A) + Cardinality(B) - Cardinality(A \cap B)
    BY <1>1, FS_Union
  <1> QED BY <1>2, <1>3, FS_EmptySet

LEMMA ThreeParts ==
  ASSUME NEW A, NEW B, NEW C, IsFiniteSet((A \cup B) \cup C),
         A \cap B = {}, A \cap C = {}, B \cap C = {}
  PROVE  Cardinality((A \cup B) \cup C) = Cardinality(A) + Cardinality(B) + Cardinality(C)
  <1>1. A \cup B \in SUBSET ((A \cup B) \cup C) /\ (A \cup B) \cap C = {}
    OBVIOUS
  <1>2. IsFiniteSet(A \cup B)
    BY <1>1, FS_Subset
  <1>3. Cardinality((A \cup B) \cup C) = Cardinality(A \cup B) + Cardinality(C)
    BY <1>1, TwoParts
  <1>4. Cardinality(A \cup B) = Cardinality(A) + Cardinality(B)
    BY <1>2, TwoParts
  <1> QED BY <1>3, <1>4

(* The entries <<i, c>> of a report, and those about the addresses X.      *)
Entries(rs) == UNION {{<<i, c>> : c \in rs[i].addresses} : i \in DOMAIN rs}

ListedIn(L, X) == {e \in L : e[2].address \in X}

(* Each address of X is listed at least once.                              *)
LEMMA ListedOften ==
  ASSUME NEW L, IsFiniteSet(L), NEW X, \A x \in X : \E e \in L : e[2].address = x
  PROVE  /\ Cardinality(X) \in Nat /\ Cardinality(ListedIn(L, X)) \in Nat
         /\ Cardinality(X) <= Cardinality(ListedIn(L, X))
         /\ (\A e, f \in L : e[2].address = f[2].address => e = f)
              => Cardinality(X) = Cardinality(ListedIn(L, X))
  <1> DEFINE M == ListedIn(L, X)
             k == [e \in M |-> e[2].address]
  <1>1. IsFiniteSet(M)
    BY FS_Subset DEF ListedIn
  <1>2. k \in Surjection(M, X)
    <2>1. k \in [M -> X]
      BY DEF ListedIn
    <2>2. \A x \in X : \E e \in M : k[e] = x
      BY DEF ListedIn
    <2> QED BY <2>1, <2>2 DEF Surjection
  <1>3. ASSUME \A e, f \in L : e[2].address = f[2].address => e = f
        PROVE  k \in Injection(M, X)
    <2>1. k \in [M -> X]
      BY DEF ListedIn
    <2>2. \A e, f \in M : k[e] = k[f] => e = f
      BY <1>3 DEF ListedIn
    <2> QED BY <2>1, <2>2 DEF Injection, IsInjective
  <1> HIDE DEF k, M
  <1>4. /\ IsFiniteSet(X) /\ Cardinality(X) <= Cardinality(M)
        /\ Cardinality(X) = Cardinality(M) <=> k \in Injection(M, X)
    BY <1>1, <1>2, FS_Surjection
  <1>5. Cardinality(X) \in Nat /\ Cardinality(M) \in Nat
    BY <1>1, <1>4, FS_CardinalityType
  <1> QED BY <1>3, <1>4, <1>5 DEF M

(* Results that list the addresses of their authority once each; what that *)
(* says of the entries L.                                                  *)
ListsOnce(rs) ==
  /\ DOMAIN rs = Index
  /\ \A i \in Index :
       /\ {c.address : c \in rs[i].addresses} = authority_to_details[authorities[i]]
       /\ \A c, d \in rs[i].addresses : c.address = d.address => c = d

EntriesCover(rs, L) ==
  /\ \A e \in L : e[2].address \in Addresses /\ e[1] \in Index /\ e[2] \in rs[e[1]].addresses
  /\ \A x \in Found : \E e \in L : e[2].address = x
  /\ ~Shared => \A e, f \in L : e[2].address = f[2].address => e = f

(* A report has an entry for each authority and each of its addresses.     *)
LEMMA EntriesOfReport ==
  ASSUME CheckInv, IsInjective(authorities), NEW rs, ListsOnce(rs), NEW L, L = Entries(rs)
  PROVE  IsFiniteSet(L) /\ Cardinality(L) = TotalAddrs /\ EntriesCover(rs, L)
  <1> USE DEF ListsOnce
  <1>1. /\ authority_to_details \in [Authority -> SUBSET Addresses]
        /\ \A i \in Index : authorities[i] \in Authority
        /\ \A a \in Authority : \E i \in Index : authorities[i] = a
        /\ \A i, j \in Index : authorities[i] = authorities[j] => i = j
    <2>1. DOMAIN authorities = Index
      BY DiscoveryAssumption DEF Index
    <2> QED BY <2>1 DEF CheckInv, IInv, TypeOK, Authority, Range, IsInjective
  <1>2. \A e \in L : /\ e = <<e[1], e[2]>> /\ e[1] \in Index /\ e[2] \in rs[e[1]].addresses
                     /\ e[2].address \in authority_to_details[authorities[e[1]]]
                     /\ e[2].address \in Addresses
    BY <1>1 DEF Entries
  <1>3. \A i \in Index : \A x \in authority_to_details[authorities[i]] :
          \E e \in L : e[1] = i /\ e[2].address = x
    <2> SUFFICES ASSUME NEW i \in Index, NEW x \in authority_to_details[authorities[i]]
                 PROVE  \E e \in L : e[1] = i /\ e[2].address = x
      OBVIOUS
    <2>1. PICK c \in rs[i].addresses : c.address = x
      OBVIOUS
    <2>2. <<i, c>> \in L /\ <<i, c>>[1] = i /\ <<i, c>>[2] = c
      BY DEF Entries
    <2> QED BY <2>1, <2>2
  <1>4. \A e, f \in L : e[1] = f[1] /\ e[2].address = f[2].address => e = f
    BY <1>2
  <1>5. IsFiniteSet(L) /\ Cardinality(L) = TotalAddrs
    <2> DEFINE P == {e \in Authority \X Addresses : e[2] \in authority_to_details[e[1]]}
               k == [e \in L |-> <<authorities[e[1]], e[2].address>>]
    <2>1. k \in [L -> P]
      <3> SUFFICES ASSUME NEW e \in L PROVE <<authorities[e[1]], e[2].address>> \in P
        OBVIOUS
      <3> QED BY <1>1, <1>2
    <2>2. \A e, f \in L : k[e] = k[f] => e = f
      BY <1>1, <1>2, <1>4
    <2>3. \A p \in P : \E e \in L : k[e] = p
      <3> SUFFICES ASSUME NEW p \in P PROVE \E e \in L : k[e] = p
        OBVIOUS
      <3>1. p = <<p[1], p[2]>> /\ p[1] \in Authority /\ p[2] \in authority_to_details[p[1]]
        OBVIOUS
      <3>2. PICK i \in Index : authorities[i] = p[1]
        BY <1>1, <3>1
      <3>3. PICK e \in L : e[1] = i /\ e[2].address = p[2]
        BY <1>3, <3>1, <3>2
      <3> QED BY <3>1, <3>2, <3>3
    <2>4. IsFiniteSet(Authority \X Addresses)
      BY AuthorityFinite, CheckAssumption, FS_Product
    <2>5. IsFiniteSet(P)
      BY <2>4, FS_Subset
    <2>6. Cardinality(P) = TotalAddrs
      BY DEF TotalAddrs
    <2> HIDE DEF P, k
    <2>7. k \in Injection(L, P) /\ k \in Surjection(L, P)
      BY <2>1, <2>2, <2>3 DEF Injection, IsInjective, Surjection
    <2>8. IsFiniteSet(L) /\ Cardinality(L) = Cardinality(P)
      BY <2>5, <2>7, FS_Injection
    <2> QED BY <2>6, <2>8
  <1>6. \A x \in Found : \E e \in L : e[2].address = x
    <2> SUFFICES ASSUME NEW x \in Found PROVE \E e \in L : e[2].address = x
      OBVIOUS
    <2>1. PICK a \in Authority : x \in authority_to_details[a]
      BY <1>1 DEF Found, Range
    <2>2. PICK i \in Index : authorities[i] = a
      BY <1>1
    <2> QED BY <1>3, <2>1, <2>2
  <1>7. ASSUME ~Shared, NEW e \in L, NEW f \in L, e[2].address = f[2].address
        PROVE  e = f
    <2>1. e[1] = f[1]
      BY <1>2, <1>7 DEF Shared
    <2> QED BY <1>4, <1>7, <2>1
  <1> QED BY <1>2, <1>5, <1>6, <1>7 DEF EntriesCover

(* The dials that the discovery counted: each is the dial of an address    *)
(* that some authority names.                                              *)
LEMMA CountedDials ==
  ASSUME CheckInv, NEW L, IsFiniteSet(L), Cardinality(L) = TotalAddrs,
         \A x \in Found : \E e \in L : e[2].address = x
  PROVE  LET t == DialSummary(peer_ids)
         IN  t.dial_success + t.dial_failed + t.dial_pending = t.total_addrs
  <1> DEFINE S == Dialed("Success")
             F == Dialed("Failed")
             D == Addresses \ Dialed("None")
  <1>1. /\ dial_outcomes \in [Addresses -> {"None", "Success", "Failed"}]
        /\ \A x \in Addresses : dial_outcomes[x] # "None" => x \in Found
    BY DEF CheckInv, IInv, TypeOK, DialsExact
  <1>2. D = S \cup F /\ S \cap F = {} /\ D \subseteq Found /\ D \subseteq Addresses
    BY <1>1 DEF Dialed
  <1>3. IsFiniteSet(D)
    BY <1>2, CheckAssumption, FS_Subset
  <1> HIDE DEF S, F, D
  <1>4. /\ Cardinality(D) = Cardinality(S) + Cardinality(F)
        /\ Cardinality(S) \in Nat /\ Cardinality(F) \in Nat
    <2>1. IsFiniteSet(S \cup F)
      BY <1>2, <1>3
    <2>2. /\ Cardinality(S \cup F) = Cardinality(S) + Cardinality(F)
          /\ Cardinality(S) \in Nat /\ Cardinality(F) \in Nat
      BY <1>2, <2>1, TwoParts
    <2> QED BY <1>2, <2>2
  <1>5. Cardinality(D) <= Cardinality(ListedIn(L, D)) /\ Cardinality(ListedIn(L, D)) \in Nat
    BY <1>2, ListedOften
  <1>6. Cardinality(ListedIn(L, D)) <= Cardinality(L) /\ Cardinality(L) \in Nat
    BY FS_Subset, FS_CardinalityType DEF ListedIn
  <1>7. Cardinality(D) \in Nat /\ Cardinality(D) <= TotalAddrs /\ TotalAddrs \in Nat
    BY <1>4, <1>5, <1>6
  <1>8. Cardinality(D) + saturating_sub(TotalAddrs, Cardinality(D)) = TotalAddrs
    BY <1>7 DEF saturating_sub
  <1>9. /\ DialSummary(peer_ids).dial_success = Cardinality(S)
        /\ DialSummary(peer_ids).dial_failed = Cardinality(F)
        /\ DialSummary(peer_ids).dial_pending = saturating_sub(TotalAddrs, Cardinality(D))
        /\ DialSummary(peer_ids).total_addrs = TotalAddrs
    BY DEF DialSummary, S, F, D
  <1> QED BY <1>4, <1>8, <1>9

LEMMA SummariesOfReport ==
  ASSUME IsInjective(authorities), CheckInv, Printed, Report
  PROVE  SummariesAgree'
  <1>1. PICK rs : rs = [i \in Index |-> AuthorityResult(i)]
    OBVIOUS
  <1>2. report'.results = rs /\ report'.stats = compute_global_stats(rs)
    BY <1>1 DEF Report
  <1>3. /\ authority_to_details' = authority_to_details /\ dial_outcomes' = dial_outcomes
        /\ summary' = summary /\ step = "checking" /\ step' = "reported"
    BY DEF Report, vars, results, dials
  <1>4. summary = DialSummary(peer_ids) /\ peer_ids \in FirstPeerIds
    BY <1>3 DEF Printed
  <1>5. DOMAIN rs = Index
    BY <1>1
  <1>6. \A i \in Index :
          /\ rs[i].has_dht_record <=> HasRecord(authorities[i])
          /\ rs[i].identified <=> peer_ids[authorities[i]] \in peer_info
          /\ {c.address : c \in rs[i].addresses} = authority_to_details[authorities[i]]
          /\ \A c, d \in rs[i].addresses : c.address = d.address => c = d
          /\ \A c \in rs[i].addresses : /\ c.dial_outcome = dial_outcomes[c.address]
                                        /\ c.is_public = IsPublic[c.address]
    <2> TAKE i \in Index
    <2>1. rs[i] = report'.results[i]
      BY <1>2
    <2>2. /\ rs[i].has_dht_record <=> HasRecord(authorities[i])
          /\ rs[i].identified <=> peer_ids[authorities[i]] \in peer_info
      BY <1>1 DEF AuthorityResult
    <2>3. ReportComplete'
      BY ReportIsComplete
    <2> QED BY <1>3, <2>1, <2>2, <2>3 DEF ReportComplete
  <1>7. PICK L : L = Entries(rs)
    OBVIOUS
  <1>8. /\ IsFiniteSet(L) /\ Cardinality(L) = TotalAddrs
        /\ \A e \in L : e[2].address \in Addresses /\ e[1] \in Index /\ e[2] \in rs[e[1]].addresses
        /\ \A x \in Found : \E e \in L : e[2].address = x
        /\ ~Shared => \A e, f \in L : e[2].address = f[2].address => e = f
    <2>1. ListsOnce(rs)
      BY <1>5, <1>6 DEF ListsOnce
    <2>2. IsFiniteSet(L) /\ Cardinality(L) = TotalAddrs /\ EntriesCover(rs, L)
      BY <1>7, <2>1, EntriesOfReport
    <2> QED BY <2>2 DEF EntriesCover
  <1>9. \A e \in L : /\ e[2].dial_outcome = dial_outcomes[e[2].address]
                     /\ e[2].is_public \in BOOLEAN
    BY <1>6, <1>8, CheckAssumption
  <1> DEFINE s == compute_global_stats(rs)
             t == DialSummary(peer_ids)
             Public == {e \in L : e[2].is_public}
             Private == {e \in L : ~e[2].is_public}
             Outcome(o) == {e \in L : e[2].dial_outcome = o}
  <1>10. /\ s.with_dht_records = Cardinality({i \in Index : rs[i].has_dht_record})
         /\ s.identified = Cardinality({i \in Index : rs[i].identified})
         /\ s.total_addresses = Cardinality(L)
         /\ s.public_addresses = Cardinality(Public)
         /\ s.private_addresses = Cardinality(Private)
         /\ s.dial_success = Cardinality(Outcome("Success"))
         /\ s.dial_failed = Cardinality(Outcome("Failed"))
         /\ s.dial_pending = Cardinality(Outcome("None"))
    BY <1>5, <1>7 DEF compute_global_stats, Entries
  <1>11. /\ t.dht_count = Cardinality({a \in Authority : HasRecord(a)})
         /\ t.identified = Cardinality({i \in Index : HasRecord(authorities[i])
                                                      /\ peer_ids[authorities[i]] \in peer_info})
         /\ t.total_addrs = TotalAddrs
         /\ t.dial_success = Cardinality(Dialed("Success"))
         /\ t.dial_failed = Cardinality(Dialed("Failed"))
    BY DEF DialSummary
  <1> HIDE DEF s, t
  <1>12. t.dht_count = s.with_dht_records
    <2> DEFINE I == {i \in Index : rs[i].has_dht_record}
               A == {a \in Authority : HasRecord(a)}
               k == [i \in I |-> authorities[i]]
    <2>1. DOMAIN authorities = Index /\ Index = 1 .. Len(authorities) /\ Len(authorities) \in Nat
      BY DiscoveryAssumption DEF Index
    <2>2. k \in [I -> A] /\ \A i, j \in I : k[i] = k[j] => i = j
      BY <1>6, <2>1, ListedAuthority DEF IsInjective
    <2>3. \A a \in A : \E i \in I : k[i] = a
      BY <1>6, <2>1 DEF Authority, Range
    <2>4. IsFiniteSet(I)
      <3>1. IsFiniteSet(Index)
        BY <2>1, FS_Interval
      <3> QED BY <3>1, FS_Subset
    <2>5. t.dht_count = Cardinality(A) /\ s.with_dht_records = Cardinality(I)
      BY <1>10, <1>11
    <2> HIDE DEF I, A, k
    <2>6. k \in Injection(I, A) /\ k \in Surjection(I, A)
      BY <2>2, <2>3 DEF Injection, IsInjective, Surjection
    <2> QED BY <2>4, <2>5, <2>6, FS_Surjection
  <1>13. t.identified = s.identified
    <2>1. \A i \in Index : peer_ids[authorities[i]] \in peer_info => HasRecord(authorities[i])
      <3> SUFFICES ASSUME NEW i \in Index, ~HasRecord(authorities[i])
                   PROVE  peer_ids[authorities[i]] \notin peer_info
        OBVIOUS
      <3>1. PeerIds(authority_to_details[authorities[i]]) = {}
        BY DEF HasRecord, PeerIds
      <3>2. peer_ids[authorities[i]] = NoPeer
        BY <1>4, <3>1, ListedAuthority DEF FirstPeerIds
      <3> QED BY <3>2, DiscoveryAssumption DEF CheckInv, IInv, TypeOK
    <2>2. {i \in Index : rs[i].identified}
            = {i \in Index : HasRecord(authorities[i]) /\ peer_ids[authorities[i]] \in peer_info}
      BY <1>6, <2>1
    <2> QED BY <1>10, <1>11, <2>2
  <1>14. t.total_addrs = s.total_addresses
    BY <1>8, <1>10, <1>11
  <1>15. s.public_addresses + s.private_addresses = s.total_addresses
    <2>1. L = Public \cup Private /\ Public \cap Private = {}
      OBVIOUS
    <2>2. /\ s.public_addresses = Cardinality(Public) /\ s.private_addresses = Cardinality(Private)
          /\ s.total_addresses = Cardinality(L)
      BY <1>10
    <2> HIDE DEF Public, Private
    <2>3. IsFiniteSet(Public \cup Private)
      BY <1>8, <2>1
    <2>4. Cardinality(Public \cup Private) = Cardinality(Public) + Cardinality(Private)
      BY <2>1, <2>3, TwoParts
    <2> QED BY <2>1, <2>2, <2>4
  <1>16. t.dial_success + t.dial_failed + t.dial_pending = t.total_addrs
    BY <1>8, CountedDials DEF t
  <1>17. s.dial_success + s.dial_failed + s.dial_pending = t.total_addrs
    <2>1. \A e \in L : e[2].dial_outcome \in {"Success", "Failed", "None"}
      BY <1>8, <1>9 DEF CheckInv, IInv, TypeOK
    <2>2. /\ L = (Outcome("Success") \cup Outcome("Failed")) \cup Outcome("None")
          /\ Outcome("Success") \cap Outcome("Failed") = {}
          /\ Outcome("Success") \cap Outcome("None") = {}
          /\ Outcome("Failed") \cap Outcome("None") = {}
      BY <2>1
    <2> HIDE DEF Outcome
    <2>3. IsFiniteSet((Outcome("Success") \cup Outcome("Failed")) \cup Outcome("None"))
      BY <1>8, <2>2
    <2>4. Cardinality((Outcome("Success") \cup Outcome("Failed")) \cup Outcome("None"))
            = Cardinality(Outcome("Success")) + Cardinality(Outcome("Failed"))
                + Cardinality(Outcome("None"))
      BY <2>2, <2>3, ThreeParts
    <2>5. Cardinality(L) = s.dial_success + s.dial_failed + s.dial_pending
      BY <1>10, <2>2, <2>4
    <2> QED BY <1>10, <1>14, <2>5
  <1>18. ASSUME NEW o \in {"Success", "Failed"}
         PROVE  /\ Cardinality(Dialed(o)) <= Cardinality(Outcome(o))
                /\ ~Shared => Cardinality(Dialed(o)) = Cardinality(Outcome(o))
    <2>1. Outcome(o) = ListedIn(L, Dialed(o))
      BY <1>8, <1>9 DEF ListedIn, Dialed
    <2>2. Dialed(o) \subseteq Found
      BY DEF Dialed, CheckInv, IInv, DialsExact
    <2> HIDE DEF Outcome
    <2> QED BY <1>8, <2>1, <2>2, ListedOften
  <1>19. Shared' <=> Shared
    BY <1>3 DEF Shared
  <1> HIDE DEF Outcome
  <1>20. /\ t.dial_success <= s.dial_success /\ t.dial_failed <= s.dial_failed
         /\ ~Shared => t.dial_success = s.dial_success /\ t.dial_failed = s.dial_failed
    BY <1>10, <1>11, <1>18
  <1>21. report'.stats = s /\ summary' = t
    BY <1>2, <1>3, <1>4 DEF s, t
  <1> QED BY <1>12, <1>13, <1>14, <1>15, <1>16, <1>17, <1>19, <1>20, <1>21 DEF SummariesAgree

(* The two summaries that check_authorities prints, after the discovery    *)
(* and at the end, agree for any number of authorities and addresses if    *)
(* the runtime names no authority twice.                                   *)
THEOREM SummariesAddUp ==
  ASSUME IsInjective(authorities)
  PROVE  CheckSpec => []SummariesAgree
  <1>1. CheckInit => Printed /\ SummariesAgree
    BY DEF CheckInit, Printed, SummariesAgree
  <1>2. CheckInv /\ Printed /\ SummariesAgree /\ [CheckNext]_all_vars
          => Printed' /\ SummariesAgree'
    <2> SUFFICES ASSUME CheckInv, Printed, SummariesAgree, [CheckNext]_all_vars
                 PROVE  Printed' /\ SummariesAgree'
      OBVIOUS
    <2>1. ASSUME step' = "reported" PROVE SummariesAgree'
      <3>1. CASE Report
        BY <3>1, SummariesOfReport
      <3>2. CASE step = "reported" /\ UNCHANGED <<report, summary, vars>>
        BY <3>2 DEF SummariesAgree, Shared, vars, results, dials
      <3> QED BY <2>1, <3>1, <3>2, ReportIsFinal
    <2> QED BY <2>1, PrintedGood DEF SummariesAgree
  <1> QED BY <1>1, <1>2, CheckInvariant, PTL DEF CheckSpec
=============================================================================
