--------------------------- MODULE AuthorityCheck ---------------------------
(***************************************************************************)
(* check_authorities (cli/src/commands/authority_check.rs): discover and   *)
(* dial the addresses of the authorities, check every address again with a *)
(* plain TCP connection, and report.                                       *)
(*                                                                         *)
(* The command composes AuthorityDiscovery with the batches of             *)
(* run_connectivity_checks and with the report.  The names from            *)
(* IdentityNames are only printed; formatting, the log file, the JSON      *)
(* output, agent versions and timings are left out too.                    *)
(***************************************************************************)
EXTENDS AuthorityDiscovery

CONSTANTS
  MaxParallelChecks,  \* MAX_PARALLEL_CHECKS
  IsPublic,           \* is_public_address
  TcpEndpoint         \* extract_tcp_endpoint finds a host and a port

ASSUME CheckAssumption ==
  /\ MaxParallelChecks \in Nat \ {0}
  /\ IsPublic \in [Addresses -> BOOLEAN]
  /\ TcpEndpoint \in [Addresses -> BOOLEAN]
  /\ IsFiniteSet(Addresses)

VARIABLES
  step,           \* setup, discovery, checking, reported, failed
  checks,         \* addresses still to check, each with its authority's index
  in_flight,      \* those of the current batch without a result
  batch_results,  \* the results of the current batch
  grouped,        \* the results of the finished batches, per authority
  peer_ids,       \* the first peer id among an authority's addresses
  summary,        \* the counters printed after the discovery
  report          \* the results, and the statistics at the end

tcp_vars == <<checks, in_flight, batch_results, grouped>>
out_vars == <<peer_ids, summary, report>>
all_vars == <<vars, step, tcp_vars, out_vars>>

Index == 1 .. Len(authorities)

NoReport == [results |-> <<>>, failing |-> {}, stats |-> <<>>]

CheckInit ==
  /\ Init
  /\ step = "setup"
  /\ checks = {} /\ in_flight = {} /\ batch_results = {}
  /\ grouped = [i \in Index |-> {}]
  /\ peer_ids = [a \in Authority |-> NoPeer]
  /\ summary = <<>>
  /\ report = NoReport

-----------------------------------------------------------------------------
(* The URL, the address format, the genesis hash, the bootnodes, the       *)
(* authorities and the swarm: each `?' ends the command.                   *)
SetUp ==
  /\ step = "setup"
  /\ step' \in {"discovery", "failed"}
  /\ UNCHANGED <<vars, tcp_vars, out_vars>>

Discovery ==
  /\ step = "discovery"
  /\ Next
  /\ UNCHANGED <<step, tcp_vars, out_vars>>

(* The results are moved out and the swarm is dropped with its queries.    *)
(* The order of a set of addresses is fixed now: so is which peer id is    *)
(* the first one.                                                          *)
FirstPeerIds ==
  {f \in [Authority -> Peers \cup {NoPeer}] :
     \A a \in Authority :
       IF PeerIds(authority_to_details[a]) = {} THEN f[a] = NoPeer
       ELSE f[a] \in PeerIds(authority_to_details[a])}

HasRecord(a) == authority_to_details[a] # {}
Dialed(outcome) == {x \in Addresses : dial_outcomes[x] = outcome}

(* Fault: every address counts once.                                       *)
TotalAddrsDistinct == Cardinality(UNION Range(authority_to_details))

(* total_addrs counts an address once for each authority that names it,    *)
(* dial_outcomes holds it once.                                            *)
TotalAddrs ==
  Cardinality({e \in Authority \X Addresses : e[2] \in authority_to_details[e[1]]})

saturating_sub(m, n) == IF n < m THEN m - n ELSE 0

DialSummary(first) ==
  [dht_count    |-> Cardinality({a \in Authority : HasRecord(a)}),
   identified   |-> Cardinality({i \in Index : HasRecord(authorities[i])
                                               /\ first[authorities[i]] \in peer_info}),
   total_addrs  |-> TotalAddrs,
   dial_success |-> Cardinality(Dialed("Success")),
   dial_failed  |-> Cardinality(Dialed("Failed")),
   dial_pending |-> saturating_sub(TotalAddrs, Cardinality(Addresses \ Dialed("None")))]

Check(i, x) == [idx |-> i, addr |-> x]

AllChecks == {Check(i, x) : i \in Index, x \in Addresses}
PendingChecks == {c \in AllChecks : c.addr \in authority_to_details[authorities[c.idx]]}

IntoResults ==
  /\ step = "discovery" /\ phase = "done"
  /\ step' = "checking"
  /\ dht' = NewDht
  /\ \E first \in FirstPeerIds : peer_ids' = first /\ summary' = DialSummary(first)
  /\ checks' = PendingChecks
  /\ UNCHANGED <<phase, results, peer_info, dials, in_flight, batch_results,
                 grouped, report>>

-----------------------------------------------------------------------------
(* run_connectivity_checks: drain(..batch_end) takes the authorities in    *)
(* order, the addresses of one authority in any order.  A batch is no      *)
(* larger than buffer_unordered allows, so all of it is under way at once. *)
Batches ==
  {b \in SUBSET checks :
     /\ Cardinality(b) = Smaller(Cardinality(checks), MaxParallelChecks)
     /\ \A c \in b, d \in checks \ b : c.idx <= d.idx}

(* Fault: the batch is copied, not drained.                                *)
StartBatchCopies ==
  /\ step = "checking"
  /\ checks # {} /\ in_flight = {} /\ batch_results = {}
  /\ in_flight' \in Batches
  /\ UNCHANGED <<vars, step, checks, batch_results, grouped, out_vars>>

StartBatch ==
  /\ step = "checking"
  /\ checks # {} /\ in_flight = {} /\ batch_results = {}
  /\ in_flight' \in Batches
  /\ checks' = checks \ in_flight'
  /\ UNCHANGED <<vars, step, batch_results, grouped, out_vars>>

(* A connection succeeds, is refused or times out.                         *)
AddressResults(x) ==
  IF IsPublic[x] /\ TcpEndpoint[x] THEN {"Ok", "Failed"} ELSE {"Skipped"}

Checked(c, result) ==
  [idx |-> c.idx,
   check |-> [address |-> c.addr, is_public |-> IsPublic[c.addr], result |-> result,
              dial_outcome |-> "None"]]

CheckAddress(c) ==
  /\ step = "checking"
  /\ c \in in_flight
  /\ \E result \in AddressResults(c.addr) :
       batch_results' = batch_results \cup {Checked(c, result)}
  /\ in_flight' = in_flight \ {c}
  /\ UNCHANGED <<vars, step, checks, grouped, out_vars>>

(* Fault: the results of the batch replace the earlier ones.               *)
EndBatchReplaces ==
  /\ step = "checking"
  /\ in_flight = {} /\ batch_results # {}
  /\ grouped' = [i \in Index |-> {r.check : r \in {s \in batch_results : s.idx = i}}]
  /\ batch_results' = {}
  /\ UNCHANGED <<vars, step, checks, in_flight, out_vars>>

EndBatch ==
  /\ step = "checking"
  /\ in_flight = {} /\ batch_results # {}
  /\ grouped' = [i \in Index |->
                   grouped[i] \cup {r.check : r \in {s \in batch_results : s.idx = i}}]
  /\ batch_results' = {}
  /\ UNCHANGED <<vars, step, checks, in_flight, out_vars>>

-----------------------------------------------------------------------------
Enriched(check) == [check EXCEPT !.dial_outcome = dial_outcomes[check.address]]

AuthorityResult(i) ==
  LET a == authorities[i]
  IN  [peer_id        |-> peer_ids[a],
       identified     |-> peer_ids[a] \in peer_info,
       has_dht_record |-> HasRecord(a),
       addresses      |-> IF HasRecord(a) THEN {Enriched(c) : c \in grouped[i]} ELSE {}]

Tested(r) == {c \in r.addresses : c.is_public /\ c.result # "Skipped"}

(* Fault: an authority without a public address passes.                    *)
is_authority_failing_lenient(r) ==
  \/ ~r.has_dht_record
  \/ \E c \in Tested(r) : c.result = "Failed"

is_authority_failing(r) ==
  \/ ~r.has_dht_record
  \/ Tested(r) = {}
  \/ \E c \in Tested(r) : c.result = "Failed"

compute_global_stats(rs) ==
  LET Authorities(P(_)) == Cardinality({i \in DOMAIN rs : P(rs[i])})
      listed == UNION {{<<i, c>> : c \in rs[i].addresses} : i \in DOMAIN rs}
      Listed(P(_)) == Cardinality({e \in listed : P(e[2])})
      HasResult(r) == \E c \in r.addresses : c.result = "Ok"
      AllOk(r) == Tested(r) # {} /\ \A c \in Tested(r) : c.result = "Ok"
  IN  [total_authorities  |-> Cardinality(DOMAIN rs),
       with_dht_records   |-> Authorities(LAMBDA r : r.has_dht_record),
       with_peer_id       |-> Authorities(LAMBDA r : r.peer_id # NoPeer),
       identified         |-> Authorities(LAMBDA r : r.identified),
       reachable_authorities       |-> Authorities(HasResult),
       fully_reachable_authorities |-> Authorities(AllOk),
       total_addresses    |-> Cardinality(listed),
       public_addresses   |-> Listed(LAMBDA c : c.is_public),
       private_addresses  |-> Listed(LAMBDA c : ~c.is_public),
       reachable_public   |-> Listed(LAMBDA c : c.is_public /\ c.result = "Ok"),
       unreachable_public |-> Listed(LAMBDA c : c.is_public /\ c.result = "Failed"),
       dial_success       |-> Listed(LAMBDA c : c.dial_outcome = "Success"),
       dial_failed        |-> Listed(LAMBDA c : c.dial_outcome = "Failed"),
       dial_pending       |-> Listed(LAMBDA c : c.dial_outcome = "None")]

(* `failing' is what the option show_failing_only prints.                  *)
Report ==
  /\ step = "checking"
  /\ checks = {} /\ in_flight = {} /\ batch_results = {}
  /\ step' = "reported"
  /\ LET rs == [i \in Index |-> AuthorityResult(i)]
     IN  report' = [results |-> rs, stats |-> compute_global_stats(rs),
                    failing |-> {i \in Index : is_authority_failing(rs[i])}]
  /\ UNCHANGED <<vars, tcp_vars, peer_ids, summary>>

CheckNext ==
  \/ SetUp \/ Discovery \/ IntoResults
  \/ StartBatch \/ (\E c \in in_flight : CheckAddress(c)) \/ EndBatch \/ Report

(* The command goes on as long as it can: an RPC call and a connection end *)
(* or time out, and the exit timer of the discovery is a branch of a       *)
(* select that polls its branches in random order.                         *)
Progress ==
  \/ SetUp \/ IntoResults
  \/ step = "discovery" /\ (Discover \/ ExitTick)
       /\ UNCHANGED <<step, tcp_vars, out_vars>>
  \/ StartBatch \/ (\E c \in in_flight : CheckAddress(c)) \/ EndBatch \/ Report

CheckSpec == CheckInit /\ [][CheckNext]_all_vars /\ WF_all_vars(Progress)

-----------------------------------------------------------------------------
AddressCheck ==
  [address : Addresses, is_public : BOOLEAN, result : {"Ok", "Failed", "Skipped"},
   dial_outcome : {"None"}]

CheckTypeOK ==
  /\ TypeOK
  /\ step \in {"setup", "discovery", "checking", "reported", "failed"}
  /\ checks \subseteq AllChecks /\ in_flight \subseteq AllChecks
  /\ batch_results \subseteq [idx : Index, check : AddressCheck]
  /\ grouped \in [Index -> SUBSET AddressCheck]
  /\ peer_ids \in [Authority -> Peers \cup {NoPeer}]

(* The report lists exactly the addresses that the discovery found for an  *)
(* authority, each once, with the result of its own check and with the     *)
(* outcome of its own dial, in whatever batch and order it was checked.    *)
ReportComplete ==
  step = "reported" =>
    \A i \in Index :
      LET r == report.results[i]
          found == authority_to_details[authorities[i]]
      IN  /\ r.has_dht_record <=> found # {}
          /\ {c.address : c \in r.addresses} = found
          /\ \A c, d \in r.addresses : c.address = d.address => c = d
          /\ \A c \in r.addresses :
               /\ c.is_public = IsPublic[c.address]
               /\ c.result \in AddressResults(c.address)
               /\ c.dial_outcome = dial_outcomes[c.address]

(* The two definitions of a healthy authority agree: whoever is not listed *)
(* as failing is counted as fully reachable, and nobody else.              *)
VerdictsAgree ==
  step = "reported" =>
    LET s == report.stats
    IN  /\ Cardinality(report.failing) + s.fully_reachable_authorities = s.total_authorities
        /\ s.fully_reachable_authorities <= s.reachable_authorities

(* The counters printed after the discovery are those of the final summary *)
(* as long as no two authorities name the same address.  When they do, the *)
(* final summary counts its outcome for each of them, and the earlier one  *)
(* has as many more pending dials.                                         *)
Shared ==
  \E i, j \in Index :
    i # j /\ authority_to_details[authorities[i]] \cap authority_to_details[authorities[j]] # {}

SummariesAgree ==
  step = "reported" =>
    LET s == report.stats
        t == summary
    IN  /\ t.dht_count = s.with_dht_records /\ t.identified = s.identified
        /\ t.total_addrs = s.total_addresses
        /\ s.public_addresses + s.private_addresses = s.total_addresses
        /\ t.dial_success + t.dial_failed + t.dial_pending = t.total_addrs
        /\ s.dial_success + s.dial_failed + s.dial_pending = t.total_addrs
        /\ t.dial_success <= s.dial_success /\ t.dial_failed <= s.dial_failed
        /\ ~Shared => t.dial_success = s.dial_success /\ t.dial_failed = s.dial_failed

(* The command ends, with a report or with an error of its set-up.         *)
CheckCompletes == <>(step \in {"reported", "failed"})
=============================================================================
