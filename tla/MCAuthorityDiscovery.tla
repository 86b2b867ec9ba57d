------------------------ MODULE MCAuthorityDiscovery ------------------------
(***************************************************************************)
(* Three authorities and fewer slots.  a1 and a2 publish good records, a2  *)
(* with one address that lacks a peer id; the only record filed under a3   *)
(* is signed by somebody else, so a3 is never found.                       *)
(***************************************************************************)
EXTENDS AuthorityDiscovery, TLC

CONSTANTS a1, a2, a3, stranger, p1, x1, x2, nobody

AuthorityList == <<a1, a2, a3>>

PeerIdOfAddress == (x1 :> p1) @@ (x2 :> nobody)

DhtRecord(key, signer, addresses, peer_key) ==
  [key |-> key, signer |-> signer, addresses |-> addresses, peer_key |-> peer_key]

Records ==
  {DhtRecord(a1, a1, {x1}, p1), DhtRecord(a2, a2, {x1, x2}, p1),
   DhtRecord(a3, a1, {x1}, p1), DhtRecord(stranger, stranger, {x1}, p1)}
=============================================================================
