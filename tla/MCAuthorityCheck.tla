-------------------------- MODULE MCAuthorityCheck --------------------------
(***************************************************************************)
(* Three authorities and fewer slots.  a1 and a2 publish good records with *)
(* a common address, a2 with one address that lacks a peer id and a second *)
(* record of another peer; the only record filed under a3 is signed by     *)
(* somebody else, so a3 is never found.                                    *)
(***************************************************************************)
EXTENDS AuthorityCheck, TLC

CONSTANTS a1, a2, a3, stranger, p1, p2, x1, x2, x3, nobody

AuthorityList == <<a1, a2, a3>>

PeerIdOfAddress == (x1 :> p1) @@ (x2 :> nobody) @@ (x3 :> p2)

DhtRecord(key, signer, addresses, peer_key) ==
  [key |-> key, signer |-> signer, addresses |-> addresses, peer_key |-> peer_key]

Records ==
  {DhtRecord(a1, a1, {x1}, p1), DhtRecord(a2, a2, {x1, x2}, p1),
   DhtRecord(a2, a2, {x3}, p2),
   DhtRecord(a3, a1, {x1}, p1), DhtRecord(stranger, stranger, {x1}, p1)}

(* x1 can be checked, x2 is private, x3 is public without a TCP port.      *)
Public   == (x1 :> TRUE) @@ (x2 :> FALSE) @@ (x3 :> TRUE)
Endpoint == (x1 :> TRUE) @@ (x2 :> TRUE) @@ (x3 :> FALSE)
=============================================================================
