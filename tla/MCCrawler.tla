------------------------------ MODULE MCCrawler ------------------------------
(***************************************************************************)
(* Two peers that may share addresses; the one that is not hunted is a     *)
(* bootnode.  The two histories of what was told are the only unbounded    *)
(* counters and are bounded by the guards.                                 *)
(***************************************************************************)
EXTENDS Crawler

CONSTANTS t, q, x1, x2

BootnodeAddresses == [p \in Peers |-> IF p = q THEN {x1} ELSE {}]
=============================================================================
