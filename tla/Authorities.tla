---------------------------- MODULE Authorities ----------------------------
(***************************************************************************)
(* The authorities of the chain, as runtime_api_autorities returns them    *)
(* (cli/src/commands/authorities.rs): a Vec of public keys, in the order   *)
(* in which they are asked for, checked and reported.                      *)
(***************************************************************************)
EXTENDS Sequences, Functions

CONSTANT authorities

Authority == Range(authorities)
=============================================================================
