-------------------------- MODULE MCNotifications ---------------------------
(***************************************************************************)
(* Notifications on small instances: all connections belong to one peer,   *)
(* the case in which the behaviour's per-peer state is shared.             *)
(***************************************************************************)
EXTENDS Notifications

CONSTANT peer

OnePeer == [c \in Conns |-> peer]
=============================================================================
