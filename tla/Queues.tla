------------------------------- MODULE Queues -------------------------------
(***************************************************************************)
(* What the invariants say of the FIFO queues between the parts of the     *)
(* program: handler events, commands, channels.                            *)
(***************************************************************************)
EXTENDS Integers, Sequences

(* x is somewhere in a queue.                                              *)
In(x, seq) == \E k \in DOMAIN seq : seq[k] = x

(* x is in a queue at most once.                                           *)
Once(x, seq) == \A k, l \in DOMAIN seq : seq[k] = x /\ seq[l] = x => k = l

(* Every b in the queue has an a before it.                                *)
Led(b, a, seq) ==
  \A k \in DOMAIN seq : seq[k] = b => \E j \in DOMAIN seq : j < k /\ seq[j] = a
=============================================================================
