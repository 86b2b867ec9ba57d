--------------------------- MODULE CommandChannel ---------------------------
(***************************************************************************)
(* The command channel from a backend to its background task, and the      *)
(* pending_actions that send through it.  Both backends have this pair.    *)
(*                                                                         *)
(* A tokio channel hands out its places first come, first served: a place  *)
(* that becomes free is given to the sender that waits longest, whether or *)
(* not anybody polls that sender.  The user waits in a call of its own;    *)
(* the actions are polled by poll_next and by nothing else, so an action   *)
(* keeps the place it was granted until the next poll_next.                *)
(*                                                                         *)
(* All actions send AddKnownAddress, so they are told apart only by what   *)
(* they are: fresh (never polled) and granted ones are ready, in the order *)
(* in which FuturesUnordered will poll them; the others wait.              *)
(***************************************************************************)
EXTENDS Naturals, Sequences, FiniteSetsExt

CONSTANT CommandBuffer       \* capacity of the channel

ASSUME ChannelAssumption == CommandBuffer \in Nat \ {0}

Commands == {"AddKnownAddress", "FindNode"}

Channel == [queue : Seq(Commands), ready : Seq({"fresh", "granted"}),
            waiting : Seq({"action", "user"}), user : {"idle", "waiting", "granted"}]

NewChannel == [queue |-> << >>, ready |-> << >>, waiting |-> << >>, user |-> "idle"]

GrantedActions(ch) == Cardinality({k \in DOMAIN ch.ready : ch.ready[k] = "granted"})

Granted(ch) == GrantedActions(ch) + (IF ch.user = "granted" THEN 1 ELSE 0)

Room(ch) == Len(ch.queue) + Granted(ch) < CommandBuffer

(* One poll of the user's send(command): is it done, and what it leaves.   *)
Sent(ch) == ch.user = "granted" \/ Room(ch)

Send(ch, command) ==
  IF Sent(ch) THEN [ch EXCEPT !.queue = Append(@, command), !.user = "idle"]
              ELSE [ch EXCEPT !.waiting = Append(@, "user"), !.user = "waiting"]

(* recv by the background task.                                            *)
Recv(ch) ==
  LET rest == [ch EXCEPT !.queue = Tail(@)]
  IN  IF ch.waiting = << >> THEN rest
      ELSE [rest EXCEPT !.waiting = Tail(@),
              !.ready = IF Head(ch.waiting) = "action" THEN Append(@, "granted") ELSE @,
              !.user = IF Head(ch.waiting) = "user" THEN "granted" ELSE @]

(* pending_actions.push                                                    *)
PushAction(ch) == [ch EXCEPT !.ready = Append(@, "fresh")]

(* pending_actions.poll_next_unpin: polls ready actions until one is done. *)
PollActions(ch) ==
  LET able == {k \in DOMAIN ch.ready : ch.ready[k] = "granted" \/ Room(ch)}
      WithWaiters(n) == ch.waiting \o [k \in 1 .. n |-> "action"]
  IN  IF able = {}
      THEN [ch EXCEPT !.ready = << >>, !.waiting = WithWaiters(Len(ch.ready))]
      ELSE LET done == Min(able)
           IN  [ch EXCEPT !.ready = SubSeq(@, done + 1, Len(@)),
                          !.waiting = WithWaiters(done - 1),
                          !.queue = Append(@, "AddKnownAddress")]
=============================================================================
