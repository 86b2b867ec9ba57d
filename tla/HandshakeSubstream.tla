------------------------- MODULE HandshakeSubstream -------------------------
(***************************************************************************)
(* The inbound notification substream of upgrades/handshake.rs.            *)
(*                                                                         *)
(* A substream is its HandshakeInboundSubstreamState together with         *)
(* `flushed': whether the socket has really accepted and flushed our       *)
(* handshake.  `flushed' is not in the code: it records what happened on   *)
(* the wire, so that a property can compare it with what `state' claims.   *)
(*                                                                         *)
(* One call of poll_process or poll_next runs the loop of the code until   *)
(* it returns.  What the socket answers is unknown, so a call is described *)
(* by the set of its possible outcomes: the state it leaves behind and the *)
(* value it returns.  Before each turn the loop stores `Done' in the state *)
(* (mem::replace), and the returns that do not write the state again leave *)
(* that `Done' behind, whatever has been sent.                             *)
(***************************************************************************)
EXTENDS Integers

SubstreamStates ==
  {"Waiting", "Sending", "Flush", "Done", "NeedsClose", "FullyClosed"}

Substream == [state : SubstreamStates, flushed : BOOLEAN]

At(state, flushed) == [state |-> state, flushed |-> flushed]

(* What upgrade_inbound returns once it has read the remote's handshake.   *)
NewInboundSubstream == At("Waiting", FALSE)

(* What a call returns: Pending, Item (a message),                         *)
(* Err and None are the four shapes of Poll<Option<Result<..>>>.           *)
Returns == {"Pending", "Item", "Err", "None"}

Outcome(s, returned) == [substream |-> s, returned |-> returned]

(* A handshake is only taken in the Waiting state.                         *)
set_handshake(s) ==
  IF s.state = "Waiting" THEN [s EXCEPT !.state = "Sending"] ELSE s

(* Sending: poll_ready is Pending, or Ready (an error counts as ready) and *)
(* start_send fails after the state has been set to Flush.                 *)
SendStops(s) ==
  { Outcome(At("Sending", s.flushed), "Pending"),
    Outcome(At("Flush", s.flushed), "Err") }

(* Flush: poll_flush is Pending, or fails: the `?' returns with the Done   *)
(* of mem::replace in the state.                                           *)
FlushStops(s) ==
  { Outcome(At("Flush", s.flushed), "Pending"),
    Outcome(At("Done", s.flushed), "Err") }

poll_process(s) ==
  LET flushedNow == {Outcome(At("Done", TRUE), "Pending")}
  IN  CASE s.state = "Sending" -> SendStops(s) \cup FlushStops(s) \cup flushedNow
        [] s.state = "Flush"   -> FlushStops(s) \cup flushedNow
        [] OTHER               -> {Outcome(s, "Pending")}

(* NeedsClose: poll_close is Pending, fails (`?', Done is left behind) or  *)
(* succeeds, and the FullyClosed turn returns None, again leaving Done.    *)
CloseStops(flushed) ==
  { Outcome(At("NeedsClose", flushed), "Pending"),
    Outcome(At("Done", flushed), "Err"),
    Outcome(At("Done", flushed), "None") }

(* Done: nothing to read, a message, a framing error, or the end of the    *)
(* remote's writing side, which we answer by closing ours.                 *)
ReadStops(flushed) ==
  { Outcome(At("Done", flushed), r) : r \in {"Pending", "Item", "Err"} }
    \cup CloseStops(flushed)

poll_next(s) ==
  CASE s.state = "Waiting"     -> {Outcome(s, "Pending")}
    [] s.state = "Sending"     -> SendStops(s) \cup FlushStops(s) \cup ReadStops(TRUE)
    [] s.state = "Flush"       -> FlushStops(s) \cup ReadStops(TRUE)
    [] s.state = "Done"        -> ReadStops(s.flushed)
    [] s.state = "NeedsClose"  -> CloseStops(s.flushed)
    [] s.state = "FullyClosed" -> {Outcome(At("Done", s.flushed), "None")}
=============================================================================
