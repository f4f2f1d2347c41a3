---------------------------- MODULE HttpExchange ----------------------------
(***************************************************************************)
(* What a connection promises its client, with no socket, no buffer and no *)
(* event loop: the client sends bytes, the server answers the requests     *)
(* among them one after the other, and at some point one of the two ends   *)
(* it.  Connection implements this (README, "Refinement").                 *)
(***************************************************************************)
EXTENDS Replies

VARIABLES
  stream,  \* what the client has sent
  out,     \* what the server has answered
  open     \* the connection is still there

vars == <<stream, out, open>>

Init == stream = <<>> /\ out = <<>> /\ open = TRUE

Send ==
  /\ open
  /\ \E b \in Byte : stream' = Append(stream, b)
  /\ UNCHANGED <<out, open>>

(* Some more of the answers, never taking back what was already sent. *)
Answer ==
  /\ open
  /\ Len(out') > Len(out)
  /\ SubSeq(out', 1, Len(out)) = out
  /\ RepliesInOrder(stream, out')
  /\ UNCHANGED <<stream, open>>

End ==
  /\ open /\ open' = FALSE
  /\ UNCHANGED <<stream, out>>

Next == Send \/ Answer \/ End

Spec == Init /\ [][Next]_vars
=============================================================================
