---------------------------- MODULE LoopContract ----------------------------
(***************************************************************************)
(* event_loop_run() as its caller in worker_pool.c sees it: it fails to    *)
(* start, or runs until the shutdown eventfd is readable, its epoll_wait() *)
(* fails or one of its own descriptors breaks, and then returns.           *)
(* EventLoop implements this, and WorkerPool is built on it.               *)
(***************************************************************************)
EXTENDS Integers

VARIABLES
  phase,      \* "setup", "running", "stopping", "returned" or "undefined"
  status,     \* what will be returned
  signalled   \* the shutdown eventfd is readable

vars == <<phase, status, signalled>>

Init == phase = "setup" /\ status = 0 /\ signalled = FALSE

Signal ==
  /\ ~signalled /\ signalled' = TRUE
  /\ UNCHANGED <<phase, status>>

StartFails ==
  /\ phase = "setup" /\ phase' = "returned" /\ status' = -1
  /\ UNCHANGED signalled

Starts ==
  /\ phase = "setup" /\ phase' = "running"
  /\ UNCHANGED <<status, signalled>>

(* With status 0 on shutdown or after an epoll_wait() error, which needs   *)
(* no signal; with -1 when its own descriptors break.                      *)
Stops ==
  /\ phase = "running" /\ phase' = "stopping"
  /\ status' \in {0, -1}
  /\ UNCHANGED signalled

Returns ==
  /\ phase = "stopping" /\ phase' = "returned"
  /\ UNCHANGED <<status, signalled>>

(* An event of a freed connection is handled: see EventLoop. *)
Undefined ==
  /\ phase = "running" /\ phase' = "undefined"
  /\ UNCHANGED <<status, signalled>>

Next == Signal \/ StartFails \/ Starts \/ Stops \/ Returns \/ Undefined

Spec == Init /\ [][Next]_vars
=============================================================================
