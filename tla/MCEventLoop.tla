---------------------------- MODULE MCEventLoop ----------------------------
(* Instances of EventLoop for TLC. *)
EXTENDS EventLoop, TLC

Symmetry == Permutations(Addrs)

(* A clock that is never set, and one set back by a tick. *)
NeverSet == {0}
SetBack  == {-1}
=============================================================================
