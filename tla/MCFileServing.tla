--------------------------- MODULE MCFileServing ---------------------------
(* Two workers, two connections of one and one of the other, four          *)
(* descriptors for them: the table fills up.  Two regular files and a      *)
(* directory behind one name.                                              *)
EXTENDS FileServing, TLC

CONSTANTS w1, w2, c1, c2, c3, n1, f1, f2, dir, d1, d2, d3, d4

MCWorkerOf == (c1 :> w1) @@ (c2 :> w1) @@ (c3 :> w2)
Symmetry   == Permutations(Fd) \cup Permutations(Regular) \cup Permutations({c1, c2})
=============================================================================
