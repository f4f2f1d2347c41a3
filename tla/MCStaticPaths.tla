--------------------------- MODULE MCStaticPaths ---------------------------
(* Every path of a slash and up to MaxUnits units, and some that begin     *)
(* otherwise; a unit is a byte, a short name, or an escape, whole or cut   *)
(* short.                                                                  *)
EXTENDS PathMeaning, SequencesExt

CONSTANT MaxUnits

e == 101
Units ==
  {<<Slash>>, <<Dot>>, <<e>>, <<e, e>>, <<Percent>>, <<Query>>, <<Hash>>,
   <<Percent, 50, e>>, <<Percent, 50, 70>>, <<Percent, 48, 48>>}

MCRoots == {<<Slash, e>>, <<Slash>>}
MCHello == <<Slash, e, e>>
UpTo(n) == {FlattenSeq(us) : us \in UNION {[1 .. k -> Units] : k \in 0 .. n}}
MCPaths == {<<Slash>> \o rest : rest \in UpTo(MaxUnits)} \cup (UpTo(2) \ {<<>>})
=============================================================================
