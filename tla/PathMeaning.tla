---------------------------- MODULE PathMeaning ----------------------------
(***************************************************************************)
(* What the path of a request means, said without a loop, and what         *)
(* StaticPaths owes to it.  A byte of a path is known by its position, a   *)
(* segment by its first and its last.                                      *)
(***************************************************************************)
EXTENDS StaticPaths, FiniteSets

(* The segments of s: the longest pieces without a slash. *)
Segs(s) ==
  {g \in (1 .. Len(s)) \X (1 .. Len(s)) :
     /\ g[1] <= g[2] /\ \A k \in g[1] .. g[2] : s[k] # Slash
     /\ g[1] = 1 \/ s[g[1] - 1] = Slash
     /\ g[2] = Len(s) \/ s[g[2] + 1] = Slash}

Is(s, g, word) == SubSeq(s, g[1], g[2]) = word

(* A path in the form the kernel reports. *)
Canonical(s) ==
  \/ s = <<Slash>>
  \/ /\ Len(s) > 1 /\ s[1] = Slash /\ s[Len(s)] # Slash
     /\ \A k \in 2 .. Len(s) : s[k - 1] # Slash \/ s[k] # Slash
     /\ \A g \in Segs(s) : ~Is(s, g, <<Dot>>) /\ ~Is(s, g, <<Dot, Dot>>)

ASSUME RootsAreCanonical == \A r \in Roots : Canonical(r)

(* s is r or something below it: it has the segments of r, where r has     *)
(* them.                                                                   *)
Under(r, s) == \A g \in Segs(r) : g \in Segs(s) /\ Is(s, g, SubSeq(r, g[1], g[2]))

Below(r, s) == Under(r, s) /\ Segs(r) # Segs(s)

(* A name given to open() fits its buffer, has no NUL in it, is canonical, *)
(* and only goes down from the root: no segment is empty, "." or "..".     *)
NamesGoDown ==
  answer = "name" =>
    /\ fs_path \in Seq(Byte) /\ Len(fs_path) < PATH_MAX
    /\ Canonical(fs_path) /\ Under(g_root, fs_path)

(* is_within_root() holds of a canonical path exactly when the root is a   *)
(* proper ancestor of it: "/srv/www-backup" is not below "/srv/www".       *)
WithinMeansBelow == Canonical(path) => (is_within_root(path) <=> Below(g_root, path))

-----------------------------------------------------------------------------
(* d is f in the order of its domain. *)
Listed(d, f) ==
  /\ Len(d) = Cardinality(DOMAIN f)
  /\ \A k \in DOMAIN f : d[Cardinality({j \in DOMAIN f : j <= k})] = f[k]

(* What comes before query and fragment. *)
Live(p) == {k \in 1 .. Len(p) : \A j \in 1 .. k : p[j] \notin {Query, Hash}}

(* Where a byte or its escape begins. *)
Starts(p) == {k \in Live(p) : \A j \in {k - 1, k - 2} \cap Live(p) : p[j] # Percent}

(* An escape stands for a byte other than NUL. *)
IsEscape(p, k) ==
  /\ k + 2 <= Len(p)
  /\ \E v \in Byte : hex_digit(p[k + 1]) = v \div 16 /\ hex_digit(p[k + 2]) = v % 16

(* The starts up to the first that is no byte and no escape. *)
Sound(p) ==
  {k \in Starts(p) :
     \A j \in Starts(p) : j <= k /\ p[j] = Percent => IsEscape(p, j)}

Bytes(p) ==
  [k \in Sound(p) |-> IF p[k] # Percent THEN p[k]
                      ELSE 16 * hex_digit(p[k + 1]) + hex_digit(p[k + 2])]

Climbs(d) == {g \in Segs(d) : Is(d, g, <<Dot, Dot>>)}

(* The segments that count, as far as the first "..". *)
Named(d) ==
  {g \in Segs(d) : ~Is(d, g, <<Dot>>) /\ \A c \in Climbs(d) : g[1] < c[1]}

(* The bytes of a name: each of its segments, and the slash before it. *)
Kept(d) ==
  [k \in {k \in 1 .. Len(d) : \E g \in Named(d) : k \in g[1] - 1 .. g[2]} |-> d[k]]

(* What open() is due for the decoded path d. *)
NameIsMeant(d) ==
  LET size == Len(prefix) + Cardinality(DOMAIN Kept(d)) IN
  IF d = <<>> \/ d[1] # Slash THEN answer = "invalid"
  ELSE IF Named(d) # {} /\ size >= PATH_MAX THEN answer = "missing"
  ELSE IF Climbs(d) # {} THEN answer = "invalid"
  ELSE IF d[Len(d)] = Slash THEN answer = "missing"
  ELSE /\ answer = "name"
       /\ IF size = 0 THEN fs_path = <<Slash>>
          ELSE /\ Len(fs_path) = size /\ SubSeq(fs_path, 1, Len(prefix)) = prefix
               /\ Listed(SubSeq(fs_path, Len(prefix) + 1, size), Kept(d))

(* p is t, but for a query.  A fragment is no query: "/hello#x" is not a   *)
(* route, although a file is looked up without it (Live).                  *)
RoutesTo(p, t) ==
  /\ Len(t) <= Len(p) /\ SubSeq(p, 1, Len(t)) = t
  /\ Len(p) = Len(t) \/ p[Len(t) + 1] = Query

(* What became of the request is what the path p asks for.  Of two things  *)
(* that are wrong with it the first decides.                               *)
IsMeant(p) ==
  IF RoutesTo(p, <<Slash>>) \/ RoutesTo(p, HELLO) THEN answer = "builtin"
  ELSE IF Cardinality(Sound(p)) >= PATH_MAX THEN answer = "missing"
  ELSE IF Sound(p) # Starts(p) THEN answer = "invalid"
  ELSE Listed(decoded, Bytes(p)) /\ NameIsMeant(decoded)

(* The loops of decode_path() and join_under_root() give open() the name   *)
(* that the path means, or the answer that is due: every escape decoded    *)
(* once, "." and empty segments dropped, ".." refused, nothing truncated.  *)
OpensWhatIsMeant == pc = "done" => IsMeant(path)
=============================================================================
