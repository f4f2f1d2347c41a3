---------------------------- MODULE StaticPaths ----------------------------
(***************************************************************************)
(* From the path of a request to the name given to open(), and back from a *)
(* canonical path to "is it below the root": static_files.c up to open(),  *)
(* and path_is() and route_request() of event_loop.c.  One behaviour is    *)
(* the routing of one request; a turn of a loop is a step.  Bytes are      *)
(* their codes, paths are sequences of bytes.                              *)
(***************************************************************************)
EXTENDS Integers, Sequences

CONSTANTS
  PATH_MAX,  \* the size of every path buffer
  HELLO,     \* the bytes of "/hello"
  Roots,     \* what realpath() may make of the root
  Paths      \* the paths requests may have

VARIABLES
  g_root,    \* what static_files_init() made of the root: absolute, canonical
  path,      \* the path of the request
  pc,        \* where its routing is: "route", "decode", "join" or "done"
  i,         \* the index of the loop it is in
  decoded,   \* out of decode_path()
  fs_path,   \* out of join_under_root()
  answer     \* what becomes of the request: a target of FileServing

vars == <<g_root, path, pc, i, decoded, fs_path, answer>>

Slash == 47
Dot == 46
Percent == 37
Query == 63
Hash == 35

(* No byte of a path is NUL: http_parser.c takes none into one, and         *)
(* realpath() returns a C string, absolute and shorter than PATH_MAX.       *)
Byte == 1 .. 255

ASSUME StaticPathsAssumption ==
  /\ PATH_MAX \in Nat
  /\ Paths \subseteq Seq(Byte)
  /\ HELLO \in Seq(Byte) /\ \A k \in DOMAIN HELLO : HELLO[k] # Query
  /\ \A r \in Roots : r \in Seq(Byte) /\ r # <<>> /\ Len(r) < PATH_MAX

hex_digit(c) ==
  CASE c \in 48 .. 57  -> c - 48
    [] c \in 97 .. 102 -> c - 97 + 10
    [] c \in 65 .. 70  -> c - 65 + 10
    [] OTHER           -> -1

Return(a) == pc' = "done" /\ answer' = a

-----------------------------------------------------------------------------
(* path_is(): the query is not part of the route, a fragment is. *)
path_is(target) ==
  LET queries == {k \in DOMAIN path : path[k] = Query}
      len     == IF queries = {} THEN Len(path)
                 ELSE (CHOOSE k \in queries : \A j \in queries : k <= j) - 1
  IN SubSeq(path, 1, len) = target

route_request ==
  /\ pc = "route"
  /\ IF path_is(<<Slash>>) \/ path_is(HELLO) THEN Return("builtin")
     ELSE pc' = "decode" /\ UNCHANGED answer
  /\ UNCHANGED <<g_root, path, i, decoded, fs_path>>

-----------------------------------------------------------------------------
(* decode_path() *)

InPath == i <= Len(path) /\ path[i] \notin {Query, Hash}

(* Mutant: an escape may not end the path. *)
TruncatedAtEnd == i + 2 >= Len(path)

(* The path ends inside the escape at i. *)
Truncated == i + 2 > Len(path)

(* What the byte at i stands for: -1 if its escape is malformed, and NUL   *)
(* counts as malformed.                                                    *)
Meaning ==
  IF path[i] # Percent THEN path[i]
  ELSE IF Truncated THEN -1
  ELSE LET hi == hex_digit(path[i + 1])
           lo == hex_digit(path[i + 2])
       IN IF hi < 0 \/ lo < 0 \/ (hi = 0 /\ lo = 0) THEN -1 ELSE 16 * hi + lo

decode_byte ==
  /\ pc = "decode" /\ InPath
  /\ IF Meaning = -1 THEN Return("invalid") /\ UNCHANGED <<i, decoded>>
     ELSE IF Len(decoded) + 1 >= PATH_MAX
     THEN Return("missing") /\ UNCHANGED <<i, decoded>>
     ELSE /\ decoded' = Append(decoded, Meaning)
          /\ i' = i + (IF path[i] = Percent THEN 3 ELSE 1)
          /\ UNCHANGED <<pc, answer>>
  /\ UNCHANGED <<g_root, path, fs_path>>

-----------------------------------------------------------------------------
(* join_under_root() *)

(* The root that segments are appended to: "/" ends in its own separator.  *)
prefix == IF g_root = <<Slash>> THEN <<>> ELSE g_root

begin_join ==
  /\ pc = "decode" /\ ~InPath
  /\ IF decoded = <<>> \/ decoded[1] # Slash
     THEN Return("invalid") /\ UNCHANGED <<i, fs_path>>
     ELSE IF Len(prefix) >= PATH_MAX THEN Return("missing") /\ UNCHANGED <<i, fs_path>>
     ELSE pc' = "join" /\ i' = 1 /\ fs_path' = prefix /\ UNCHANGED answer
  /\ UNCHANGED <<g_root, path, decoded>>

(* The next segment is [b, e]. *)
NextSegment(b, e) ==
  /\ \A k \in i .. b - 1 : decoded[k] = Slash
  /\ \A k \in b .. e : decoded[k] # Slash
  /\ e < Len(decoded) => decoded[e + 1] = Slash

(* Mutant: ".." is looked for only where it is the last segment. *)
LastOnly(b, e) == SubSeq(decoded, b, e) = <<Dot, Dot>> /\ e = Len(decoded)

IsDotDot(b, e) == SubSeq(decoded, b, e) = <<Dot, Dot>>

join_segment ==
  /\ pc = "join"
  /\ \E b \in i .. Len(decoded) : \E e \in b .. Len(decoded) :
       LET seg == SubSeq(decoded, b, e) IN
       /\ NextSegment(b, e)
       /\ IF seg = <<Dot>>
          THEN i' = e + 1 /\ UNCHANGED <<pc, fs_path, answer>>
          ELSE IF IsDotDot(b, e) THEN Return("invalid") /\ UNCHANGED <<i, fs_path>>
          ELSE IF Len(fs_path) + 1 + Len(seg) >= PATH_MAX
          THEN Return("missing") /\ UNCHANGED <<i, fs_path>>
          ELSE /\ fs_path' = Append(fs_path, Slash) \o seg
               /\ i' = e + 1
               /\ UNCHANGED <<pc, answer>>
  /\ UNCHANGED <<g_root, path, decoded>>

(* No segment is left: back in static_file_open(), which has no name for   *)
(* what ends in a slash.                                                   *)
end_join ==
  /\ pc = "join" /\ \A k \in i .. Len(decoded) : decoded[k] = Slash
  /\ fs_path' = IF fs_path = <<>> THEN <<Slash>> ELSE fs_path
  /\ Return(IF decoded[Len(decoded)] = Slash THEN "missing" ELSE "name")
  /\ UNCHANGED <<g_root, path, i, decoded>>

-----------------------------------------------------------------------------
(* Mutant: strncmp() alone. *)
StartsWithRoot(canonical) ==
  /\ Len(canonical) >= Len(g_root)
  /\ SubSeq(canonical, 1, Len(g_root)) = g_root

is_within_root(canonical) ==
  /\ Len(canonical) >= Len(g_root)
  /\ SubSeq(canonical, 1, Len(g_root)) = g_root
  /\ IF g_root = <<Slash>> THEN Len(canonical) > 1
     ELSE Len(canonical) > Len(g_root) /\ canonical[Len(g_root) + 1] = Slash

-----------------------------------------------------------------------------
Init ==
  /\ g_root \in Roots /\ path \in Paths
  /\ pc = "route" /\ i = 1 /\ decoded = <<>> /\ fs_path = <<>> /\ answer = "none"

Next == route_request \/ decode_byte \/ begin_join \/ join_segment \/ end_join

Spec == Init /\ [][Next]_vars
=============================================================================
