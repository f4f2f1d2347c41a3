--------------------------- MODULE RequestGrammar ---------------------------
(***************************************************************************)
(* What a request is, said without a state machine: lines, fields and      *)
(* tokens, the way http_parser.h and the comments of http_parser.c         *)
(* describe them, and what ByteFeed owes to it.  A line, a field or a      *)
(* token of s is the pair of its first and its last position.              *)
(***************************************************************************)
EXTENDS ByteFeed, FiniteSets

Blank == {SP, HT}

(* The characters the grammar is made of are different ones, every token   *)
(* has a spelling that fits, and no token says two things.                 *)
ASSUME GrammarAssumption ==
  /\ CR # LF /\ Blank \cap {Colon, Comma, CR, LF} = {}
  /\ {Colon, Comma} \cap {CR, LF} = {}
  /\ MethodChar # {} /\ HTTP_METHOD_MAX > 1
  /\ PathChar # {} /\ HTTP_PATH_MAX > 1
  /\ DOMAIN Versions # {}
  /\ \A v \in DOMAIN Versions : v \in Seq(VersionChar) /\ Len(v) < VERSION_MAX
  /\ CloseTokens \cap KeepAliveTokens = {}

All(s, b, e, class) == \A i \in b .. e : s[i] \in class

(* A token fits its buffer with the NUL. *)
IsToken(s, b, e, class, size) ==
  b <= e /\ e - b + 1 < size /\ All(s, b, e, class)

(* Every CR is followed by a LF and every LF follows a CR. *)
Terminated(s) ==
  /\ Len(s) > 0 /\ s[Len(s)] = LF
  /\ \A i \in 1 .. Len(s) : s[i] = LF <=> i > 1 /\ s[i - 1] = CR

Breaks(s) == {i \in 1 .. Len(s) : s[i] = LF}

StartsLine(s, b) == b = 1 \/ s[b - 1] = LF

IsLine(s, b, e) ==
  StartsLine(s, b) /\ s[e + 1] = CR /\ \A i \in b .. e : s[i] \notin {CR, LF}

(* method SP path SP version *)
IsRequestLine(s, b, e) ==
  \E x, y \in b .. e :
    /\ s[x] = SP /\ IsToken(s, b, x - 1, MethodChar, HTTP_METHOD_MAX)
    /\ s[y] = SP /\ IsToken(s, x + 1, y - 1, PathChar, HTTP_PATH_MAX)
    /\ SubSeq(s, y + 1, e) \in DOMAIN Versions

(* The value begins after the colon and the blanks; name and value share a *)
(* buffer.                                                                 *)
IsHeader(s, b, e) ==
  \E k \in b .. e : \E v \in k + 1 .. e + 1 :
    /\ s[k] = Colon /\ IsToken(s, b, k - 1, NameChar, HTTP_HEADER_LINE_MAX)
    /\ All(s, k + 1, v - 1, Blank) /\ (v <= e => s[v] \notin Blank)
    /\ All(s, v, e, ValueChar)
    /\ (k - b) + (e - v + 1) < HTTP_HEADER_LINE_MAX

(* A request line, headers, an empty line, and nothing after it. *)
IsRequest(s) ==
  /\ Terminated(s) /\ Len(s) > 2 /\ s[Len(s) - 2] = LF
  /\ Cardinality(Breaks(s)) <= HTTP_MAX_HEADERS + 2
  /\ \A b \in 1 .. Len(s) - 2 : StartsLine(s, b) =>
       \E e \in b .. Len(s) - 2 :
         /\ IsLine(s, b, e)
         /\ IF b = 1 THEN IsRequestLine(s, b, e) ELSE IsHeader(s, b, e)

-----------------------------------------------------------------------------
(* Where the value of a Connection header lies: its colon and its end. *)
ConnectionValues(s) ==
  {r \in (1 .. Len(s) - 1) \X (1 .. Len(s) - 1) :
     /\ r[1] <= r[2] /\ s[r[1]] = Colon
     /\ \E b \in 2 .. r[1] :
          /\ IsLine(s, b, r[2]) /\ Colon \notin {s[i] : i \in b .. r[1] - 1}
          /\ SubSeq(s, b, r[1] - 1) \in ConnectionNames}

(* [a, z] is what is left of a piece between commas without the blanks     *)
(* around it.                                                              *)
IsPiece(s, k, e, a, z) ==
  \E l \in k .. a - 1 : \E r \in z + 1 .. e + 1 :
    /\ l = k \/ s[l] = Comma
    /\ r = e + 1 \/ s[r] = Comma
    /\ \A i \in l + 1 .. r - 1 : s[i] # Comma
    /\ All(s, l + 1, a - 1, Blank) /\ All(s, z + 1, r - 1, Blank)
    /\ s[a] \notin Blank /\ s[z] \notin Blank

(* The Connection tokens of a request that the server knows. *)
KnownTokens(s) ==
  {t \in (1 .. Len(s)) \X (1 .. Len(s)) :
     /\ t[1] <= t[2]
     /\ SubSeq(s, t[1], t[2]) \in CloseTokens \cup KeepAliveTokens
     /\ \E v \in ConnectionValues(s) : IsPiece(s, v[1], v[2], t[1], t[2])}

(* The version of a request ends its first line. *)
VersionOf(s) ==
  CHOOSE v \in DOMAIN Versions :
    \E y, e \in 1 .. Len(s) - 1 :
      y <= e /\ IsLine(s, 1, e) /\ s[y] = SP /\ v = SubSeq(s, y + 1, e)
        /\ All(s, y + 1, e, VersionChar)

(* The last token the server knows decides; without one HTTP/1.1 and later *)
(* default to a persistent connection (http_parser.h).                     *)
Persists(s) ==
  LET known == KnownTokens(s)
      last  == CHOOSE t \in known : \A u \in known : u[1] <= t[1]
      http  == Versions[VersionOf(s)]
  IN IF known # {} THEN SubSeq(s, last[1], last[2]) \in KeepAliveTokens
     ELSE http[1] > 1 \/ (http[1] = 1 /\ http[2] >= 1)

(* Nothing but a major version after 1 says that s persists. *)
LaterByDefault(s) == KnownTokens(s) = {} /\ Versions[VersionOf(s)][1] > 1

-----------------------------------------------------------------------------
(* A shortest request. *)
Shortest ==
  <<CHOOSE c \in MethodChar : TRUE, SP, CHOOSE c \in PathChar : TRUE, SP>>
    \o (CHOOSE v \in DOMAIN Versions : TRUE) \o <<CR, LF, CR, LF>>

(* What is left to send of a shortest request, by where s is: in the first *)
(* line, between CR and LF, or at a place of a later line.  A string that  *)
(* can become a request becomes one with one of these.                     *)
Endings(s) ==
  CASE \A i \in 1 .. Len(s) : s[i] # CR ->
         {SubSeq(Shortest, i, Len(Shortest)) : i \in 1 .. Len(Shortest)}
    [] Len(s) > 0 /\ s[Len(s)] = CR -> {<<LF>>, <<LF, CR, LF>>}
    [] OTHER -> {<<>>, <<CR, LF>>, <<CR, LF, CR, LF>>, <<Colon, CR, LF, CR, LF>>}

CanBecomeRequest(s) == \E e \in Endings(s) : IsRequest(s \o e)

(* The parser reports COMPLETE on the byte that makes its input a request, *)
(* and on no other.                                                        *)
CompleteIsRequest == parser.state = "DONE" <=> IsRequest(fed)

(* The parser gives up at the first byte after which its input cannot      *)
(* become a request any more, never before it and never later, except that *)
(* the version is only looked at when its line ends.                       *)
GivesUpInTime ==
  /\ parser.state = "ERROR" => ~CanBecomeRequest(fed)
  /\ parser.state \notin {"ERROR", "VERSION"} => CanBecomeRequest(fed)

(* A complete request persists exactly when its last known Connection      *)
(* token says so, over all its headers, or without one its version does:   *)
(* note_connection_header() and http_parser_should_keep_alive().  Nothing  *)
(* is said of the default after HTTP/1.x: see the next property.           *)
PersistsAsAsked ==
  parser.state = "DONE" /\ ~LaterByDefault(fed)
    => http_parser_should_keep_alive(parser) = Persists(fed)

(* What http_parser.h says of http_parser_should_keep_alive(), for every   *)
(* version: "HTTP/1.1 and later default to a persistent connection unless  *)
(* the client asks to close it".                                           *)
PersistsAsDocumented ==
  parser.state = "DONE" => http_parser_should_keep_alive(parser) = Persists(fed)
=============================================================================
