----------------------------- MODULE HttpParser -----------------------------
(***************************************************************************)
(* The request parser of http_parser.c, one byte at a time: the fields of  *)
(* http_request_parser_t and what one turn of the loop in                  *)
(* http_parser_execute() does to them.                                     *)
(*                                                                         *)
(* A byte is known by the character classes it is in.  The words the code  *)
(* spells out ("GET", "HTTP/1.1", "Connection", "close", "keep-alive") are *)
(* constants: sequences of bytes of any length, in every case the code     *)
(* accepts.  A buffer and its length field are one sequence; the NUL after *)
(* it is why it may hold only its size less one.                           *)
(***************************************************************************)
EXTENDS Integers, Sequences

CONSTANTS
  Byte, SP, HT, CR, LF, Colon, Comma,
  MethodChar, PathChar, VersionChar, NameChar, ValueChar,
  Methods,          \* the known spellings, each with its http_method_t
  Versions,         \* the spellings of HTTP/d.d, each with <<major, minor>>
  ConnectionNames,  \* the spellings of the header name Connection
  CloseTokens, KeepAliveTokens,
  HTTP_METHOD_MAX, HTTP_PATH_MAX, VERSION_MAX, HTTP_HEADER_LINE_MAX,
  HTTP_MAX_HEADERS

MethodIds == {"GET", "POST", "PUT", "DELETE", "HEAD", "OPTIONS", "PATCH", "OTHER"}

ASSUME HttpParserAssumption ==
  /\ {SP, HT, CR, LF, Colon, Comma} \subseteq Byte
  /\ MethodChar \cup PathChar \cup VersionChar \cup NameChar \cup ValueChar
       \subseteq Byte \ {CR, LF}
  /\ SP \notin MethodChar \cup PathChar \cup VersionChar
  /\ {SP, HT, Colon} \cap NameChar = {} /\ {SP, HT} \subseteq ValueChar
  /\ HTTP_METHOD_MAX \in Nat \ {0} /\ HTTP_PATH_MAX \in Nat \ {0}
  /\ VERSION_MAX \in Nat \ {0} /\ HTTP_HEADER_LINE_MAX \in Nat \ {0, 1}
  /\ HTTP_MAX_HEADERS \in Nat
  /\ \A m \in DOMAIN Methods : Methods[m] \in MethodIds
  /\ \A v \in DOMAIN Versions : Versions[v] \in Nat \X Nat

States == {"METHOD", "PATH", "VERSION", "REQUEST_LINE_LF", "HEADER_LINE_START",
           "HEADER_NAME", "HEADER_VALUE_SP", "HEADER_VALUE", "HEADER_LF",
           "HEADERS_END_LF", "DONE", "ERROR"}
Terminal == {"DONE", "ERROR"}
Directives == {"UNSPECIFIED", "CLOSE", "KEEPALIVE"}

Parser ==
  [state : States, method : Seq(Byte), method_id : MethodIds, path : Seq(Byte),
   version : Seq(Byte), http : Nat \X Nat, header_line : Seq(Byte),
   header_name_len : Nat, header_count : Nat, connection_directive : Directives]

(* http_parser_init(): all zeros, and the zeros mean something. *)
Fresh ==
  [state |-> "METHOD", method |-> <<>>, method_id |-> "GET", path |-> <<>>,
   version |-> <<>>, http |-> <<0, 0>>, header_line |-> <<>>,
   header_name_len |-> 0, header_count |-> 0,
   connection_directive |-> "UNSPECIFIED"]

classify_method(m) == IF m \in DOMAIN Methods THEN Methods[m] ELSE "OTHER"

header_name_is(p, names) == SubSeq(p.header_line, 1, p.header_name_len) \in names

(* Mutant: the first recognised token wins. *)
FirstTokenWins(mine, later) ==
  IF mine \in {"CLOSE", "KEEPALIVE"} THEN mine ELSE later

(* The last recognised token wins. *)
TokenWins(mine, later) ==
  IF later \in {"CLOSE", "KEEPALIVE"} THEN later ELSE mine

(* Where a loop over the bytes of class that starts at k stops: at the     *)
(* first other byte, at the latest at the NUL.                             *)
Past(v, k, class) ==
  CHOOSE m \in k .. Len(v) + 1 :
    /\ m <= Len(v) => v[m] \notin class
    /\ \A i \in k .. m - 1 : v[i] \in class

(* The token from a up to the comma, or the NUL, at b: it loses the blanks *)
(* at its end.                                                             *)
Trimmed(v, a, b) ==
  SubSeq(v, a, CHOOSE m \in a - 1 .. b - 1 :
                 /\ a <= m => v[m] \notin {SP, HT}
                 /\ \A i \in m + 1 .. b - 1 : v[i] \in {SP, HT})

Meaning(token) ==
  CASE token \in CloseTokens     -> "CLOSE"
    [] token \in KeepAliveTokens -> "KEEPALIVE"
    [] OTHER                     -> "UNSPECIFIED"

(* What the tokens of v from position k on say: skip separators, take a    *)
(* token up to the next comma, compare it, go on.                          *)
Scan(v) ==
  LET scan[k \in 1 .. Len(v) + 1] ==
        LET a == Past(v, k, {SP, HT, Comma})
            b == Past(v, a, Byte \ {Comma})
        IN IF a > Len(v) THEN "UNSPECIFIED"
           ELSE TokenWins(Meaning(Trimmed(v, a, b)), scan[b])
  IN scan

note_connection_header(p) ==
  LET value == SubSeq(p.header_line, p.header_name_len + 1, Len(p.header_line))
  IN TokenWins(p.connection_directive, Scan(value)[1])

-----------------------------------------------------------------------------
(* The cases of the switch. *)

Fail(p) == [p EXCEPT !.state = "ERROR"]
Goto(p, s) == [p EXCEPT !.state = s]

(* Mutant: the terminating NUL is forgotten. *)
HoldsNoNul(buf, size) == Len(buf) < size

(* There is room in the buffer for one more byte and the NUL. *)
Holds(buf, size) == Len(buf) < size - 1

in_method(p, c) ==
  CASE c = SP /\ p.method # <<>> ->
         [p EXCEPT !.method_id = classify_method(p.method), !.state = "PATH"]
    [] c \in MethodChar /\ Holds(p.method, HTTP_METHOD_MAX) ->
         [p EXCEPT !.method = Append(@, c)]
    [] OTHER -> Fail(p)

in_path(p, c) ==
  CASE c = SP /\ p.path # <<>> -> Goto(p, "VERSION")
    [] c \in PathChar /\ Holds(p.path, HTTP_PATH_MAX) ->
         [p EXCEPT !.path = Append(@, c)]
    [] OTHER -> Fail(p)

in_version(p, c) ==
  CASE c = CR /\ p.version \in DOMAIN Versions ->
         [p EXCEPT !.http = Versions[p.version], !.state = "REQUEST_LINE_LF"]
    [] c \in VersionChar /\ Holds(p.version, VERSION_MAX) ->
         [p EXCEPT !.version = Append(@, c)]
    [] OTHER -> Fail(p)

MoreHeaders(p) == p.header_count < HTTP_MAX_HEADERS

(* Mutant: the CR of the blank line ends the request, its LF is left over. *)
done_at_cr(p, c) ==
  CASE c = CR -> Goto(p, "DONE")
    [] c \in NameChar /\ MoreHeaders(p) ->
         [p EXCEPT !.header_line = <<c>>, !.state = "HEADER_NAME"]
    [] OTHER -> Fail(p)

at_line_start(p, c) ==
  CASE c = CR -> Goto(p, "HEADERS_END_LF")
    [] c \in NameChar /\ MoreHeaders(p) ->
         [p EXCEPT !.header_line = <<c>>, !.state = "HEADER_NAME"]
    [] OTHER -> Fail(p)

in_header_name(p, c) ==
  CASE c = Colon -> [p EXCEPT !.header_name_len = Len(p.header_line),
                              !.state = "HEADER_VALUE_SP"]
    [] c \in NameChar /\ Holds(p.header_line, HTTP_HEADER_LINE_MAX) ->
         [p EXCEPT !.header_line = Append(@, c)]
    [] OTHER -> Fail(p)

in_header_value(p, c) ==
  CASE c = CR -> Goto(p, "HEADER_LF")
    [] c \in ValueChar /\ Holds(p.header_line, HTTP_HEADER_LINE_MAX) ->
         [p EXCEPT !.header_line = Append(@, c)]
    [] OTHER -> Fail(p)

at_header_lf(p, c) ==
  IF c = LF
  THEN [p EXCEPT !.connection_directive =
                    IF header_name_is(p, ConnectionNames)
                    THEN note_connection_header(p) ELSE @,
                 !.header_count = @ + 1, !.state = "HEADER_LINE_START"]
  ELSE Fail(p)

(* Optional whitespace before a value is dropped; the first other byte     *)
(* changes the state and is looked at again (advance = 0).                 *)
Advances(p, c) == ~(p.state = "HEADER_VALUE_SP" /\ c \notin {SP, HT})

(* Mutant: the first byte of a value is looked at again and again.         *)
Spin(p, c) == p

(* The first byte of a value is not whitespace. *)
in_value_sp(p, c) == IF Advances(p, c) THEN p ELSE Goto(p, "HEADER_VALUE")

(* One turn of the loop: the parser after byte c.                          *)
step(p, c) ==
  CASE p.state = "METHOD"            -> in_method(p, c)
    [] p.state = "PATH"              -> in_path(p, c)
    [] p.state = "VERSION"           -> in_version(p, c)
    [] p.state = "REQUEST_LINE_LF"   ->
         Goto(p, IF c = LF THEN "HEADER_LINE_START" ELSE "ERROR")
    [] p.state = "HEADER_LINE_START" -> at_line_start(p, c)
    [] p.state = "HEADER_NAME"       -> in_header_name(p, c)
    [] p.state = "HEADER_VALUE_SP"   -> in_value_sp(p, c)
    [] p.state = "HEADER_VALUE"      -> in_header_value(p, c)
    [] p.state = "HEADER_LF"         -> at_header_lf(p, c)
    [] p.state = "HEADERS_END_LF"    ->
         Goto(p, IF c = LF THEN "DONE" ELSE "ERROR")
    [] OTHER                         -> p

http_parser_should_keep_alive(p) ==
  CASE p.connection_directive = "CLOSE"     -> FALSE
    [] p.connection_directive = "KEEPALIVE" -> TRUE
    [] OTHER -> p.http[1] = 1 /\ p.http[2] >= 1
=============================================================================
