----------------------------- MODULE ChunkFeed -----------------------------
(***************************************************************************)
(* The parser as event_loop.c drives it: read() delivers the client's      *)
(* bytes in chunks of any size, process_input() calls                      *)
(* http_parser_execute() on what is left of the chunk, again with a fresh  *)
(* parser after each request of a persistent connection, and waits for the *)
(* next chunk when a call reports HTTP_PARSE_INCOMPLETE.  One step is one  *)
(* turn of the loop in http_parser_execute().                              *)
(*                                                                         *)
(* Positions count from the start of the connection: data[i] of a call is  *)
(* stream[at + 1].                                                         *)
(***************************************************************************)
EXTENDS HttpParser

CONSTANTS
  Streams,    \* what a client may send
  MaxBytes,   \* bound on the length of a stream
  READ_CHUNK  \* how much one read() returns at most

ASSUME ChunkFeedAssumption ==
  /\ MaxBytes \in Nat /\ READ_CHUNK \in Nat \ {0}
  /\ \A s \in Streams : s \in Seq(Byte) /\ Len(s) <= MaxBytes

VARIABLES
  stream,  \* all the client sends
  offset,  \* where the current request began
  at,      \* how many bytes the parser is past
  end,     \* how many bytes read() has delivered
  again,   \* advance was 0: the byte is about to be looked at again
  call,    \* "none", "execute", or what the call returned
  parser

vars == <<stream, offset, at, end, again, call, parser>>

Init ==
  /\ stream \in Streams
  /\ offset = 0 /\ at = 0 /\ end = 0 /\ again = FALSE
  /\ call = "none" /\ parser = Fresh

(* Mutant: a short read is taken for a full one. *)
FullRead(n) ==
  /\ call = "none" /\ end + n <= Len(stream)
  /\ end' = end + READ_CHUNK /\ call' = "execute"
  /\ UNCHANGED <<stream, offset, at, again, parser>>

(* read() returns n bytes, process_input() starts on them. *)
Read(n) ==
  /\ call = "none" /\ end + n <= Len(stream)
  /\ end' = end + n /\ call' = "execute"
  /\ UNCHANGED <<stream, offset, at, again, parser>>

(* The end of a turn: a terminal state ends the call at once. *)
Outcome(p) ==
  CASE p.state = "ERROR" -> "ERROR"
    [] p.state = "DONE"  -> "COMPLETE"
    [] OTHER             -> "execute"

(* Mutant: a byte looked at again is not counted as consumed by the look   *)
(* that ends it.                                                           *)
ReTurn ==
  LET c == stream[at + 1] IN
  /\ call = "execute" /\ at < end
  /\ parser' = step(parser, c)
  /\ again' = ~Advances(parser, c)
  /\ at' = IF Advances(parser, c) /\ ~again THEN at + 1 ELSE at
  /\ call' = Outcome(parser')
  /\ UNCHANGED <<stream, offset, end>>

Turn ==
  LET c == stream[at + 1] IN
  /\ call = "execute" /\ at < end
  /\ parser' = step(parser, c)
  /\ again' = ~Advances(parser, c)
  /\ at' = IF Advances(parser, c) THEN at + 1 ELSE at
  /\ call' = Outcome(parser')
  /\ UNCHANGED <<stream, offset, end>>

(* Nothing is left: HTTP_PARSE_INCOMPLETE, all of it consumed. *)
Incomplete ==
  /\ call = "execute" /\ at = end
  /\ call' = "none"
  /\ UNCHANGED <<stream, offset, at, end, again, parser>>

(* Mutant: the state is reset, the fields of the last request are not. *)
HalfInit ==
  /\ call = "COMPLETE" /\ http_parser_should_keep_alive(parser)
  /\ parser' = Goto(parser, "METHOD") /\ offset' = at
  /\ call' = IF at < end THEN "execute" ELSE "none"
  /\ UNCHANGED <<stream, at, end, again>>

(* The request is answered, the connection persists: http_parser_init(),   *)
(* and what the call left over goes to the fresh parser.                   *)
Restart ==
  /\ call = "COMPLETE" /\ http_parser_should_keep_alive(parser)
  /\ parser' = Fresh /\ offset' = at
  /\ call' = IF at < end THEN "execute" ELSE "none"
  /\ UNCHANGED <<stream, at, end, again>>

(* The guards at the entry of http_parser_execute(): a call on a parser    *)
(* that is done returns what it returned, and consumes nothing.            *)
CallAgain ==
  /\ call \in {"COMPLETE", "ERROR"}
  /\ call' = Outcome(parser)
  /\ UNCHANGED <<stream, offset, at, end, again, parser>>

Next ==
  \/ \E n \in 1 .. READ_CHUNK : Read(n)
  \/ Turn \/ Incomplete \/ Restart \/ CallAgain

Spec == Init /\ [][Next]_vars
FairSpec == Spec /\ WF_vars(Turn \/ Incomplete \/ Restart)

-----------------------------------------------------------------------------
TypeOK ==
  /\ stream \in Seq(Byte) /\ Len(stream) <= MaxBytes
  /\ offset \in 0 .. at /\ at \in 0 .. end /\ end \in 0 .. Len(stream)
  /\ again \in BOOLEAN
  /\ call \in {"none", "execute", "COMPLETE", "ERROR"}
  /\ parser.state \in States /\ DOMAIN parser = DOMAIN Fresh

Within(p) ==
  /\ Len(p.method) < HTTP_METHOD_MAX
  /\ Len(p.path) < HTTP_PATH_MAX
  /\ Len(p.version) < VERSION_MAX
  /\ Len(p.header_line) < HTTP_HEADER_LINE_MAX
  /\ p.header_count <= HTTP_MAX_HEADERS
  /\ p.state \in {"HEADER_NAME", "HEADER_VALUE_SP", "HEADER_VALUE", "HEADER_LF"} =>
       p.header_line # <<>> /\ p.header_count < HTTP_MAX_HEADERS
  /\ p.state \in {"HEADER_VALUE_SP", "HEADER_VALUE", "HEADER_LF"} =>
       p.header_name_len \in 1 .. Len(p.header_line)

(* Whatever the client sends and however it is split, no buffer of         *)
(* http_request_parser_t is filled past its size less the terminating NUL, *)
(* no more than HTTP_MAX_HEADERS headers are counted, and a value never    *)
(* begins past the end of its header line (note_connection_header() reads  *)
(* from header_name_len on).                                               *)
BuffersHold == Within(parser)

(* The parser as it was before the byte it is about to look at again. *)
Settled == IF again THEN [parser EXCEPT !.state = "HEADER_VALUE_SP"] ELSE parser

(* The parser fed byte by byte, and what requests are. *)
Bytes == INSTANCE RequestGrammar
           WITH done <- offset, fed <- SubSeq(stream, offset + 1, at),
                parser <- Settled

(* However the bytes are split across reads, the parser does what one that *)
(* is fed byte by byte does ("The result must not depend on how the caller *)
(* happened to split the input", http_parser.h): no byte is skipped, none  *)
(* is parsed twice, and a request's leftovers go to a fresh parser.        *)
ImplementsByteFeed == Bytes!Spec

(* What http_parser_execute() reports is true of the client's stream,      *)
(* across reads and pipelined requests: COMPLETE exactly when the bytes    *)
(* consumed since the last request are a request, which then persists as   *)
(* it asks (the default after HTTP/1.x apart); ERROR only when no request  *)
(* begins there, however much more of the stream is taken.                 *)
CallsAreRight ==
  LET Taken(n) == SubSeq(stream, offset + 1, n) IN
  /\ call = "COMPLETE" <=> Bytes!IsRequest(Taken(at))
  /\ call = "COMPLETE" /\ ~Bytes!LaterByDefault(Taken(at)) =>
       (http_parser_should_keep_alive(parser) <=> Bytes!Persists(Taken(at)))
  /\ call = "ERROR" => \A n \in at .. Len(stream) : ~Bytes!IsRequest(Taken(n))

(* Every byte read is parsed unless the request they belong to was the     *)
(* last: the loop never spins on a byte it looks at again.                 *)
AllIsParsed == []<>(at = end \/ call \in {"COMPLETE", "ERROR"})
=============================================================================
