------------------------------ MODULE ByteFeed ------------------------------
(***************************************************************************)
(* What http_parser.h promises, with no calls and no chunks: the parser    *)
(* eats the client's bytes one after the other and does not depend on how  *)
(* they were split across reads; when a request is complete the next byte  *)
(* belongs to a freshly reset parser.  ChunkFeed implements this.          *)
(***************************************************************************)
EXTENDS HttpParser

CONSTANT MaxBytes  \* bound on the bytes of one connection

ASSUME ByteFeedAssumption == MaxBytes \in Nat

VARIABLES
  done,   \* how many bytes the finished requests took
  fed,    \* the bytes of the request being parsed
  parser

vars == <<done, fed, parser>>

Init == done = 0 /\ fed = <<>> /\ parser = Fresh

(* What a byte does to the parser, the second look at it included. *)
Eat(p, c) == IF Advances(p, c) THEN step(p, c) ELSE step(step(p, c), c)

Feed(c) ==
  /\ parser.state \notin Terminal
  /\ done + Len(fed) < MaxBytes
  /\ fed' = Append(fed, c)
  /\ parser' = Eat(parser, c)
  /\ UNCHANGED done

(* The connection persists: http_parser_init(). *)
Restart ==
  /\ parser.state = "DONE"
  /\ http_parser_should_keep_alive(parser)
  /\ done' = done + Len(fed)
  /\ fed' = <<>>
  /\ parser' = Fresh

Next == (\E c \in Byte : Feed(c)) \/ Restart

Spec == Init /\ [][Next]_vars
=============================================================================
