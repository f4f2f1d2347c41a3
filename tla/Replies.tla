------------------------------ MODULE Replies ------------------------------
(***************************************************************************)
(* What travels on one HTTP connection, abstracted to what the write and   *)
(* read paths of event_loop.c can tell apart.                              *)
(*                                                                         *)
(* The client's byte stream is a sequence whose elements are Mid, a byte   *)
(* inside a request, or a member of Requests: the byte that ends a         *)
(* request.  A byte is known by its position in the stream, and a request  *)
(* by the position of its last byte.  Ending a request means what          *)
(* http_parser_execute() reports: the LF of the blank line, or the byte    *)
(* that makes the request malformed.                                       *)
(*                                                                         *)
(* A member of Requests carries what the server will do about it:          *)
(*   malformed  the parser rejects it (HTTP_PARSE_ERROR)                   *)
(*   keep       http_parser_should_keep_alive() of the parsed request      *)
(*   file       route_request() answers it with an open file               *)
(*   head       what snprintf() returns for the response head              *)
(*   body       the size of the file, 0 when there is none                 *)
(*                                                                         *)
(* A reply byte is <<e, part, k>>: byte k of the head, of the file body,   *)
(* or of the fixed 500 answer, in the reply to the request ending at e.    *)
(***************************************************************************)
EXTENDS Integers, Sequences

CONSTANTS
  Requests,           \* the requests a client may send
  Mid,                \* a byte that does not end a request
  RESPONSE_BUF_SIZE,  \* sizeof(conn->write_buf)
  InternalErrorLen    \* sizeof(internal_error) - 1

ASSUME RepliesAssumption ==
  /\ Requests \subseteq [malformed : BOOLEAN, keep : BOOLEAN, file : BOOLEAN,
                         head : Nat \ {0}, body : Nat]
  /\ \A r \in Requests : ~r.file => r.body = 0
  /\ \A r \in Requests : r.malformed => ~r.file
  /\ Mid \notin Requests
  /\ RESPONSE_BUF_SIZE \in Nat
  /\ InternalErrorLen \in 1 .. RESPONSE_BUF_SIZE

Byte == Requests \cup {Mid}
Part == {"head", "body", "error"}
ReplyByte == (Nat \ {0}) \X Part \X (Nat \ {0})

(* set_write_buffer() adopts a head only if snprintf() did not truncate it. *)
Fits(r) == r.head < RESPONSE_BUF_SIZE

(* Whether the connection outlives the reply: a request that asked for it, *)
(* that was well formed, and whose head fitted.                            *)
KeepsAlive(r) == Fits(r) /\ ~r.malformed /\ r.keep

(* The reply carries a file body: one was opened and the head announcing   *)
(* it fitted.                                                              *)
HasBody(r) == Fits(r) /\ r.file

(* The request ending at e is the first to end after position d.           *)
EndsNext(s, d, e) ==
  /\ d < e /\ e <= Len(s)
  /\ s[e] \in Requests
  /\ \A i \in (d + 1) .. (e - 1) : s[i] = Mid

BufferPart(r) == IF Fits(r) THEN "head" ELSE "error"
BufferLen(r)  == IF Fits(r) THEN r.head ELSE InternalErrorLen

(* Byte b opens the reply to the request that ends next after d.           *)
OpensReply(s, d, b) ==
  EndsNext(s, d, b[1]) /\ b[2] = BufferPart(s[b[1]]) /\ b[3] = 1

(* Byte b is the last one of its reply.                                    *)
ClosesReply(s, b) ==
  LET r == s[b[1]] IN
  IF HasBody(r) /\ r.body > 0
  THEN b[2] = "body" /\ b[3] = r.body
  ELSE b[2] = BufferPart(r) /\ b[3] = BufferLen(r)

(* Byte c comes right after byte b, in the same reply or in the next one.  *)
Follows(s, b, c) ==
  LET r == s[b[1]] IN
  \/ /\ ClosesReply(s, b)
     /\ KeepsAlive(r)
     /\ OpensReply(s, b[1], c)
  \/ /\ ~ClosesReply(s, b)
     /\ c[1] = b[1]
     /\ \/ /\ c[2] = b[2] /\ c[3] = b[3] + 1
           /\ c[3] <= IF b[2] = "body" THEN r.body ELSE BufferLen(r)
        \/ /\ b[2] = "head" /\ b[3] = r.head
           /\ c[2] = "body" /\ c[3] = 1

(* The bytes in o answer the requests in s one after the other, every      *)
(* reply whole and in its place, up to some byte of some reply.            *)
RepliesInOrder(s, o) ==
  /\ o # <<>> => OpensReply(s, 0, o[1])
  /\ \A i \in 1 .. Len(o) - 1 : Follows(s, o[i], o[i + 1])
=============================================================================
