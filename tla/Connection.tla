----------------------------- MODULE Connection -----------------------------
(***************************************************************************)
(* One accepted connection of event_loop.c: its socket, its epoll          *)
(* registration, its parser, its response and its file body, driven by the *)
(* thread of one event loop against a client that sends, drains, half      *)
(* closes and resets as it likes.                                          *)
(*                                                                         *)
(* A step of the loop thread is the code between two system calls, so the  *)
(* client and the kernel move between any two of them; pc names the code   *)
(* the thread is in.  The other connections of the loop, the idle clock    *)
(* and the batch of events are in EventLoop.                               *)
(*                                                                         *)
(* A buffer holds a contiguous piece of the client's stream and is         *)
(* represented by the positions it covers, (lo, hi].                       *)
(***************************************************************************)
EXTENDS Replies

CONSTANTS
  READ_CHUNK_SIZE,    \* sizeof(buf) and sizeof(pending_input)
  SENDFILE_MAX_CHUNK, \* the most one sendfile() call asks for
  SndBuf,             \* reply bytes the socket holds before EAGAIN
  MaxStream           \* bound on the bytes the client sends

ASSUME ConnectionAssumption ==
  /\ READ_CHUNK_SIZE \in Nat \ {0}
  /\ SENDFILE_MAX_CHUNK \in Nat \ {0}
  /\ SndBuf \in Nat \ {0}
  /\ MaxStream \in Nat

VARIABLES
  stream,     \* every byte the client has sent
  fin,        \* the client has shut down its sending side
  rst,        \* the connection has been reset
  out,        \* every reply byte the kernel has taken
  drained,    \* how many of those have left the socket buffer
  interest,   \* "IN" or "OUT": the event mask, always with EPOLLET
  ready,      \* the registration is on the epoll ready list
  event,      \* what epoll_wait() reported and the loop has not handled
  pc,         \* the code the loop thread is in, as far as this connection goes
  handler,    \* the handler the event was dispatched to
  rcvd,       \* how many bytes of stream have been read()
  chunk,      \* what process_input() has yet to look at: data + offset, len
  parser,     \* the request being parsed and the stream bytes it holds
  write_buf,  \* the request it answers and which text it holds
  write_len,
  write_sent,
  keep_alive_after_write,
  awaiting_writable,
  file_fd,    \* -1, or the descriptor, named by the request that opened it
  file_offset,
  file_size,
  file_len,   \* the length the open file has now
  open_files, \* the file descriptors the process has open for this connection
  pending_input

net     == <<stream, fin, rst, out, drained>>
epoll   == <<interest, ready, event>>
control == <<pc, handler>>
input   == <<rcvd, chunk, parser, pending_input>>
reply   == <<write_buf, write_len, write_sent, keep_alive_after_write>>
file    == <<file_fd, file_offset, file_size, file_len, open_files>>
vars    == <<net, epoll, control, input, reply, awaiting_writable, file>>

Buffers == [lo : Nat, hi : Nat]
Nothing == [lo |-> 0, hi |-> 0]

Init ==
  /\ stream = <<>> /\ fin = FALSE /\ rst = FALSE /\ out = <<>> /\ drained = 0
  /\ interest = "IN" /\ ready = FALSE /\ event = "none"
  /\ pc = "epoll_wait" /\ handler = "none"
  /\ rcvd = 0 /\ chunk = Nothing /\ pending_input = Nothing
  /\ parser = [state |-> "PARSING", start |-> 0, end |-> 0]
  /\ write_buf = <<0, "head">> /\ write_len = 0 /\ write_sent = 0
  /\ keep_alive_after_write = FALSE
  /\ awaiting_writable = FALSE
  /\ file_fd = -1 /\ file_offset = 0 /\ file_size = 0 /\ file_len = 0
  /\ open_files = {}

-----------------------------------------------------------------------------
(* The kernel, as the code uses it. *)

Unread == Len(stream) - rcvd
Room == SndBuf - (Len(out) - drained)

(* Readiness of the socket under an event mask; a reset reports            *)
(* EPOLLERR | EPOLLHUP whatever the mask.                                  *)
Poll(mask) ==
  \/ rst
  \/ mask = "IN" /\ (Unread > 0 \/ fin)
  \/ mask = "OUT" /\ Room > 0

(* epoll_ctl(EPOLL_CTL_MOD) polls the socket and queues an event at once   *)
(* if the new mask already holds.                                          *)
EpollMod(mask) ==
  /\ interest' = mask
  /\ ready' = (ready \/ Poll(mask))
  /\ UNCHANGED event

-----------------------------------------------------------------------------
(* The client and the network. *)

(* New bytes arrive; they make an edge only under an EPOLLIN mask. *)
ClientSend(b) ==
  /\ pc # "closed" /\ ~fin /\ ~rst /\ Len(stream) < MaxStream
  /\ stream' = Append(stream, b)
  /\ ready' = (ready \/ interest = "IN")
  /\ UNCHANGED <<fin, rst, out, drained, interest, event, control, input,
                 reply, awaiting_writable, file>>

ClientFin ==
  /\ pc # "closed" /\ ~fin /\ ~rst
  /\ fin' = TRUE
  /\ ready' = (ready \/ interest = "IN")
  /\ UNCHANGED <<stream, rst, out, drained, interest, event, control, input,
                 reply, awaiting_writable, file>>

ClientReset ==
  /\ pc # "closed" /\ ~rst
  /\ rst' = TRUE
  /\ ready' = TRUE
  /\ UNCHANGED <<stream, fin, out, drained, interest, event, control, input,
                 reply, awaiting_writable, file>>

(* Reply bytes leave the socket buffer.  A full buffer that gets room      *)
(* makes an edge under an EPOLLOUT mask.                                   *)
ClientDrain ==
  /\ pc # "closed" /\ ~rst
  /\ \E n \in 1 .. Len(out) - drained : drained' = drained + n
  /\ ready' = (ready \/ (interest = "OUT" /\ Room = 0))
  /\ UNCHANGED <<stream, fin, rst, out, interest, event, control, input,
                 reply, awaiting_writable, file>>

(* Somebody truncates the file that is being sent. *)
FileShrinks ==
  /\ file_fd # -1
  /\ \E n \in 0 .. file_len - 1 : file_len' = n
  /\ UNCHANGED <<net, epoll, control, input, reply, awaiting_writable,
                 file_fd, file_offset, file_size, open_files>>

-----------------------------------------------------------------------------
(* Closing. *)

(* Mutant: "no file" is written as a zeroed field. *)
ReleaseZeroes ==
  /\ file_fd' = 0 /\ file_offset' = 0 /\ file_size' = 0
  /\ open_files' = open_files \ {file_fd}
  /\ UNCHANGED file_len

release_file_body ==
  /\ file_fd' = -1 /\ file_offset' = 0 /\ file_size' = 0
  /\ open_files' = open_files \ {file_fd}
  /\ UNCHANGED file_len

close_connection ==
  /\ pc' = "closed"
  /\ release_file_body
  /\ UNCHANGED <<net, epoll, handler, input, reply, awaiting_writable>>

(* The idle sweep or the shutdown of the loop closes this connection       *)
(* between two handlers; an event already reported for it is then dropped. *)
(* (After a sweep the loop does look at it: see EventLoop.)                *)
LoopCloses == pc \in {"epoll_wait", "dispatch"} /\ close_connection

-----------------------------------------------------------------------------
(* epoll_wait() and the dispatch of its event. *)

(* The ready list entry is taken off and the socket polled again; an edge  *)
(* that no longer holds is dropped.                                        *)
EpollWait ==
  /\ pc = "epoll_wait" /\ ready
  /\ ready' = FALSE
  /\ event' = CASE rst -> "err" [] ~rst /\ Poll(interest) -> "io"
                [] OTHER -> "none"
  /\ pc' = IF Poll(interest) THEN "dispatch" ELSE "epoll_wait"
  /\ UNCHANGED <<net, interest, handler, input, reply, awaiting_writable, file>>

DispatchError == pc = "dispatch" /\ event = "err" /\ close_connection

Dispatch ==
  /\ pc = "dispatch" /\ event = "io"
  /\ event' = "none"
  /\ pc' = IF awaiting_writable THEN "flush_pending_write" ELSE "read"
  /\ handler' = pc'
  /\ UNCHANGED <<net, interest, ready, input, reply, awaiting_writable, file>>

-----------------------------------------------------------------------------
(* handle_client_readable(): read until the socket is dry. *)

ReadBytes ==
  /\ pc = "read" /\ ~rst
  /\ \E n \in 1 .. READ_CHUNK_SIZE :
       /\ n <= Unread
       /\ rcvd' = rcvd + n
       /\ chunk' = [lo |-> rcvd, hi |-> rcvd + n]
  /\ pc' = "process_input"
  /\ UNCHANGED <<net, epoll, handler, parser, pending_input, reply,
                 awaiting_writable, file>>

(* Mutant: a read() of 0 bytes is taken for EAGAIN. *)
ReadEofIgnored ==
  /\ pc = "read" /\ ~rst /\ Unread = 0 /\ fin
  /\ pc' = "epoll_wait"
  /\ UNCHANGED <<net, epoll, handler, input, reply, awaiting_writable, file>>

ReadEof == pc = "read" /\ ~rst /\ Unread = 0 /\ fin /\ close_connection

ReadError == pc = "read" /\ rst /\ close_connection

ReadAgain ==
  /\ pc = "read" /\ ~rst /\ Unread = 0 /\ ~fin
  /\ pc' = "epoll_wait"
  /\ UNCHANGED <<net, epoll, handler, input, reply, awaiting_writable, file>>

-----------------------------------------------------------------------------
(* process_input(): answer every complete request of the chunk. *)

(* Mutant: one read() per wakeup. *)
AfterInputOnce == "epoll_wait"

(* process_input() returns true with the connection still readable: back   *)
(* to read(), or out of flush_pending_write().                             *)
AfterInput == IF handler = "read" THEN "read" ELSE "epoll_wait"

(* http_parser_execute() over (lo, hi] stops at e: at once if the parser   *)
(* has not been reset since its last request, else where one ends.         *)
StopsAt(e) ==
  IF parser.state = "PARSING"
  THEN e <= chunk.hi /\ EndsNext(stream, chunk.lo, e)
  ELSE e = chunk.lo

InputConsumed ==
  /\ pc = "process_input" /\ chunk.lo = chunk.hi
  /\ pc' = AfterInput
  /\ UNCHANGED <<net, epoll, handler, input, reply, awaiting_writable, file>>

(* HTTP_PARSE_INCOMPLETE: the parser took everything and wants more. *)
ParseIncomplete ==
  /\ pc = "process_input" /\ chunk.lo < chunk.hi
  /\ parser.state = "PARSING"
  /\ \A i \in (chunk.lo + 1) .. chunk.hi : stream[i] = Mid
  /\ parser' = [parser EXCEPT !.end = chunk.hi]
  /\ chunk' = [chunk EXCEPT !.lo = chunk.hi]
  /\ pc' = AfterInput
  /\ UNCHANGED <<net, epoll, handler, rcvd, pending_input, reply,
                 awaiting_writable, file>>

(* Mutant: a malformed request may keep the connection. *)
KeepAliveAlways(r) == r.keep

(* What process_input() passes as keep_alive. *)
KeepAliveRequested(r) == IF r.malformed THEN FALSE ELSE r.keep

(* Mutant: the file of a response that does not fit is forgotten. *)
OverflowLeaks(e) == {}

(* What prepare_response() closes when the head does not fit. *)
OverflowCloses(e) == {e}

(* Fills write_buf for the request ending at e, or for the fixed 500 when  *)
(* the head was truncated, and takes over or closes the file that          *)
(* route_request() opened.                                                 *)
prepare_response(e, keep_alive) ==
  LET r      == stream[e]
      opened == open_files \cup IF r.file THEN {e} ELSE {}
  IN
  IF r.head >= RESPONSE_BUF_SIZE
  THEN /\ write_buf' = <<e, "error">>
       /\ write_len' = InternalErrorLen
       /\ write_sent' = 0
       /\ keep_alive_after_write' = FALSE
       /\ open_files' = opened \ OverflowCloses(e)
       /\ UNCHANGED <<file_fd, file_offset, file_size, file_len>>
  ELSE /\ write_buf' = <<e, "head">>
       /\ write_len' = r.head
       /\ write_sent' = 0
       /\ keep_alive_after_write' = keep_alive
       /\ IF r.file
          THEN /\ file_fd' = e /\ file_offset' = 0
               /\ file_size' = r.body /\ file_len' = r.body
               /\ open_files' = opened
          ELSE UNCHANGED file

(* HTTP_PARSE_COMPLETE or HTTP_PARSE_ERROR: route, prepare, and on to      *)
(* send_response().                                                        *)
ParseRequest ==
  /\ pc = "process_input" /\ chunk.lo < chunk.hi
  /\ \E e \in chunk.lo .. chunk.hi :
       /\ StopsAt(e)
       /\ parser' = [parser EXCEPT !.end = e,
                       !.state = IF stream[e].malformed THEN "ERROR" ELSE "DONE"]
       /\ prepare_response(e, KeepAliveRequested(stream[e]))
       /\ chunk' = [chunk EXCEPT !.lo = e]
  /\ pc' = "send_response"
  /\ UNCHANGED <<net, epoll, handler, rcvd, pending_input, awaiting_writable>>

-----------------------------------------------------------------------------
(* try_flush_response(): the buffered head, then the file body. *)

Flushing == pc \in {"send_response", "flush_pending_write"}

(* Mutant: a short write counts as a whole one. *)
HeadOutShort == write_sent > 0 \/ write_len = 0

HeadOut == write_sent = write_len

BodyOut == file_fd = -1 \/ file_offset >= file_size

WriteHead ==
  /\ Flushing /\ ~HeadOut /\ ~rst
  /\ \E n \in 1 .. write_len - write_sent :
       /\ n <= Room
       /\ out' = out \o [i \in 1 .. n |->
                           <<write_buf[1], write_buf[2], write_sent + i>>]
       /\ write_sent' = write_sent + n
  /\ UNCHANGED <<stream, fin, rst, drained, epoll, control, input, write_buf,
                 write_len, keep_alive_after_write, awaiting_writable, file>>

SendBody ==
  /\ Flushing /\ HeadOut /\ ~BodyOut /\ ~rst
  /\ \E n \in 1 .. file_size - file_offset :
       /\ n <= SENDFILE_MAX_CHUNK /\ n <= Room /\ file_offset + n <= file_len
       /\ out' = out \o [i \in 1 .. n |-> <<file_fd, "body", file_offset + i>>]
       /\ file_offset' = file_offset + n
  /\ UNCHANGED <<stream, fin, rst, drained, epoll, control, input, reply,
                 awaiting_writable, file_fd, file_size, file_len, open_files>>

(* Mutant: a blocked response does not arm EPOLLOUT. *)
AfterBlockUnarmed == "epoll_wait"

AfterBlock == IF pc = "send_response" THEN "arm" ELSE "epoll_wait"

(* EAGAIN: send_response() goes on to arm EPOLLOUT, flush_pending_write()  *)
(* is armed already.                                                       *)
FlushBlocks ==
  /\ Flushing /\ ~(HeadOut /\ BodyOut) /\ ~rst /\ Room <= 0
  /\ pc' = AfterBlock
  /\ UNCHANGED <<net, epoll, handler, input, reply, awaiting_writable, file>>

(* write() or sendfile() fails, or sendfile() hits the end of a file that  *)
(* shrank: the connection is given up.                                     *)
FlushFails ==
  /\ Flushing
  /\ ~(HeadOut /\ BodyOut)
  /\ rst \/ (HeadOut /\ file_offset >= file_len)
  /\ close_connection

(* Mutant: the unparsed rest of the chunk is dropped. *)
StashDropped == Nothing

(* What stash_pending_input() keeps: data + offset, len - offset. *)
stash_pending_input == chunk

(* send_response() after EAGAIN, and process_input() after it: switch to   *)
(* EPOLLOUT and keep the unparsed rest of the chunk.                       *)
ArmWritable ==
  /\ pc = "arm"
  /\ EpollMod("OUT")
  /\ awaiting_writable' = TRUE
  /\ pending_input' = stash_pending_input
  /\ pc' = "epoll_wait"
  /\ UNCHANGED <<net, handler, rcvd, chunk, parser, reply, file>>

ArmFails == pc = "arm" /\ close_connection

(* The response is out: finish_after_response_sent(), then the rest of the *)
(* chunk, or whatever was kept when the write blocked.                     *)
FinishKeepAlive ==
  /\ Flushing /\ HeadOut /\ BodyOut /\ keep_alive_after_write
  /\ release_file_body
  /\ parser' = [state |-> "PARSING", start |-> parser.end, end |-> parser.end]
  /\ write_len' = 0 /\ write_sent' = 0
  /\ awaiting_writable' = FALSE
  /\ IF awaiting_writable THEN EpollMod("IN") ELSE UNCHANGED epoll
  /\ IF pc = "send_response"
     THEN pc' = "process_input" /\ UNCHANGED <<chunk, pending_input>>
     ELSE IF pending_input.lo < pending_input.hi
     THEN /\ pc' = "process_input"
          /\ chunk' = pending_input
          /\ pending_input' = Nothing
     ELSE pc' = "epoll_wait" /\ UNCHANGED <<chunk, pending_input>>
  /\ UNCHANGED <<net, handler, rcvd, write_buf, keep_alive_after_write>>

(* A response with Connection: close is out, or EPOLLIN cannot be restored. *)
FinishClose ==
  /\ Flushing /\ HeadOut /\ BodyOut
  /\ ~keep_alive_after_write \/ awaiting_writable
  /\ close_connection

Closed == pc = "closed" /\ UNCHANGED vars

-----------------------------------------------------------------------------
LoopStep ==
  \/ EpollWait \/ DispatchError \/ Dispatch
  \/ ReadBytes \/ ReadEof \/ ReadError \/ ReadAgain
  \/ InputConsumed \/ ParseIncomplete \/ ParseRequest
  \/ WriteHead \/ SendBody \/ FlushBlocks \/ FlushFails
  \/ ArmWritable \/ ArmFails \/ FinishKeepAlive \/ FinishClose

Client ==
  \/ \E b \in Byte : ClientSend(b)
  \/ ClientFin \/ ClientReset \/ ClientDrain

Next == LoopStep \/ Client \/ FileShrinks \/ LoopCloses \/ Closed

Spec == Init /\ [][Next]_vars

(* The thread of the loop never stops in the middle of a handler and       *)
(* epoll_wait() returns while the ready list is not empty.                 *)
FairSpec == Spec /\ WF_vars(LoopStep)

-----------------------------------------------------------------------------
(* Types: the shape of connection_t and of the state around it. *)
TypeOK ==
  /\ stream \in Seq(Byte) /\ fin \in BOOLEAN /\ rst \in BOOLEAN
  /\ out \in Seq(ReplyByte) /\ drained \in Nat
  /\ interest \in {"IN", "OUT"} /\ ready \in BOOLEAN
  /\ event \in {"none", "io", "err"}
  /\ pc \in {"epoll_wait", "dispatch", "read", "process_input",
             "send_response", "flush_pending_write", "arm", "closed"}
  /\ handler \in {"none", "read", "flush_pending_write"}
  /\ rcvd \in Nat /\ chunk \in Buffers /\ pending_input \in Buffers
  /\ parser \in [state : {"PARSING", "DONE", "ERROR"}, start : Nat, end : Nat]
  /\ write_buf \in Nat \X Part /\ write_len \in Nat /\ write_sent \in Nat
  /\ keep_alive_after_write \in BOOLEAN /\ awaiting_writable \in BOOLEAN
  /\ file_fd \in (Nat \ {0}) \cup {-1} /\ file_offset \in Nat /\ file_size \in Nat
  /\ file_len \in Nat /\ open_files \subseteq Nat

(* Every request is answered once, in the order sent, head before body,    *)
(* each reply whole before the next starts and none after a Connection:    *)
(* close, a 400 or a 500, however reads, writes, EAGAIN and the stash of   *)
(* pipelined input interleave (process_input, try_flush_response,          *)
(* flush_pending_write).                                                   *)
AnswersInOrder == RepliesInOrder(stream, out)

(* No byte that was read is lost, parsed twice or parsed out of turn: what *)
(* the parser has not taken is exactly the rest of the chunk, or, while a  *)
(* write is blocked, exactly pending_input, which one read() fits into     *)
(* (stash_pending_input and the resume in flush_pending_write).            *)
InputConserved ==
  /\ pc \in {"process_input", "send_response", "arm"} =>
       chunk.lo = parser.end /\ chunk.hi = rcvd
  /\ awaiting_writable /\ pc # "closed" =>
       pending_input.lo = parser.end /\ pending_input.hi = rcvd
  /\ pc \in {"epoll_wait", "dispatch", "read"} /\ ~awaiting_writable =>
       parser.end = rcvd /\ pending_input.lo = pending_input.hi
  /\ pending_input.hi - pending_input.lo <= READ_CHUNK_SIZE

(* Outside a handler the three records of a blocked write agree: the flag  *)
(* awaiting_writable, the EPOLLOUT mask and an unsent rest of the response *)
(* (send_response, finish_after_response_sent).                            *)
BlockedWriteConsistent ==
  pc \in {"epoll_wait", "dispatch"} =>
    /\ awaiting_writable <=> interest = "OUT"
    /\ awaiting_writable <=> ~(HeadOut /\ BodyOut)

(* The process holds no descriptor but the one file_fd names, so none      *)
(* leaks on any exit from a file response, and only while a response is    *)
(* on its way (release_file_body, prepare_response).                       *)
FilesOwned ==
  /\ open_files = IF file_fd = -1 THEN {} ELSE {file_fd}
  /\ file_fd # -1 => \/ pc \in {"send_response", "arm"}
                     \/ pc \in {"epoll_wait", "dispatch", "flush_pending_write"}
                        /\ awaiting_writable

(* The loop never sleeps on work: with nothing on the ready list the       *)
(* socket has nothing for the armed direction.  Edge-triggered epoll makes *)
(* this depend on reading to EAGAIN and on EPOLL_CTL_MOD polling again.    *)
NoLostEdge == pc = "epoll_wait" /\ ~ready => ~Poll(interest)

Exchange == INSTANCE HttpExchange WITH open <- pc # "closed"

(* The connection with its socket, buffers and handlers implements the     *)
(* exchange the client was promised: every step of the code is an answer   *)
(* in order, a byte received, the end, or nothing the client can see.      *)
ImplementsExchange == Exchange!Spec

Answered(e) ==
  \E i \in 1 .. Len(out) : out[i][1] = e /\ ClosesReply(stream, out[i])

(* Nothing is asked of a client that has reset the connection. *)
ClientKeepsReading == []<>(drained = Len(out) \/ rst \/ pc = "closed")

(* A client that keeps draining its replies gets every request it sent     *)
(* answered in full, or sees the connection closed; no request is stranded *)
(* behind a blocked write or an edge that was already used.  The stream    *)
(* has at most MaxStream bytes and output is never taken back, so again    *)
(* and again nothing unanswered is every request being answered.           *)
EveryRequestAnswered ==
  ClientKeepsReading =>
    []<>(pc = "closed" \/ \A e \in DOMAIN stream :
                            stream[e] \in Requests => Answered(e))

(* A connection whose client is gone is closed and its file descriptor     *)
(* with it: after a reset whatever is left in the socket, after a FIN      *)
(* provided that what is owed can drain.                                   *)
GoneClientIsClosed ==
  ClientKeepsReading => ((fin \/ rst) ~> (pc = "closed" /\ open_files = {}))
=============================================================================
