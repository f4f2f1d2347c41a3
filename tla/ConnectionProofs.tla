-------------------------- MODULE ConnectionProofs --------------------------
(***************************************************************************)
(* Proofs about Connection, for every set of requests, every buffer size   *)
(* and every length of the client's stream.                                *)
(***************************************************************************)
EXTENDS Connection, TLAPS

(* The time, in seconds, that a step gives each prover. *)
USE SMTT(30), ZenonT(60)

InHandler  == pc \in {"read", "process_input", "send_response", "arm"}
Responding == pc \in {"send_response", "arm", "flush_pending_write"}
Waiting    == pc \in {"epoll_wait", "dispatch"}

(* What each place in the code may rely on: the counters stay in range,    *)
(* the flag, the mask and the handler match the place, and no response is  *)
(* pending where a new one may be prepared.                                *)
Shape ==
  /\ rcvd <= Len(stream) /\ parser.end <= rcvd
  /\ drained <= Len(out) /\ Room >= 0
  /\ write_sent <= write_len /\ file_offset <= file_size
  /\ write_len > 0 => write_buf[1] # 0
  /\ pc \in {"process_input", "send_response", "arm"} =>
       /\ chunk.lo <= chunk.hi /\ chunk.hi - chunk.lo <= READ_CHUNK_SIZE
       /\ pending_input.lo = pending_input.hi
  /\ InHandler => ~awaiting_writable /\ interest = "IN"
  /\ pc = "flush_pending_write" =>
       awaiting_writable /\ interest = "OUT" /\ handler = "flush_pending_write"
  /\ InHandler => handler \in {"read", "flush_pending_write"}
  /\ pc = "read" => handler = "read"
  /\ pc \in {"read", "process_input"} \/ (Waiting /\ ~awaiting_writable) =>
       parser.state = "PARSING" /\ HeadOut /\ file_fd = -1
  /\ pc = "arm" => ~(HeadOut /\ BodyOut)

(* The edge that EPOLL_CTL_MOD found is kept while flush_pending_write()   *)
(* works through the input it had kept.                                    *)
EdgeKept ==
  (/\ handler = "flush_pending_write"
   /\ pc \in {"process_input", "send_response", "arm"}
   /\ Poll("IN")) => ready

IInv ==
  /\ TypeOK /\ Shape /\ InputConserved /\ BlockedWriteConsistent
  /\ FilesOwned /\ NoLostEdge /\ EdgeKept

USE DEF net, epoll, control, input, reply, file, Buffers

(* Bytes k + 1 up to k + n of one part of the reply to e. *)
Bytes(e, part, k, n) == [i \in 1 .. n |-> <<e, part, k + i>>]

(* next is o with those bytes after it. *)
Extended(next, o, e, part, k, n) ==
  /\ next \in Seq(ReplyByte)
  /\ Len(next) = Len(o) + n
  /\ \A i \in 1 .. Len(o) : next[i] = o[i]
  /\ \A i \in 1 .. n : next[Len(o) + i] = <<e, part, k + i>>

(* What write() or sendfile() of n more bytes makes of the output. *)
LEMMA BytesAppended ==
  ASSUME NEW o \in Seq(ReplyByte), NEW n \in Nat, NEW e \in Nat \ {0},
         NEW part \in Part, NEW k \in Nat
  PROVE  Extended(o \o Bytes(e, part, k, n), o, e, part, k, n)
  <1> DEFINE bytes == Bytes(e, part, k, n)
  <1>1. \A i \in 1 .. n : <<e, part, k + i>> \in ReplyByte BY DEF ReplyByte
  <1>2. /\ bytes \in [1 .. n -> ReplyByte]
        /\ \A i \in 1 .. n : bytes[i] = <<e, part, k + i>>
    BY Zenon, <1>1 DEF Bytes
  <1> HIDE DEF bytes
  <1>3. bytes \in Seq(ReplyByte) /\ Len(bytes) = n BY <1>2
  <1>4. /\ o \o bytes \in Seq(ReplyByte) /\ Len(o \o bytes) = Len(o) + n
        /\ \A i \in 1 .. Len(o) : (o \o bytes)[i] = o[i]
        /\ \A i \in 1 .. n : (o \o bytes)[Len(o) + i] = bytes[i]
    BY <1>3
  <1> QED BY Zenon, <1>2, <1>4 DEF Extended, bytes

(* A connection accept_new_connections() has just set up satisfies it. *)
LEMMA InitStep == ASSUME Init PROVE IInv
  <1> USE ConnectionAssumption, RepliesAssumption DEF Init, Nothing
  <1>1. TypeOK
    <2>1. stream \in Seq(Byte) /\ out \in Seq(ReplyByte) OBVIOUS
    <2>2. write_buf \in Nat \X Part /\ file_fd \in (Nat \ {0}) \cup {-1}
      BY DEF Part
    <2> QED BY Zenon, <2>1, <2>2 DEF TypeOK
  <1>2. Shape BY DEF Shape, InHandler, Waiting, Room, HeadOut
  <1>3. InputConserved BY DEF InputConserved
  <1>4. BlockedWriteConsistent BY DEF BlockedWriteConsistent, HeadOut, BodyOut
  <1>5. FilesOwned BY DEF FilesOwned
  <1>6. NoLostEdge BY DEF NoLostEdge, Poll, Unread
  <1>7. EdgeKept BY DEF EdgeKept
  <1> QED BY Zenon, <1>1, <1>2, <1>3, <1>4, <1>5, <1>6, <1>7 DEF IInv

(* So does a state in which nothing changed. *)
LEMMA StutterStep == ASSUME IInv, UNCHANGED vars PROVE IInv'
  BY DEF vars, IInv, TypeOK, Shape, InputConserved, BlockedWriteConsistent,
         FilesOwned, NoLostEdge, EdgeKept, InHandler, Waiting, Room, Unread,
         HeadOut, BodyOut, Poll

(* close_connection(), from wherever it is called, releases the file. *)
LEMMA CloseStep == ASSUME IInv, close_connection PROVE IInv'
  BY ConnectionAssumption
  DEF close_connection, release_file_body, IInv, TypeOK, Shape, InputConserved,
      BlockedWriteConsistent, FilesOwned, NoLostEdge, EdgeKept, InHandler,
      Waiting, Room, Unread, HeadOut, BodyOut, Poll

(* Bytes that arrive under EPOLLIN make an edge. *)
LEMMA ClientSendStep == ASSUME IInv, NEW b \in Byte, ClientSend(b) PROVE IInv'
  <1> USE ConnectionAssumption DEF IInv, ClientSend
  <1>0. ready' \in BOOLEAN BY DEF TypeOK
  <1>1. TypeOK' BY <1>0 DEF TypeOK
  <1>2. Shape' BY DEF Shape, TypeOK, InHandler, Waiting, Room, HeadOut, BodyOut
  <1>3. InputConserved' BY DEF InputConserved
  <1>4. BlockedWriteConsistent' BY DEF BlockedWriteConsistent, HeadOut, BodyOut
  <1>5. FilesOwned' BY DEF FilesOwned
  <1>6. NoLostEdge' BY Zenon DEF NoLostEdge, Poll, Unread, Room
  <1>7. EdgeKept' BY Zenon DEF EdgeKept, Shape, InHandler
  <1> QED BY <1>1, <1>2, <1>3, <1>4, <1>5, <1>6, <1>7

(* The client's FIN makes one too. *)
LEMMA ClientFinStep == ASSUME IInv, ClientFin PROVE IInv'
  <1> USE ConnectionAssumption DEF IInv, ClientFin
  <1>0. ready' \in BOOLEAN BY DEF TypeOK
  <1>1. TypeOK' BY <1>0 DEF TypeOK
  <1>2. Shape'
    BY DEF Shape, BlockedWriteConsistent, InHandler, Waiting, HeadOut, Room,
           BodyOut, FilesOwned
  <1>3. InputConserved' BY DEF InputConserved
  <1>4. BlockedWriteConsistent' BY DEF BlockedWriteConsistent, HeadOut, BodyOut
  <1>5. FilesOwned' BY DEF FilesOwned
  <1>6. NoLostEdge' BY Zenon DEF NoLostEdge, Poll, Unread, Room
  <1>7. EdgeKept' BY Zenon DEF EdgeKept, Shape, InHandler
  <1> QED BY Zenon, <1>1, <1>2, <1>3, <1>4, <1>5, <1>6, <1>7

(* A reset makes an edge under either mask. *)
LEMMA ClientResetStep == ASSUME IInv, ClientReset PROVE IInv'
  <1> USE ConnectionAssumption DEF IInv, ClientReset
  <1>0. ready' \in BOOLEAN BY DEF TypeOK
  <1>1. TypeOK' BY <1>0 DEF TypeOK
  <1>2. Shape'
    BY DEF Shape, BlockedWriteConsistent, InHandler, Waiting, HeadOut, Room,
           BodyOut, FilesOwned
  <1>3. InputConserved' BY DEF InputConserved
  <1>4. BlockedWriteConsistent' BY DEF BlockedWriteConsistent, HeadOut, BodyOut
  <1>5. FilesOwned' BY DEF FilesOwned
  <1>6. NoLostEdge' BY DEF NoLostEdge
  <1>7. EdgeKept' BY DEF EdgeKept
  <1> QED BY <1>1, <1>2, <1>3, <1>4, <1>5, <1>6, <1>7

(* Draining makes an edge if the buffer was full: only then was it armed. *)
LEMMA ClientDrainStep == ASSUME IInv, ClientDrain PROVE IInv'
  <1> USE ConnectionAssumption DEF IInv, ClientDrain
  <1>0. ready' \in BOOLEAN BY DEF TypeOK
  <1>1. TypeOK' BY <1>0 DEF TypeOK
  <1>2. Shape'
    BY DEF Shape, TypeOK, InHandler, Waiting, Room, HeadOut, BodyOut,
           InputConserved, BlockedWriteConsistent, FilesOwned, Unread
  <1>3. InputConserved' BY DEF InputConserved
  <1>4. BlockedWriteConsistent' BY DEF BlockedWriteConsistent, HeadOut, BodyOut
  <1>5. FilesOwned' BY DEF FilesOwned
  <1>6. NoLostEdge'
    <2> SUFFICES ASSUME pc = "epoll_wait", ~ready' PROVE ~Poll(interest)'
      BY DEF NoLostEdge
    <2>1. ~rst /\ ~ready /\ ~Poll(interest) BY Zenon DEF NoLostEdge, TypeOK
    <2>2. CASE interest = "IN" BY <2>1, <2>2 DEF Poll, Unread
    <2>3. CASE interest = "OUT"
      <3>1. Room # 0 BY Zenon, <2>3
      <3>a. Room \in Int BY DEF TypeOK, Room
      <3>b. Room >= 0 BY Zenon DEF Shape
      <3>2. Room > 0 BY <3>1, <3>a, <3>b
      <3> QED BY <2>1, <2>3, <3>2 DEF Poll
    <2> QED BY <2>2, <2>3 DEF TypeOK
  <1>7. EdgeKept' BY Zenon DEF EdgeKept, Poll, Unread
  <1> QED BY Zenon, <1>1, <1>2, <1>3, <1>4, <1>5, <1>6, <1>7

(* Truncating the file changes nothing the server has recorded. *)
LEMMA FileShrinksStep == ASSUME IInv, FileShrinks PROVE IInv'
  <1> USE ConnectionAssumption DEF IInv, FileShrinks
  <1>0. ready' \in BOOLEAN BY DEF TypeOK
  <1>1. TypeOK' BY <1>0 DEF TypeOK
  <1>2. Shape'
    BY DEF Shape, BlockedWriteConsistent, InHandler, Waiting, HeadOut, Room,
           BodyOut, FilesOwned
  <1>3. InputConserved' BY DEF InputConserved
  <1>4. BlockedWriteConsistent' BY DEF BlockedWriteConsistent, HeadOut, BodyOut
  <1>5. FilesOwned' BY DEF FilesOwned
  <1>6. NoLostEdge' BY DEF NoLostEdge, Poll, Unread, Room
  <1>7. EdgeKept' BY DEF EdgeKept, Poll, Unread
  <1> QED BY <1>1, <1>2, <1>3, <1>4, <1>5, <1>6, <1>7

(* epoll_wait() takes an edge, or drops one that no longer holds. *)
LEMMA EpollWaitStep == ASSUME IInv, EpollWait PROVE IInv'
  <1> USE ConnectionAssumption DEF IInv, EpollWait
  <1>0. ready' \in BOOLEAN BY Zenon DEF TypeOK
  <1>1. TypeOK' BY <1>0 DEF TypeOK
  <1>2. Shape' BY DEF Shape, InHandler, Waiting, Room, HeadOut
  <1>3. InputConserved' BY DEF InputConserved
  <1>4. BlockedWriteConsistent' BY DEF BlockedWriteConsistent, HeadOut, BodyOut
  <1>5. FilesOwned' BY DEF FilesOwned
  <1>6. NoLostEdge' BY DEF NoLostEdge, Poll, Unread, Room
  <1>7. EdgeKept' BY DEF EdgeKept
  <1> QED BY Zenon, <1>1, <1>2, <1>3, <1>4, <1>5, <1>6, <1>7

(* The event loop picks the handler by awaiting_writable. *)
LEMMA DispatchStep == ASSUME IInv, Dispatch PROVE IInv'
  <1> USE ConnectionAssumption DEF IInv, Dispatch
  <1>0. ready' \in BOOLEAN BY DEF TypeOK
  <1>1. TypeOK' BY ZenonT(60), <1>0 DEF TypeOK
  <1>2. Shape'
    BY Zenon DEF Shape, TypeOK, InHandler, Waiting, Room, HeadOut, BodyOut,
           InputConserved, BlockedWriteConsistent, FilesOwned, Unread
  <1>3. InputConserved' BY Zenon DEF InputConserved
  <1>4. BlockedWriteConsistent' BY DEF BlockedWriteConsistent
  <1>5. FilesOwned' BY Zenon DEF FilesOwned
  <1>6. NoLostEdge' BY DEF NoLostEdge
  <1>7. EdgeKept' BY DEF EdgeKept
  <1> QED BY Zenon, <1>1, <1>2, <1>3, <1>4, <1>5, <1>6, <1>7

(* read() hands its bytes to process_input(). *)
LEMMA ReadBytesStep == ASSUME IInv, ReadBytes PROVE IInv'
  <1> USE ConnectionAssumption DEF IInv, ReadBytes
  <1>0. ready' \in BOOLEAN BY DEF TypeOK
  <1>1. TypeOK' BY <1>0 DEF TypeOK
  <1>2. Shape'
    BY DEF Shape, TypeOK, InputConserved, InHandler, Waiting, Room, HeadOut,
           Unread
  <1>3. InputConserved' BY DEF InputConserved, Shape, InHandler
  <1>4. BlockedWriteConsistent' BY DEF BlockedWriteConsistent
  <1>5. FilesOwned' BY Zenon DEF FilesOwned
  <1>6. NoLostEdge' BY Zenon DEF NoLostEdge
  <1>7. EdgeKept' BY Zenon DEF EdgeKept, Shape, InHandler
  <1> QED BY Zenon, <1>1, <1>2, <1>3, <1>4, <1>5, <1>6, <1>7

(* EAGAIN from read(): the socket is dry, so the edge may be given up. *)
LEMMA ReadAgainStep == ASSUME IInv, ReadAgain PROVE IInv'
  <1> USE ConnectionAssumption DEF IInv, ReadAgain
  <1>0. ready' \in BOOLEAN BY DEF TypeOK
  <1>1. TypeOK' BY <1>0 DEF TypeOK
  <1>2. Shape' BY Zenon DEF Shape, InHandler, Waiting, Room, HeadOut
  <1>3. InputConserved' BY Zenon DEF InputConserved
  <1>4. BlockedWriteConsistent'
    BY Zenon DEF BlockedWriteConsistent, Shape, InHandler, HeadOut, BodyOut
  <1>5. FilesOwned' BY Zenon DEF FilesOwned
  <1>6. NoLostEdge' BY DEF NoLostEdge, EdgeKept, Poll, Unread, Shape, InHandler
  <1>7. EdgeKept' BY Zenon DEF EdgeKept
  <1> QED BY Zenon, <1>1, <1>2, <1>3, <1>4, <1>5, <1>6, <1>7

(* process_input() has gone through the chunk. *)
LEMMA InputConsumedStep == ASSUME IInv, InputConsumed PROVE IInv'
  <1> USE ConnectionAssumption, RepliesAssumption
        DEF IInv, InputConsumed, AfterInput
  <1>0. ready' \in BOOLEAN BY DEF TypeOK
  <1>1. TypeOK' BY <1>0 DEF TypeOK
  <1>2. Shape' BY DEF Shape, InHandler, Waiting, Room, HeadOut
  <1>3. InputConserved' BY Zenon DEF InputConserved, Shape, InHandler
  <1>4. BlockedWriteConsistent'
    BY Zenon DEF BlockedWriteConsistent, Shape, InHandler, HeadOut, BodyOut
  <1>5. FilesOwned' BY DEF FilesOwned
  <1>6. NoLostEdge' BY DEF NoLostEdge, EdgeKept, Poll, Unread, Shape, InHandler
  <1>7. EdgeKept' BY DEF EdgeKept
  <1> QED BY Zenon, <1>1, <1>2, <1>3, <1>4, <1>5, <1>6, <1>7

(* The parser took the rest of the chunk. *)
LEMMA ParseIncompleteStep == ASSUME IInv, ParseIncomplete PROVE IInv'
  <1> USE ConnectionAssumption, RepliesAssumption
        DEF IInv, ParseIncomplete, AfterInput
  <1>0. ready' \in BOOLEAN BY DEF TypeOK
  <1>1. TypeOK' BY ZenonT(60), <1>0 DEF TypeOK
  <1>2. Shape'
    BY DEF Shape, TypeOK, InputConserved, InHandler, Waiting, Room, HeadOut,
           Unread
  <1>3. InputConserved' BY DEF InputConserved, Shape, InHandler
  <1>4. BlockedWriteConsistent'
    BY Zenon DEF BlockedWriteConsistent, Shape, InHandler, HeadOut, BodyOut
  <1>5. FilesOwned' BY DEF FilesOwned
  <1>6. NoLostEdge' BY DEF NoLostEdge, EdgeKept, Poll, Unread, Shape, InHandler
  <1>7. EdgeKept' BY DEF EdgeKept
  <1> QED BY Zenon, <1>1, <1>2, <1>3, <1>4, <1>5, <1>6, <1>7

(* prepare_response() sets up a response and owns the file, if any. *)
LEMMA ParseRequestStep == ASSUME IInv, ParseRequest PROVE IInv'
  <1> USE ConnectionAssumption DEF IInv
  <1>0. PICK e \in chunk.lo .. chunk.hi :
         /\ StopsAt(e)
         /\ parser' = [parser EXCEPT !.end = e,
                         !.state = IF stream[e].malformed THEN "ERROR" ELSE "DONE"]
         /\ prepare_response(e, KeepAliveRequested(stream[e]))
         /\ chunk' = [chunk EXCEPT !.lo = e]
    BY Zenon DEF ParseRequest
  <1> DEFINE r == stream[e]
  <1>1. /\ pc = "process_input" /\ pc' = "send_response"
        /\ UNCHANGED <<net, epoll, handler, rcvd, pending_input, awaiting_writable>>
    BY Zenon DEF ParseRequest
  <1>2. /\ parser.state = "PARSING" /\ HeadOut /\ file_fd = -1 /\ open_files = {}
        /\ ~awaiting_writable
    BY <1>1 DEF Shape, FilesOwned, InHandler
  <1>3. /\ chunk.lo \in Nat /\ chunk.hi \in Nat /\ chunk.hi = rcvd
        /\ parser.end = chunk.lo
    BY Zenon, <1>1 DEF TypeOK, InputConserved
  <1>4. e \in Nat \ {0} /\ e > chunk.lo /\ e <= chunk.hi /\ r \in Requests
    BY <1>0, <1>2, <1>3 DEF StopsAt, EndsNext
  <1>5. /\ r.malformed \in BOOLEAN /\ r.keep \in BOOLEAN /\ r.file \in BOOLEAN
        /\ r.head \in Nat \ {0} /\ r.body \in Nat
    BY Zenon, <1>4, RepliesAssumption
  <1> HIDE DEF r
  <1>6. KeepAliveRequested(r) \in BOOLEAN BY Zenon, <1>5 DEF KeepAliveRequested
  <1>7. /\ write_buf' \in {<<e, "head">>, <<e, "error">>}
        /\ write_len' \in Nat \ {0} /\ write_sent' = 0
        /\ keep_alive_after_write' \in BOOLEAN
    <2>1. CASE r.head >= RESPONSE_BUF_SIZE
      <3>1. /\ write_buf' = <<e, "error">> /\ write_len' = InternalErrorLen
            /\ write_sent' = 0 /\ keep_alive_after_write' = FALSE
        BY <2>1, <1>0 DEF prepare_response, r
      <3>2. InternalErrorLen \in Nat \ {0} BY RepliesAssumption
      <3> QED BY Zenon, <3>1, <3>2
    <2>2. CASE ~(r.head >= RESPONSE_BUF_SIZE)
      <3>1. keep_alive_after_write' = KeepAliveRequested(r)
        BY Zenon, <2>2, <1>0 DEF prepare_response, r
      <3> QED BY Zenon, <2>2, <3>1, <1>0, <1>5, <1>6 DEF prepare_response, r
    <2> QED BY <2>1, <2>2
  <1>8. \/ /\ file_fd' = -1 /\ file_offset' = file_offset
           /\ file_size' = file_size /\ file_len' = file_len
           /\ open_files' = {}
        \/ /\ file_fd' = e /\ file_offset' = 0 /\ file_size' \in Nat
           /\ file_len' \in Nat /\ open_files' = {e}
    <2> DEFINE opened == open_files \cup IF r.file THEN {e} ELSE {}
    <2>1. opened = IF r.file THEN {e} ELSE {} BY Zenon, <1>2
    <2>2. opened \ OverflowCloses(e) = {} BY Zenon, <2>1 DEF OverflowCloses
    <2>3. CASE r.head >= RESPONSE_BUF_SIZE
      <3>1. /\ open_files' = opened \ OverflowCloses(e)
            /\ UNCHANGED <<file_fd, file_offset, file_size, file_len>>
        BY Zenon, <1>0, <2>3 DEF prepare_response, r
      <3> QED BY Zenon, <1>2, <2>2, <3>1
    <2>4. CASE ~(r.head >= RESPONSE_BUF_SIZE)
      <3>1. CASE r.file
        <4>1. /\ file_fd' = e /\ file_offset' = 0 /\ file_size' = r.body
              /\ file_len' = r.body /\ open_files' = opened
          BY Zenon, <1>0, <2>4, <3>1 DEF prepare_response, r
        <4> QED BY Zenon, <1>5, <2>1, <3>1, <4>1
      <3>2. CASE ~r.file
        <4>1. UNCHANGED file BY Zenon, <1>0, <2>4, <3>2 DEF prepare_response, r
        <4> QED BY Zenon, <1>2, <4>1
      <3> QED BY Zenon, <3>1, <3>2
    <2> QED BY Zenon, <2>3, <2>4
  <1>9. /\ parser'.end = e
        /\ parser' \in [state : {"PARSING", "DONE", "ERROR"}, start : Nat, end : Nat]
        /\ chunk' = [lo |-> e, hi |-> chunk.hi]
    BY Zenon, <1>0, <1>3, <1>4 DEF TypeOK
  <1>a. TypeOK'
    <2>1. (write_buf \in Nat \X Part)' BY <1>4, <1>7 DEF Part
    <2>2. /\ file_fd' \in (Nat \ {0}) \cup {-1} /\ file_offset' \in Nat
          /\ file_size' \in Nat /\ file_len' \in Nat /\ open_files' \subseteq Nat
      <3>1. CASE file_fd' = e BY <3>1, <1>4, <1>8
      <3>2. CASE file_fd' = -1
        <4>1. e # -1 BY <1>4
        <4> QED BY Zenon, <3>2, <4>1, <1>8 DEF TypeOK
      <3> QED BY <3>1, <3>2, <1>8
    <2>3. chunk' \in Buffers BY Zenon, <1>3, <1>4, <1>9
    <2> QED BY ZenonT(60), <1>1, <1>7, <1>9, <2>1, <2>2, <2>3 DEF TypeOK
  <1>b. Shape'
    <2>0. file_offset <= file_size /\ chunk.hi - chunk.lo <= READ_CHUNK_SIZE
      BY <1>1 DEF Shape
    <2>1. (file_offset <= file_size)' BY <1>8, <2>0
    <2>2. write_buf'[1] # 0 BY <1>4, <1>7
    <2>3. /\ (parser.end <= rcvd)' /\ (write_sent <= write_len)'
          /\ (chunk.lo <= chunk.hi)'
      BY <1>1, <1>3, <1>4, <1>7, <1>9
    <2>4. (chunk.hi - chunk.lo <= READ_CHUNK_SIZE)' BY <1>3, <1>4, <1>9, <2>0
    <2> QED BY <1>1, <2>1, <2>2, <2>3, <2>4 DEF Shape, InHandler, Waiting, Room
  <1>c. InputConserved' BY Zenon, <1>1, <1>2, <1>3, <1>9 DEF InputConserved
  <1>d. BlockedWriteConsistent' BY <1>1 DEF BlockedWriteConsistent
  <1>e. FilesOwned' BY <1>1, <1>2, <1>4, <1>8 DEF FilesOwned
  <1>f. NoLostEdge' BY <1>1 DEF NoLostEdge
  <1>g. EdgeKept' BY Zenon, <1>1 DEF EdgeKept, Poll, Unread
  <1> QED BY Zenon, <1>a, <1>b, <1>c, <1>d, <1>e, <1>f, <1>g

(* try_flush_write_buffer() sends the next bytes of write_buf. *)
LEMMA HeadExtends ==
  ASSUME IInv, WriteHead
  PROVE  \E n \in Nat : /\ n > 0 /\ n <= Room
                        /\ write_sent + n <= write_len
                        /\ write_sent' = write_sent + n
                        /\ Extended(out', out, write_buf[1], write_buf[2], write_sent, n)
  <1> DEFINE e == write_buf[1]
             part == write_buf[2]
  <1>1. PICK n \in 1 .. write_len - write_sent :
         /\ n <= Room
         /\ out' = out \o [i \in 1 .. n |->
                             <<write_buf[1], write_buf[2], write_sent + i>>]
         /\ write_sent' = write_sent + n
    BY Zenon DEF WriteHead
  <1>2. /\ write_len \in Nat /\ write_sent \in Nat /\ out \in Seq(ReplyByte)
        /\ n \in Nat /\ n > 0 /\ write_sent + n <= write_len
    BY DEF IInv, TypeOK
  <1>3. e \in Nat \ {0} /\ part \in Part BY <1>2 DEF IInv, TypeOK, Shape
  <1>4. out' = out \o Bytes(e, part, write_sent, n) BY <1>1 DEF Bytes
  <1> HIDE DEF e, part
  <1>5. Extended(out', out, e, part, write_sent, n)
    BY Zenon, <1>2, <1>3, <1>4, BytesAppended
  <1> QED BY Zenon, <1>1, <1>2, <1>5 DEF e, part

(* A write() of part of write_buf. *)
LEMMA WriteHeadStep == ASSUME IInv, WriteHead PROVE IInv'
  <1> USE ConnectionAssumption DEF IInv
  <1>0. PICK n \in Nat : /\ n > 0 /\ n <= Room
                         /\ write_sent + n <= write_len
                         /\ write_sent' = write_sent + n
                         /\ Extended(out', out, write_buf[1], write_buf[2], write_sent, n)
    BY HeadExtends
  <1>1. /\ Flushing /\ ~HeadOut /\ ~rst
        /\ UNCHANGED <<stream, fin, rst, drained, epoll, control, input, write_buf,
                       write_len, keep_alive_after_write, awaiting_writable, file>>
    BY DEF WriteHead
  <1>2. out' \in Seq(ReplyByte) /\ Len(out') = Len(out) + n BY <1>0 DEF Extended
  <1>a. TypeOK'
    <2>1. write_sent' \in Nat BY <1>0 DEF TypeOK
    <2> QED BY <1>1, <1>2, <2>1 DEF TypeOK
  <1>b. Shape'
    <2>1. (drained <= Len(out) /\ Room >= 0)'
      BY <1>0, <1>1, <1>2 DEF Shape, TypeOK, Room
    <2> QED BY ZenonT(60), <1>0, <1>1, <2>1 DEF Shape, InHandler, Waiting, Flushing
  <1>c. InputConserved' BY <1>1 DEF InputConserved
  <1>d. BlockedWriteConsistent' BY <1>1 DEF BlockedWriteConsistent, Flushing
  <1>e. FilesOwned' BY <1>1 DEF FilesOwned
  <1>f. NoLostEdge' BY <1>1 DEF NoLostEdge, Flushing
  <1>g. EdgeKept' BY <1>1 DEF EdgeKept, Poll, Unread
  <1> QED BY Zenon, <1>a, <1>b, <1>c, <1>d, <1>e, <1>f, <1>g

(* try_sendfile_body() sends the next bytes of the file. *)
LEMMA BodyExtends ==
  ASSUME IInv, SendBody
  PROVE  \E n \in Nat : /\ n > 0 /\ n <= Room
                        /\ file_offset + n <= file_size
                        /\ file_offset' = file_offset + n
                        /\ Extended(out', out, file_fd, "body", file_offset, n)
  <1>1. PICK n \in 1 .. file_size - file_offset :
         /\ n <= Room
         /\ out' = out \o [i \in 1 .. n |-> <<file_fd, "body", file_offset + i>>]
         /\ file_offset' = file_offset + n
    BY Zenon DEF SendBody
  <1>2. /\ file_size \in Nat /\ file_offset \in Nat /\ out \in Seq(ReplyByte)
        /\ n \in Nat /\ n > 0 /\ file_offset + n <= file_size
    BY DEF IInv, TypeOK
  <1>3. file_fd \in Nat \ {0} /\ "body" \in Part
    BY Zenon DEF IInv, TypeOK, SendBody, BodyOut, Part
  <1>4. out' = out \o Bytes(file_fd, "body", file_offset, n) BY <1>1 DEF Bytes
  <1>5. Extended(out', out, file_fd, "body", file_offset, n)
    BY <1>2, <1>3, <1>4, BytesAppended
  <1> QED BY Zenon, <1>1, <1>2, <1>5

(* A sendfile() of part of the body. *)
LEMMA SendBodyStep == ASSUME IInv, SendBody PROVE IInv'
  <1> USE ConnectionAssumption DEF IInv
  <1>0. PICK n \in Nat : /\ n > 0 /\ n <= Room
                         /\ file_offset + n <= file_size
                         /\ file_offset' = file_offset + n
                         /\ Extended(out', out, file_fd, "body", file_offset, n)
    BY BodyExtends
  <1>1. /\ Flushing /\ HeadOut /\ ~BodyOut /\ ~rst
        /\ UNCHANGED <<stream, fin, rst, drained, epoll, control, input, reply,
                       awaiting_writable, file_fd, file_size, file_len, open_files>>
    BY Zenon DEF SendBody
  <1>2. out' \in Seq(ReplyByte) /\ Len(out') = Len(out) + n BY <1>0 DEF Extended
  <1>a. TypeOK'
    <2>1. file_offset' \in Nat BY <1>0 DEF TypeOK
    <2> QED BY <1>1, <1>2, <2>1 DEF TypeOK
  <1>b. Shape'
    <2>1. (drained <= Len(out) /\ Room >= 0)'
      BY <1>0, <1>1, <1>2 DEF Shape, TypeOK, Room
    <2> QED BY ZenonT(60), <1>0, <1>1, <2>1 DEF Shape, InHandler, Waiting, Flushing
  <1>c. InputConserved' BY <1>1 DEF InputConserved
  <1>d. BlockedWriteConsistent' BY <1>1 DEF BlockedWriteConsistent, Flushing
  <1>e. FilesOwned' BY <1>1 DEF FilesOwned
  <1>f. NoLostEdge' BY <1>1 DEF NoLostEdge, Flushing
  <1>g. EdgeKept' BY <1>1 DEF EdgeKept, Poll, Unread
  <1> QED BY Zenon, <1>a, <1>b, <1>c, <1>d, <1>e, <1>f, <1>g

(* EAGAIN: the response stays unsent and EPOLLOUT is or will be armed. *)
LEMMA FlushBlocksStep == ASSUME IInv, FlushBlocks PROVE IInv'
  <1> USE ConnectionAssumption, RepliesAssumption
        DEF IInv, FlushBlocks, Flushing, AfterBlock
  <1>0. ready' \in BOOLEAN BY DEF TypeOK
  <1>1. TypeOK' BY <1>0 DEF TypeOK
  <1>2. Shape'
    BY Zenon DEF Shape, BlockedWriteConsistent, InHandler, Waiting, HeadOut, Room,
           BodyOut, FilesOwned
  <1>3. InputConserved' BY ZenonT(60) DEF InputConserved, Shape, InHandler
  <1>4. BlockedWriteConsistent'
    BY DEF BlockedWriteConsistent, Shape, InHandler, HeadOut, BodyOut
  <1>5. FilesOwned' BY DEF FilesOwned
  <1>6. NoLostEdge'
    <2>1. CASE pc = "send_response" BY <2>1 DEF NoLostEdge
    <2>2. CASE pc = "flush_pending_write"
      <3>1. interest = "OUT" /\ interest' = "OUT" BY ZenonT(60), <2>2 DEF Shape
      <3>2. Room \in Int BY DEF Room, TypeOK
      <3>3. ~(Room > 0) BY <3>2
      <3>4. ~(Room' > 0) BY Zenon, <3>3 DEF Room
      <3> QED BY <3>1, <3>4 DEF NoLostEdge, Poll
    <2> QED BY Zenon, <2>1, <2>2
  <1>7. EdgeKept' BY DEF EdgeKept, Poll, Unread
  <1> QED BY ZenonT(60), <1>1, <1>2, <1>3, <1>4, <1>5, <1>6, <1>7

(* send_response() arms EPOLLOUT and the rest of the chunk is stashed. *)
LEMMA ArmWritableStep == ASSUME IInv, ArmWritable PROVE IInv'
  <1> USE ConnectionAssumption, RepliesAssumption
        DEF IInv, ArmWritable, EpollMod, stash_pending_input
  <1>0. ready' \in BOOLEAN BY DEF TypeOK
  <1>1. TypeOK' BY <1>0 DEF TypeOK
  <1>2. Shape' BY DEF Shape, InHandler, Waiting, Room, HeadOut
  <1>3. InputConserved' BY Zenon DEF InputConserved, Shape, InHandler
  <1>4. BlockedWriteConsistent'
    BY Zenon DEF BlockedWriteConsistent, Shape, InHandler, HeadOut, BodyOut
  <1>5. FilesOwned' BY DEF FilesOwned
  <1>6. NoLostEdge' BY Zenon DEF NoLostEdge, Poll, Unread, Room
  <1>7. EdgeKept' BY DEF EdgeKept
  <1> QED BY ZenonT(60), <1>1, <1>2, <1>3, <1>4, <1>5, <1>6, <1>7

(* A connection that has just been reset for the next request has the      *)
(* shape its place in the code asks for.                                   *)
LEMMA FreshShape ==
  ASSUME rcvd' <= Len(stream'), parser'.end <= rcvd', drained' <= Len(out'),
         Room' >= 0, parser'.state = "PARSING",
         write_sent' = 0, write_len' = 0, file_offset' = 0, file_size' = 0,
         file_fd' = -1, ~awaiting_writable', interest' = "IN",
         \/ pc' = "epoll_wait"
         \/ /\ pc' = "process_input"
            /\ chunk'.lo <= chunk'.hi
            /\ chunk'.hi - chunk'.lo <= READ_CHUNK_SIZE
            /\ pending_input'.lo = pending_input'.hi
            /\ handler' \in {"read", "flush_pending_write"}
  PROVE  Shape'
  BY DEF Shape, InHandler, Waiting, HeadOut

(* finish_after_response_sent() and what its callers go on with. *)
LEMMA FinishKeepAliveStep == ASSUME IInv, FinishKeepAlive PROVE IInv'
  <1> USE ConnectionAssumption DEF IInv
  <1>1. /\ pc \in {"send_response", "flush_pending_write"} /\ HeadOut /\ BodyOut
        /\ file_fd' = -1 /\ file_offset' = 0 /\ file_size' = 0
        /\ open_files' = open_files \ {file_fd} /\ file_len' = file_len
        /\ parser' = [state |-> "PARSING", start |-> parser.end, end |-> parser.end]
        /\ write_len' = 0 /\ write_sent' = 0 /\ awaiting_writable' = FALSE
        /\ UNCHANGED <<net, handler, rcvd, write_buf, keep_alive_after_write>>
    BY DEF FinishKeepAlive, Flushing, release_file_body
  <1>2. open_files' = {} BY <1>1 DEF FilesOwned
  <1>3. parser.end \in Nat /\ parser.end <= rcvd BY Zenon DEF TypeOK, Shape
  <1>6. /\ rcvd' <= Len(stream') /\ drained' <= Len(out') /\ Room' >= 0
        /\ parser'.state = "PARSING" /\ parser'.end <= rcvd'
    BY Zenon, <1>1, <1>3 DEF Shape, Room
  <1>4. CASE pc = "send_response"
    <2>1. /\ pc' = "process_input" /\ interest = "IN" /\ ~awaiting_writable
          /\ UNCHANGED <<epoll, chunk, pending_input>>
      BY <1>4 DEF FinishKeepAlive, Shape, InHandler
    <2>a. TypeOK' BY ZenonT(60), <1>1, <1>2, <1>3, <2>1 DEF TypeOK
    <2>b. Shape'
      <3>1. /\ chunk.lo <= chunk.hi /\ chunk.hi - chunk.lo <= READ_CHUNK_SIZE
            /\ pending_input.lo = pending_input.hi
            /\ handler \in {"read", "flush_pending_write"}
        BY <1>4 DEF Shape, InHandler
      <3>2. handler' = handler /\ chunk' = chunk /\ pending_input' = pending_input
        BY Zenon, <1>1, <2>1
      <3> QED BY <1>1, <1>6, <2>1, <3>1, <3>2, FreshShape
    <2>c. InputConserved' BY Zenon, <1>1, <1>4, <2>1 DEF InputConserved
    <2>d. BlockedWriteConsistent' BY <2>1 DEF BlockedWriteConsistent
    <2>e. FilesOwned' BY <1>1, <1>2 DEF FilesOwned
    <2>f. NoLostEdge' BY <2>1 DEF NoLostEdge
    <2>g. EdgeKept' BY Zenon, <1>1, <1>4, <2>1 DEF EdgeKept, Poll, Unread
    <2> QED BY <2>a, <2>b, <2>c, <2>d, <2>e, <2>f, <2>g
  <1>5. CASE pc = "flush_pending_write"
    <2>1. awaiting_writable /\ interest' = "IN" /\ ready' = (ready \/ Poll("IN"))
          /\ event' = event
      BY <1>5 DEF FinishKeepAlive, EpollMod, Shape
    <2>2. ready' \in BOOLEAN BY <2>1 DEF TypeOK, Poll
    <2>3. Poll("IN")' => ready' BY Zenon, <1>1, <2>1 DEF Poll, Unread
    <2>4. \/ /\ pc' = "process_input" /\ chunk' = pending_input
             /\ pending_input' = Nothing
             /\ pending_input.lo < pending_input.hi
          \/ /\ pc' = "epoll_wait" /\ UNCHANGED <<chunk, pending_input>>
             /\ ~(pending_input.lo < pending_input.hi)
      BY <1>5 DEF FinishKeepAlive
    <2>5. /\ pending_input.lo = parser.end /\ pending_input.hi = rcvd
          /\ pending_input.hi - pending_input.lo <= READ_CHUNK_SIZE
          /\ handler = "flush_pending_write"
      BY <1>5, <2>1 DEF InputConserved, Shape
    <2>a. TypeOK'
      <3>1. chunk' \in Buffers /\ pending_input' \in Buffers
        BY <2>4 DEF TypeOK, Nothing
      <3>2. pc' \in {"process_input", "epoll_wait"} BY <2>4
      <3> QED BY ZenonT(60), <1>1, <1>2, <1>3, <2>1, <2>2, <3>1, <3>2 DEF TypeOK
    <2>b. Shape'
      <3>1. CASE pc' = "process_input"
        <4>1. /\ (pending_input.lo = pending_input.hi)'
              /\ (chunk.lo <= chunk.hi)'
              /\ (chunk.hi - chunk.lo <= READ_CHUNK_SIZE)'
          BY <1>3, <2>4, <2>5, <3>1 DEF TypeOK, Nothing
        <4> QED BY <1>1, <1>6, <2>1, <2>5, <3>1, <4>1, FreshShape
      <3>2. CASE pc' = "epoll_wait"
        BY <1>1, <1>6, <2>1, <3>2, FreshShape
      <3> QED BY Zenon, <2>4, <3>1, <3>2
    <2>c. InputConserved'
      <3>1. CASE pc' = "process_input"
        <4>1. chunk' = pending_input /\ pending_input' = Nothing BY <2>4, <3>1
        <4> QED BY <1>1, <2>5, <3>1, <4>1 DEF InputConserved, Nothing
      <3>2. CASE pc' = "epoll_wait"
        <4>1. pending_input' = pending_input
              /\ ~(pending_input.lo < pending_input.hi)
          BY <2>4, <3>2
        <4>2. pending_input.lo \in Nat /\ pending_input.hi \in Nat
          BY Zenon DEF TypeOK
        <4>3. parser.end = rcvd /\ pending_input.lo = pending_input.hi
          BY <1>3, <2>5, <4>1, <4>2
        <4>4. pending_input'.hi - pending_input'.lo <= READ_CHUNK_SIZE
          BY ZenonT(60), <2>5, <4>1
        <4> QED BY <1>1, <3>2, <4>1, <4>3, <4>4 DEF InputConserved
      <3> QED BY ZenonT(60), <2>4, <3>1, <3>2
    <2>d. BlockedWriteConsistent'
      BY <1>1, <2>1, <2>4 DEF BlockedWriteConsistent, HeadOut, BodyOut
    <2>e. FilesOwned' BY <1>1, <1>2 DEF FilesOwned
    <2>f. NoLostEdge' BY <2>1, <2>3 DEF NoLostEdge
    <2>g. EdgeKept' BY <2>3 DEF EdgeKept
    <2> QED BY ZenonT(60), <2>a, <2>b, <2>c, <2>d, <2>e, <2>f, <2>g
  <1> QED BY <1>1, <1>4, <1>5

-----------------------------------------------------------------------------
(* The invariant is inductive: every step of the loop thread, of the       *)
(* client and of the kernel preserves it.                                  *)
LEMMA NextStep == ASSUME IInv, Next PROVE IInv'
  <1>1. CASE LoopStep
    BY <1>1, CloseStep, EpollWaitStep, DispatchStep, ReadBytesStep,
       ReadAgainStep, InputConsumedStep, ParseIncompleteStep, ParseRequestStep,
       WriteHeadStep, SendBodyStep, FlushBlocksStep, ArmWritableStep,
       FinishKeepAliveStep
    DEF LoopStep, DispatchError, ReadEof, ReadError, FlushFails, ArmFails,
        FinishClose
  <1>2. CASE Client
    BY <1>2, ClientSendStep, ClientFinStep, ClientResetStep, ClientDrainStep
    DEF Client
  <1>3. CASE FileShrinks BY Zenon, <1>3, FileShrinksStep
  <1>4. CASE LoopCloses BY <1>4, CloseStep DEF LoopCloses
  <1>5. CASE Closed BY <1>5, StutterStep DEF Closed
  <1> QED BY <1>1, <1>2, <1>3, <1>4, <1>5 DEF Next

(* Every reachable state of a connection satisfies the invariant. *)
THEOREM Invariance == Spec => []IInv
  <1>1. Init => IInv BY InitStep
  <1>2. IInv /\ [Next]_vars => IInv' BY NextStep, StutterStep
  <1> QED BY <1>1, <1>2, PTL DEF Spec

(* connection_t keeps its types: file_fd in particular is -1 or a real     *)
(* descriptor, and every byte sent belongs to some reply.                  *)
THEOREM TypeCorrect == Spec => []TypeOK
  <1>1. IInv => TypeOK BY DEF IInv
  <1> QED BY <1>1, Invariance, PTL

(* stash_pending_input() and the resume in flush_pending_write() lose no   *)
(* byte that was read, for any read size and any pipelining.               *)
THEOREM InputIsConserved == Spec => []InputConserved
  <1>1. IInv => InputConserved BY DEF IInv
  <1> QED BY <1>1, Invariance, PTL

(* Whenever the thread is outside the handlers, awaiting_writable, the     *)
(* armed direction and the unsent rest of a response agree.                *)
THEOREM BlockedWritesAreArmed == Spec => []BlockedWriteConsistent
  <1>1. IInv => BlockedWriteConsistent BY DEF IInv
  <1> QED BY <1>1, Invariance, PTL

(* No descriptor of a served file outlives its response. *)
THEOREM FilesAreReleased == Spec => []FilesOwned
  <1>1. IInv => FilesOwned BY DEF IInv
  <1> QED BY <1>1, Invariance, PTL

(* The edge-triggered registration never goes to sleep on a readable or    *)
(* writable socket.                                                        *)
THEOREM EdgesAreNotLost == Spec => []NoLostEdge
  <1>1. IInv => NoLostEdge BY DEF IInv
  <1> QED BY <1>1, Invariance, PTL

-----------------------------------------------------------------------------
(* Replies come in order, and Connection implements HttpExchange. *)

Last(o) == o[Len(o)]

(* No response is on its way, or one is. *)
Idle    == pc \in {"read", "process_input"} \/ (Waiting /\ ~awaiting_writable)
Pending == Responding \/ (Waiting /\ awaiting_writable)

(* What was sent ends with the last byte of the reply to the request that  *)
(* ends at d, and the connection may go on after it.                       *)
EndsReplyTo(s, o, d) ==
  IF o = <<>> THEN d = 0
  ELSE /\ Last(o)[1] = d
       /\ ClosesReply(s, Last(o))
       /\ KeepsAlive(s[d])

(* Between two replies the parser has seen no end of a request since. *)
Between ==
  /\ EndsReplyTo(stream, out, parser.start)
  /\ \A i \in (parser.start + 1) .. parser.end : stream[i] = Mid

(* The response in the making is the one for the request the parser        *)
(* stopped at.                                                             *)
Prepared(e) ==
  LET r == stream[e] IN
  /\ e = parser.end
  /\ EndsNext(stream, parser.start, e)
  /\ write_buf[2] = BufferPart(r) /\ write_len = BufferLen(r)
  /\ keep_alive_after_write = KeepsAlive(r)
  /\ HasBody(r) => file_fd = e /\ file_size = r.body
  /\ ~HasBody(r) => file_fd = -1

(* write_sent and file_offset say exactly where the output stands. *)
Progress(e) ==
  /\ file_offset > 0 => HeadOut
  /\ write_sent = 0 => EndsReplyTo(stream, out, parser.start)
  /\ write_sent > 0 =>
       /\ out # <<>>
       /\ Last(out) = IF file_offset = 0 THEN <<e, write_buf[2], write_sent>>
                                         ELSE <<e, "body", file_offset>>

Sync ==
  /\ \A i \in 1 .. Len(out) : out[i][1] <= Len(stream)
  /\ parser.start <= parser.end
  /\ file_fd = -1 => file_offset = 0
  /\ Idle => Between
  /\ Pending => Prepared(write_buf[1]) /\ Progress(write_buf[1])

AInv == IInv /\ Sync /\ AnswersInOrder

USE DEF net, epoll, control, input, reply, file, Buffers

-----------------------------------------------------------------------------
(* Replies stay in order when the client sends another byte. *)

(* New bytes from the client move no request that has ended. *)
LEMMA EndsNextStable ==
  ASSUME NEW s \in Seq(Byte), NEW b \in Byte, NEW d \in Nat, NEW e \in Nat,
         EndsNext(s, d, e)
  PROVE  EndsNext(Append(s, b), d, e)
  <1>1. Len(Append(s, b)) = Len(s) + 1 OBVIOUS
  <1>2. \A i \in 1 .. Len(s) : Append(s, b)[i] = s[i] OBVIOUS
  <1>3. e \in 1 .. Len(s) BY DEF EndsNext
  <1>4. \A i \in (d + 1) .. (e - 1) : i \in 1 .. Len(s) BY <1>3
  <1> QED BY <1>1, <1>2, <1>3, <1>4 DEF EndsNext

(* They change nothing about which reply byte follows which. *)
LEMMA FollowsStable ==
  ASSUME NEW s \in Seq(Byte), NEW b \in Byte,
         NEW x \in ReplyByte, NEW y \in ReplyByte,
         x[1] <= Len(s), Follows(s, x, y)
  PROVE  Follows(Append(s, b), x, y)
  <1>1. x[1] \in 1 .. Len(s) /\ x[1] \in Nat /\ y[1] \in Nat BY DEF ReplyByte
  <1>2. Append(s, b)[x[1]] = s[x[1]] BY <1>1
  <1>3. ClosesReply(Append(s, b), x) <=> ClosesReply(s, x)
    BY ZenonT(60), <1>2 DEF ClosesReply
  <1>4. OpensReply(s, x[1], y) => OpensReply(Append(s, b), x[1], y)
    <2> SUFFICES ASSUME OpensReply(s, x[1], y) PROVE OpensReply(Append(s, b), x[1], y)
      OBVIOUS
    <2>1. EndsNext(s, x[1], y[1]) BY Zenon DEF OpensReply
    <2>2. EndsNext(Append(s, b), x[1], y[1]) BY <1>1, <2>1, EndsNextStable
    <2>3. y[1] \in 1 .. Len(s) BY <1>1, <2>1 DEF EndsNext
    <2>4. Append(s, b)[y[1]] = s[y[1]] BY <2>3
    <2> QED BY <2>2, <2>4 DEF OpensReply
  <1> QED BY Zenon, <1>2, <1>3, <1>4 DEF Follows

(* Output in order stays in order when the client sends more. *)
LEMMA OrderStable ==
  ASSUME NEW s \in Seq(Byte), NEW b \in Byte, NEW o \in Seq(ReplyByte),
         \A i \in 1 .. Len(o) : o[i][1] <= Len(s),
         RepliesInOrder(s, o)
  PROVE  RepliesInOrder(Append(s, b), o)
  <1>1. ASSUME o # <<>> PROVE OpensReply(Append(s, b), 0, o[1])
    <2>1. OpensReply(s, 0, o[1]) /\ o[1] \in ReplyByte
      BY <1>1 DEF RepliesInOrder
    <2>2. EndsNext(s, 0, o[1][1]) /\ o[1][1] \in Nat
      BY ZenonT(60), <2>1 DEF OpensReply, ReplyByte
    <2>3. EndsNext(Append(s, b), 0, o[1][1]) BY <2>2, EndsNextStable
    <2>4. o[1][1] \in 1 .. Len(s) BY <2>2 DEF EndsNext
    <2>5. Append(s, b)[o[1][1]] = s[o[1][1]] BY <2>4
    <2> QED BY Zenon, <2>1, <2>3, <2>5 DEF OpensReply
  <1>2. ASSUME NEW i \in 1 .. Len(o) - 1
        PROVE  Follows(Append(s, b), o[i], o[i + 1])
    <2>1. i \in 1 .. Len(o) /\ i + 1 \in 1 .. Len(o) OBVIOUS
    <2>2. o[i] \in ReplyByte /\ o[i + 1] \in ReplyByte BY <2>1
    <2>3. Follows(s, o[i], o[i + 1]) BY DEF RepliesInOrder
    <2> QED BY Zenon, <2>1, <2>2, <2>3, FollowsStable
  <1> QED BY <1>1, <1>2 DEF RepliesInOrder

(* A reply that is complete stays complete when the client sends more. *)
LEMMA EndsReplyStable ==
  ASSUME NEW s \in Seq(Byte), NEW b \in Byte, NEW o \in Seq(ReplyByte), NEW d,
         \A i \in 1 .. Len(o) : o[i][1] <= Len(s),
         EndsReplyTo(s, o, d)
  PROVE  EndsReplyTo(Append(s, b), o, d)
  <1>1. CASE o = <<>> BY <1>1 DEF EndsReplyTo
  <1>2. CASE o # <<>>
    <2>1. Len(o) \in 1 .. Len(o) BY <1>2
    <2>2. Last(o) \in ReplyByte /\ Last(o)[1] <= Len(s) BY <2>1 DEF Last
    <2>3. d \in 1 .. Len(s) /\ d = Last(o)[1]
      BY <1>2, <2>2 DEF EndsReplyTo, ReplyByte
    <2>4. Append(s, b)[d] = s[d] BY <2>3
    <2> QED BY Zenon, <1>2, <2>3, <2>4 DEF EndsReplyTo, ClosesReply
  <1> QED BY <1>1, <1>2

(* Writing some more of one part of a reply keeps the replies in order, if *)
(* its first byte follows the last one sent and the part goes on.          *)
LEMMA AppendInOrder ==
  ASSUME NEW s, NEW o \in Seq(ReplyByte), NEW next, NEW n \in Nat, n > 0,
         NEW e, NEW part, NEW k \in Nat,
         Extended(next, o, e, part, k, n), RepliesInOrder(s, o),
         o = <<>> => OpensReply(s, 0, <<e, part, k + 1>>),
         o # <<>> => Follows(s, Last(o), <<e, part, k + 1>>),
         \A i \in 1 .. n - 1 : Follows(s, <<e, part, k + i>>, <<e, part, k + i + 1>>)
  PROVE  RepliesInOrder(s, next)
  <1>1. /\ next \in Seq(ReplyByte) /\ Len(next) = Len(o) + n
        /\ \A i \in 1 .. Len(o) : next[i] = o[i]
        /\ \A i \in 1 .. n : next[Len(o) + i] = <<e, part, k + i>>
    BY Zenon DEF Extended
  <1>a. Len(o) \in Nat /\ (o # <<>> => Len(o) > 0) OBVIOUS
  <1>b. 1 \in 1 .. n OBVIOUS
  <1>2. next # <<>> => OpensReply(s, 0, next[1])
    <2>1. CASE o = <<>>
      <3>1. next[Len(o) + 1] = <<e, part, k + 1>> BY Zenon, <1>1, <1>b
      <3>2. Len(o) + 1 = 1 BY <2>1
      <3> QED BY Zenon, <2>1, <3>1, <3>2
    <2>2. CASE o # <<>>
      <3>1. 1 \in 1 .. Len(o) BY <2>2, <1>a
      <3>2. next[1] = o[1] BY Zenon, <1>1, <3>1
      <3> QED BY Zenon, <2>2, <3>2 DEF RepliesInOrder
    <2> QED BY Zenon, <2>1, <2>2
  <1>3. ASSUME NEW i \in 1 .. Len(next) - 1
        PROVE  Follows(s, next[i], next[i + 1])
    <2> PICK m : m = Len(o) BY Zenon
    <2>0. m \in Nat /\ i \in 1 .. (m + n) - 1 BY Zenon, <1>1, <1>a
    <2>1. CASE i < m
      <3>1. i \in 1 .. m - 1 /\ i \in 1 .. m /\ i + 1 \in 1 .. m BY <2>0, <2>1
      <3>2. next[i] = o[i] /\ next[i + 1] = o[i + 1] BY Zenon, <1>1, <3>1
      <3> QED BY Zenon, <3>1, <3>2 DEF RepliesInOrder
    <2>2. CASE i = m
      <3>0. i \in 1 .. m BY <2>0, <2>2
      <3>1. o # <<>> /\ next[i] = Last(o)
        <4>1. next[i] = o[Len(o)] BY ZenonT(60), <1>1, <2>2, <3>0
        <4>2. o # <<>> BY <2>0, <2>2
        <4> QED BY Zenon, <4>1, <4>2 DEF Last
      <3>2. next[Len(o) + 1] = <<e, part, k + 1>> BY Zenon, <1>1, <1>b
      <3> QED BY Zenon, <2>2, <3>1, <3>2
    <2>3. CASE i > m
      <3> DEFINE j == i - m
      <3>1. j \in 1 .. n - 1 /\ i = m + j /\ i + 1 = m + (j + 1) BY <2>0, <2>3
      <3>2. j \in 1 .. n /\ j + 1 \in 1 .. n BY <3>1
      <3> HIDE DEF j
      <3>3. next[i] = <<e, part, k + j>> BY Zenon, <1>1, <3>1, <3>2
      <3>4. next[i + 1] = <<e, part, k + (j + 1)>> BY Zenon, <1>1, <3>1, <3>2
      <3>5. k + (j + 1) = k + j + 1 BY <3>1
      <3> QED BY ZenonT(60), <3>1, <3>3, <3>4, <3>5
    <2>4. i < m \/ i = m \/ i > m BY <2>0
    <2> QED BY Zenon, <2>1, <2>2, <2>3, <2>4
  <1> QED BY Zenon, <1>2, <1>3 DEF RepliesInOrder

-----------------------------------------------------------------------------
(* Steps that touch neither the output nor what it is made from. *)
LEMMA SyncFrame ==
  ASSUME Sync, AnswersInOrder,
         UNCHANGED <<stream, out, parser, reply, file_fd, file_offset, file_size>>,
         Idle' => Idle, Pending' => Pending
  PROVE  Sync' /\ AnswersInOrder'
  <1>1. AnswersInOrder' BY DEF AnswersInOrder
  <1>2. Between => Between' BY DEF Between
  <1>3. Prepared(write_buf[1]) => Prepared(write_buf[1])' BY DEF Prepared
  <1>4. Progress(write_buf[1]) => Progress(write_buf[1])'
    BY DEF Progress, HeadOut
  <1> QED BY Zenon, <1>1, <1>2, <1>3, <1>4 DEF Sync

(* A new connection has sent nothing and parsed nothing. *)
LEMMA InitSync == ASSUME Init PROVE Sync /\ AnswersInOrder
  <1>1. AnswersInOrder BY DEF Init, AnswersInOrder, RepliesInOrder
  <1>2. Idle => Between BY DEF Init, Between, EndsReplyTo
  <1>3. ~Pending BY DEF Init, Pending, Responding
  <1> QED BY <1>1, <1>2, <1>3 DEF Init, Sync

(* close_connection() sends nothing. *)
LEMMA CloseSync ==
  ASSUME Sync, AnswersInOrder, close_connection PROVE Sync' /\ AnswersInOrder'
  <1>1. AnswersInOrder' BY DEF close_connection, AnswersInOrder
  <1>2. ~Idle' /\ ~Pending'
    BY DEF close_connection, Idle, Pending, Responding, Waiting
  <1> QED BY Zenon, <1>1, <1>2 DEF Sync, close_connection, release_file_body

(* Bytes from the client do not disturb the replies. *)
LEMMA ClientSendSync ==
  ASSUME AInv, NEW b \in Byte, ClientSend(b) PROVE Sync' /\ AnswersInOrder'
  <1>1. /\ stream \in Seq(Byte) /\ out \in Seq(ReplyByte)
        /\ parser.start \in Nat /\ parser.end \in Nat /\ parser.end <= Len(stream)
    BY DEF AInv, IInv, TypeOK, Shape
  <1>2. /\ stream' = Append(stream, b)
        /\ UNCHANGED <<out, control, input, reply, awaiting_writable, file>>
    BY Zenon DEF ClientSend
  <1>3. \A i \in 1 .. Len(out) : out[i][1] <= Len(stream) BY Zenon DEF AInv, Sync
  <1>4. Len(Append(stream, b)) = Len(stream) + 1 BY <1>1
  <1>5. \A i \in 1 .. Len(stream) : Append(stream, b)[i] = stream[i] BY <1>1
  <1>6. AnswersInOrder'
    BY Zenon, <1>1, <1>2, <1>3, OrderStable DEF AInv, AnswersInOrder
  <1>7. EndsReplyTo(stream, out, parser.start) => EndsReplyTo(stream, out, parser.start)'
    BY ZenonT(60), <1>1, <1>2, <1>3, EndsReplyStable
  <1>8. Between => Between' BY <1>1, <1>2, <1>5, <1>7 DEF Between
  <1>9. ASSUME Prepared(write_buf[1]) PROVE Prepared(write_buf[1])'
    <2> DEFINE e == write_buf[1]
    <2>1. e = parser.end /\ EndsNext(stream, parser.start, e)
      BY <1>9 DEF Prepared
    <2>2. EndsNext(stream, parser.start, e)' BY Zenon, <1>1, <1>2, <2>1, EndsNextStable
    <2>3. e \in 1 .. Len(stream) BY <1>1, <2>1 DEF EndsNext
    <2>4. stream'[e] = stream[e] BY ZenonT(60), <1>2, <1>5, <2>3
    <2>5. e' = e BY <1>2
    <2> QED BY ZenonT(60), <1>2, <1>9, <2>2, <2>4, <2>5 DEF Prepared
  <1>10. Progress(write_buf[1]) => Progress(write_buf[1])'
    BY <1>2, <1>7 DEF Progress, HeadOut
  <1>11. (\A i \in 1 .. Len(out) : out[i][1] <= Len(stream))'
    <2> SUFFICES ASSUME NEW i \in 1 .. Len(out) PROVE out[i][1] <= Len(stream) + 1
      BY <1>2, <1>4
    <2>1. out[i] \in ReplyByte BY <1>1
    <2>2. out[i][1] \in Nat BY Zenon, <2>1 DEF ReplyByte
    <2> QED BY <1>1, <1>3, <2>2
  <1>12. (Idle' => Idle) /\ (Pending' => Pending)
    BY <1>2 DEF Idle, Pending, Responding, Waiting
  <1> QED BY ZenonT(60), <1>2, <1>6, <1>8, <1>9, <1>10, <1>11, <1>12 DEF AInv, Sync

(* The parser takes bytes that end no request. *)
LEMMA ParseIncompleteSync ==
  ASSUME AInv, ParseIncomplete PROVE Sync' /\ AnswersInOrder'
  <1>1. /\ parser.start \in Nat /\ parser.end \in Nat /\ chunk.hi \in Nat
        /\ parser.end = chunk.lo /\ parser.start <= parser.end
        /\ Between
    BY Zenon DEF AInv, IInv, TypeOK, InputConserved, Sync, Idle, ParseIncomplete
  <1>2. /\ parser'.start = parser.start /\ parser'.end = chunk.hi
        /\ chunk.lo < chunk.hi
        /\ \A i \in (chunk.lo + 1) .. chunk.hi : stream[i] = Mid
        /\ UNCHANGED <<stream, out, reply, file, awaiting_writable>>
        /\ pc' \in {"read", "epoll_wait"} /\ ~awaiting_writable
    BY ZenonT(60) DEF ParseIncomplete, AfterInput, AInv, IInv, TypeOK, Shape, InHandler
  <1>3. AnswersInOrder' BY <1>2 DEF AInv, AnswersInOrder
  <1>4. Between'
    <2>1. ASSUME NEW i \in (parser.start + 1) .. chunk.hi PROVE stream[i] = Mid
      <3>1. CASE i <= chunk.lo BY <1>1, <3>1 DEF Between
      <3>2. CASE i > chunk.lo BY <1>1, <1>2, <3>2
      <3> QED BY <1>1, <3>1, <3>2
    <2> QED BY Zenon, <1>1, <1>2, <2>1 DEF Between
  <1>5. ~Pending' BY <1>2 DEF Pending, Responding
  <1>6. parser'.start <= parser'.end BY <1>1, <1>2
  <1>7. /\ (\A i \in 1 .. Len(out) : out[i][1] <= Len(stream))'
        /\ (file_fd = -1 => file_offset = 0)'
    BY Zenon, <1>2 DEF AInv, Sync
  <1> QED BY ZenonT(60), <1>3, <1>4, <1>5, <1>6, <1>7 DEF Sync

(* prepare_response() answers the request that ends next. *)
LEMMA ParseRequestSync ==
  ASSUME AInv, ParseRequest PROVE Sync' /\ AnswersInOrder'
  <1> USE DEF AInv
  <1>0. PICK e \in chunk.lo .. chunk.hi :
         /\ StopsAt(e)
         /\ parser' = [parser EXCEPT !.end = e,
                         !.state = IF stream[e].malformed THEN "ERROR" ELSE "DONE"]
         /\ prepare_response(e, KeepAliveRequested(stream[e]))
    BY Zenon DEF ParseRequest
  <1> DEFINE r == stream[e]
  <1>1. /\ pc = "process_input" /\ pc' = "send_response"
        /\ UNCHANGED <<stream, out>>
    BY DEF ParseRequest
  <1>2. /\ parser.state = "PARSING" /\ file_fd = -1 /\ file_offset = 0
        /\ parser.end = chunk.lo /\ Between
    BY Zenon, <1>1 DEF IInv, Shape, InputConserved, Sync, Idle
  <1>3. /\ chunk.lo \in Nat /\ chunk.hi \in Nat /\ parser.start \in Nat
        /\ parser.start <= parser.end
    BY Zenon DEF IInv, TypeOK, Sync
  <1>4. e \in Nat \ {0} /\ e > chunk.lo /\ r \in Requests
        /\ EndsNext(stream, chunk.lo, e)
    BY <1>0, <1>2, <1>3 DEF StopsAt, EndsNext
  <1>5. /\ r.malformed \in BOOLEAN /\ r.keep \in BOOLEAN /\ r.file \in BOOLEAN
        /\ r.head \in Nat \ {0} /\ r.body \in Nat /\ RESPONSE_BUF_SIZE \in Nat
    BY <1>4, RepliesAssumption
  <1>6. EndsNext(stream, parser.start, e)
    <2>1. ASSUME NEW i \in (parser.start + 1) .. (e - 1) PROVE stream[i] = Mid
      <3>1. CASE i <= chunk.lo BY <1>2, <1>3, <3>1 DEF Between
      <3>2. CASE i > chunk.lo BY <1>3, <1>4, <3>2 DEF EndsNext
      <3> QED BY <1>3, <3>1, <3>2
    <2> QED BY <1>2, <1>3, <1>4, <2>1 DEF EndsNext
  <1>7. parser'.end = e /\ parser'.start = parser.start
    BY <1>0 DEF IInv, TypeOK
  <1>8. write_sent' = 0 BY <1>0 DEF prepare_response
  <1>9. /\ write_buf' = <<e, BufferPart(r)>> /\ write_len' = BufferLen(r)
        /\ keep_alive_after_write' = KeepsAlive(r)
    <2>1. CASE Fits(r)
      <3>1. ~(r.head >= RESPONSE_BUF_SIZE) BY <1>5, <2>1 DEF Fits
      <3>2. /\ write_buf' = <<e, "head">> /\ write_len' = r.head
            /\ keep_alive_after_write' = KeepAliveRequested(r)
        BY Zenon, <1>0, <3>1 DEF prepare_response
      <3>3. KeepAliveRequested(r) = KeepsAlive(r)
        BY Zenon, <1>5, <2>1 DEF KeepAliveRequested, KeepsAlive
      <3> QED BY <2>1, <3>2, <3>3 DEF BufferPart, BufferLen
    <2>2. CASE ~Fits(r)
      <3>1. r.head >= RESPONSE_BUF_SIZE BY <1>5, <2>2 DEF Fits
      <3>2. /\ write_buf' = <<e, "error">> /\ write_len' = InternalErrorLen
            /\ keep_alive_after_write' = FALSE
        BY Zenon, <1>0, <3>1 DEF prepare_response
      <3> QED BY Zenon, <2>2, <3>2 DEF BufferPart, BufferLen, KeepsAlive
    <2> QED BY <2>1, <2>2
  <1>10. /\ HasBody(r) => file_fd' = e /\ file_size' = r.body
         /\ ~HasBody(r) => file_fd' = -1
         /\ file_offset' = 0
    BY <1>0, <1>2, <1>5 DEF prepare_response, HasBody, Fits
  <1>11. AnswersInOrder' BY <1>1 DEF AnswersInOrder
  <1>12. Prepared(e)'
    <2>1. r' = r BY Zenon, <1>1
    <2> HIDE DEF r
    <2>2. write_buf'[2] = BufferPart(r) BY <1>9
    <2>3. EndsNext(stream, parser.start, e)' BY ZenonT(60), <1>1, <1>6, <1>7
    <2> QED BY Zenon, <1>7, <1>9, <1>10, <2>1, <2>2, <2>3 DEF Prepared, r
  <1>13. Progress(e)' BY <1>1, <1>2, <1>7, <1>8, <1>10 DEF Progress, Between
  <1>14. ~Idle' /\ write_buf'[1] = e BY <1>1, <1>9 DEF Idle, Waiting
  <1>15. parser'.start <= parser'.end BY <1>2, <1>3, <1>4, <1>7
  <1>16. /\ (\A i \in 1 .. Len(out) : out[i][1] <= Len(stream))'
         /\ file_offset' = 0
    BY Zenon, <1>1, <1>10 DEF Sync
  <1>17. Pending' => Prepared(write_buf[1])' /\ Progress(write_buf[1])'
    BY ZenonT(60), <1>12, <1>13, <1>14
  <1> QED BY ZenonT(60), <1>11, <1>14, <1>15, <1>16, <1>17 DEF Sync

(* While a response is on its way. *)
LEMMA PendingFacts ==
  ASSUME AInv, Pending
  PROVE  LET e == write_buf[1]
             r == stream[e]
         IN  /\ e \in Nat \ {0} /\ e <= Len(stream) /\ r \in Requests
             /\ r.head \in Nat \ {0} /\ r.body \in Nat
             /\ BufferLen(r) \in Nat \ {0}
             /\ write_buf = <<e, BufferPart(r)>> /\ BufferPart(r) \in {"head", "error"}
             /\ write_sent \in Nat /\ write_sent <= BufferLen(r)
             /\ file_offset \in Nat
             /\ Prepared(e) /\ Progress(e)
  <1> DEFINE e == write_buf[1]
             r == stream[e]
  <1>1. Prepared(e) /\ Progress(e) BY DEF AInv, Sync
  <1>2. /\ parser.start \in Nat /\ write_buf \in Nat \X Part
        /\ write_sent \in Nat /\ write_sent <= write_len /\ file_offset \in Nat
    BY ZenonT(60) DEF AInv, IInv, TypeOK, Shape
  <1>3. e \in Nat \ {0} /\ e <= Len(stream) /\ r \in Requests
    BY <1>1, <1>2 DEF Prepared, EndsNext
  <1> HIDE DEF r
  <1>4. r.head \in Nat \ {0} /\ r.body \in Nat BY <1>3, RepliesAssumption
  <1>5. BufferLen(r) \in Nat \ {0} BY <1>4, RepliesAssumption DEF BufferLen
  <1>6. write_buf[2] = BufferPart(r) /\ write_len = BufferLen(r)
    BY <1>1 DEF Prepared, r
  <1>7. BufferPart(r) \in {"head", "error"} BY DEF BufferPart
  <1> QED BY <1>1, <1>2, <1>3, <1>4, <1>5, <1>6, <1>7 DEF r

(* The next byte of a reply follows the last one sent. *)
LEMMA HeadByteFollows ==
  ASSUME NEW s, NEW e, NEW k \in Nat \ {0}, BufferLen(s[e]) \in Nat, k < BufferLen(s[e])
  PROVE  Follows(s, <<e, BufferPart(s[e]), k>>, <<e, BufferPart(s[e]), k + 1>>)
  <1> DEFINE r == s[e]
             b == <<e, BufferPart(r), k>>
  <1>1. BufferPart(r) # "body" BY DEF BufferPart
  <1>2. ~ClosesReply(s, b) BY <1>1 DEF ClosesReply
  <1>3. k + 1 <= BufferLen(r) OBVIOUS
  <1> QED BY Zenon, <1>1, <1>2, <1>3 DEF Follows

(* A body byte follows the head or the body byte before it. *)
LEMMA BodyByteFollows ==
  ASSUME NEW s, NEW e, NEW k \in Nat, s[e].body \in Nat, k < s[e].body,
         HasBody(s[e])
  PROVE  Follows(s, IF k = 0 THEN <<e, "head", s[e].head>> ELSE <<e, "body", k>>,
                 <<e, "body", k + 1>>)
  <1> DEFINE r == s[e]
             b == IF k = 0 THEN <<e, "head", r.head>> ELSE <<e, "body", k>>
  <1>1. b[1] = e OBVIOUS
  <1>2. ~ClosesReply(s, b)
    <2>1. r.body > 0 /\ ~(b[2] = "body" /\ b[3] = r.body) OBVIOUS
    <2> QED BY ZenonT(60), <1>1, <2>1 DEF ClosesReply
  <1>3. CASE k = 0
    <2>1. k + 1 = 1 BY <1>3
    <2>2. b[1] = e /\ b[2] = "head" /\ b[3] = r.head BY Zenon, <1>3
    <2> QED BY ZenonT(60), <1>2, <2>1, <2>2 DEF Follows
  <1>4. CASE k # 0
    <2>1. k + 1 <= r.body OBVIOUS
    <2> QED BY ZenonT(60), <1>2, <1>4, <2>1 DEF Follows
  <1> QED BY <1>3, <1>4

(* The same for the whole output: n more bytes of e, of which the first    *)
(* follows what was sent, leave every byte of the output inside the        *)
(* stream's requests and end with the n-th.                                *)
LEMMA ExtendedFacts ==
  ASSUME NEW o \in Seq(ReplyByte), NEW next, NEW n \in Nat, n > 0, NEW e \in Nat,
         NEW part, NEW k \in Nat, Extended(next, o, e, part, k, n),
         NEW len \in Nat, e <= len, \A i \in 1 .. Len(o) : o[i][1] <= len
  PROVE  /\ next # <<>> /\ Last(next) = <<e, part, k + n>>
         /\ \A i \in 1 .. Len(next) : next[i][1] <= len
  <1>1. next # <<>> BY DEF Extended
  <1>2. Last(next) = <<e, part, k + n>> BY DEF Extended, Last
  <1>3. ASSUME NEW i \in 1 .. Len(next) PROVE next[i][1] <= len
    <2>1. CASE i <= Len(o)
      <3>1. i \in 1 .. Len(o) BY <2>1 DEF Extended
      <3> QED BY Zenon, <3>1 DEF Extended
    <2>2. CASE i > Len(o)
      <3> DEFINE j == i - Len(o)
      <3>1. j \in 1 .. n /\ i = Len(o) + j BY <2>2 DEF Extended
      <3> HIDE DEF j
      <3>2. next[i] = <<e, part, k + j>> BY <3>1 DEF Extended
      <3> QED BY <3>2
    <2> QED BY <2>1, <2>2 DEF Extended
  <1> QED BY <1>1, <1>2, <1>3

(* A nonzero counter is positive. *)
LEMMA PositiveNat == \A n \in Nat \ {0} : n > 0
  OBVIOUS

(* write() continues the reply in write_buf where it stopped. *)
LEMMA WriteHeadSync ==
  ASSUME AInv, WriteHead PROVE Sync' /\ AnswersInOrder'
  <1> DEFINE e == write_buf[1]
             r == stream[e]
             part == BufferPart(r)
             k == write_sent
  <1>0. PICK n \in Nat : /\ n > 0 /\ write_sent + n <= write_len
                         /\ write_sent' = write_sent + n
                         /\ Extended(out', out, write_buf[1], write_buf[2], write_sent, n)
    BY HeadExtends DEF AInv
  <1>1. /\ Flushing /\ ~HeadOut
        /\ UNCHANGED <<stream, control, input, write_buf, write_len,
                       keep_alive_after_write, awaiting_writable, file>>
    BY DEF WriteHead
  <1>2. Pending BY <1>1 DEF Flushing, Pending, Responding
  <1>3. /\ e \in Nat \ {0} /\ e <= Len(stream) /\ BufferLen(r) \in Nat
        /\ part \in {"head", "error"} /\ write_buf = <<e, part>>
        /\ k \in Nat /\ Prepared(e) /\ Progress(e)
    BY <1>2, PendingFacts
  <1>4. write_len = BufferLen(r) /\ EndsNext(stream, parser.start, e)
    BY ZenonT(60), <1>3 DEF Prepared
  <1>5. k + n <= BufferLen(r) /\ k < BufferLen(r) BY <1>0, <1>3, <1>4
  <1>6. file_offset = 0
    BY <1>1, <1>3 DEF Progress, AInv, IInv, TypeOK
  <1>7. /\ out \in Seq(ReplyByte) /\ Len(stream) \in Nat
        /\ RepliesInOrder(stream, out)
    BY DEF AInv, IInv, TypeOK, AnswersInOrder
  <1>8. Extended(out', out, e, part, k, n)
    <2>1. write_buf[2] = part BY ZenonT(60), <1>3 DEF Prepared
    <2> QED BY <1>0, <2>1
  <1>10. /\ out = <<>> => OpensReply(stream, 0, <<e, part, k + 1>>)
         /\ out # <<>> => Follows(stream, Last(out), <<e, part, k + 1>>)
    <2>1. CASE k = 0
      <3>1. EndsReplyTo(stream, out, parser.start)
        BY ZenonT(60), <1>3, <2>1 DEF Progress
      <3>2. OpensReply(stream, parser.start, <<e, part, k + 1>>)
        BY <1>4, <2>1 DEF OpensReply
      <3> QED BY Zenon, <3>1, <3>2 DEF EndsReplyTo, Follows
    <2>2. CASE k > 0
      <3>1. out # <<>> /\ Last(out) = <<e, part, k>>
        BY Zenon, <1>3, <1>6, <2>2 DEF Progress, Prepared
      <3> QED BY <1>3, <1>5, <2>2, <3>1, HeadByteFollows
    <2> QED BY <1>3, <2>1, <2>2
  <1>11. ASSUME NEW i \in 1 .. n - 1
         PROVE  Follows(stream, <<e, part, k + i>>, <<e, part, k + i + 1>>)
    <2>1. k + i \in Nat \ {0} /\ k + i < BufferLen(r) BY <1>0, <1>3, <1>5
    <2> QED BY ZenonT(60), <1>3, <2>1, HeadByteFollows
  <1> HIDE DEF e, r, part, k
  <1>12. AnswersInOrder'
    <2>1. RepliesInOrder(stream, out')
      BY Zenon, <1>0, <1>3, <1>7, <1>8, <1>10, <1>11, AppendInOrder
    <2> QED BY <1>1, <2>1 DEF AnswersInOrder
  <1>13. /\ out' # <<>> /\ Last(out') = <<e, part, k + n>>
         /\ \A i \in 1 .. Len(out') : out'[i][1] <= Len(stream)
    BY Zenon, <1>0, <1>3, <1>7, <1>8, ExtendedFacts DEF AInv, Sync
  <1>14. Prepared(write_buf[1])' BY ZenonT(60), <1>1, <1>3 DEF Prepared, e
  <1>15. Progress(write_buf[1])'
    <2>1. write_sent' = k + n /\ write_sent' > 0 BY <1>0, <1>3, <1>5 DEF k
    <2>2. write_buf'[1] = e /\ write_buf'[2] = part BY <1>1, <1>3
    <2> QED BY <1>1, <1>6, <1>13, <2>1, <2>2 DEF Progress
  <1>16. ~Idle' BY <1>1 DEF Flushing, Idle, Waiting
  <1> QED BY Zenon, <1>1, <1>12, <1>13, <1>14, <1>15, <1>16 DEF AInv, Sync

(* sendfile() continues the body at file_offset. *)
LEMMA SendBodySync ==
  ASSUME AInv, SendBody PROVE Sync' /\ AnswersInOrder'
  <1> DEFINE e == write_buf[1]
             r == stream[e]
             k == file_offset
  <1>0. PICK n \in Nat : /\ n > 0 /\ file_offset + n <= file_size
                         /\ file_offset' = file_offset + n
                         /\ Extended(out', out, file_fd, "body", file_offset, n)
    BY BodyExtends DEF AInv
  <1>1. /\ Flushing /\ HeadOut /\ ~BodyOut
        /\ UNCHANGED <<stream, control, input, reply, awaiting_writable,
                       file_fd, file_size>>
    BY DEF SendBody
  <1>2. Pending BY <1>1 DEF Flushing, Pending, Responding
  <1>3. /\ e \in Nat \ {0} /\ e <= Len(stream) /\ r.body \in Nat
        /\ BufferLen(r) \in Nat \ {0} /\ k \in Nat
        /\ Prepared(e) /\ Progress(e)
    BY <1>2, PendingFacts
  <1>4. HasBody(r) /\ file_fd = e /\ file_size = r.body
    BY ZenonT(60), <1>1, <1>3 DEF Prepared, BodyOut
  <1>5. k + n <= r.body /\ k < r.body BY <1>0, <1>3, <1>4
  <1>6. write_sent = r.head /\ write_sent > 0 /\ write_buf[2] = "head"
    <2>1. Fits(r) BY Zenon, <1>4 DEF HasBody
    <2>2. BufferLen(r) = r.head /\ BufferPart(r) = "head"
      BY Zenon, <2>1 DEF BufferLen, BufferPart
    <2>3. write_sent = BufferLen(r) /\ write_buf[2] = BufferPart(r)
      BY ZenonT(60), <1>1, <1>3 DEF HeadOut, Prepared
    <2> HIDE DEF e, r, k
    <2> QED BY <1>3, <2>2, <2>3
  <1>7. /\ out \in Seq(ReplyByte) /\ Len(stream) \in Nat
        /\ RepliesInOrder(stream, out)
    BY DEF AInv, IInv, TypeOK, AnswersInOrder
  <1>8. Extended(out', out, e, "body", k, n) BY <1>0, <1>4
  <1>10. out # <<>> /\ Follows(stream, Last(out), <<e, "body", k + 1>>)
    <2>1. /\ out # <<>>
          /\ Last(out) = IF k = 0 THEN <<e, "head", r.head>> ELSE <<e, "body", k>>
      BY Zenon, <1>3, <1>6 DEF Progress
    <2> QED BY Zenon, <1>3, <1>4, <1>5, <2>1, BodyByteFollows
  <1>11. ASSUME NEW i \in 1 .. n - 1
         PROVE  Follows(stream, <<e, "body", k + i>>, <<e, "body", k + i + 1>>)
    <2>1. k + i \in Nat /\ k + i # 0 /\ k + i < r.body
      <3> HIDE DEF e, r, k
      <3> QED BY <1>3, <1>5
    <2> QED BY Zenon, <1>3, <1>4, <2>1, BodyByteFollows
  <1> HIDE DEF e, r, k
  <1>12. AnswersInOrder'
    <2>1. RepliesInOrder(stream, out')
      BY Zenon, <1>0, <1>3, <1>7, <1>8, <1>10, <1>11, AppendInOrder
    <2> QED BY <1>1, <2>1 DEF AnswersInOrder
  <1>13. /\ out' # <<>> /\ Last(out') = <<e, "body", k + n>>
         /\ \A i \in 1 .. Len(out') : out'[i][1] <= Len(stream)
    BY Zenon, <1>0, <1>3, <1>7, <1>8, ExtendedFacts DEF AInv, Sync
  <1>14. Prepared(write_buf[1])' BY ZenonT(60), <1>1, <1>3 DEF Prepared, e
  <1>15. Progress(write_buf[1])'
    <2>1. file_offset' = k + n /\ file_offset' > 0 BY <1>0, <1>3, <1>5 DEF k
    <2>2. write_buf'[1] = e BY <1>1 DEF e
    <2> QED BY <1>1, <1>6, <1>13, <2>1, <2>2 DEF Progress, HeadOut
  <1>16. ~Idle' BY ZenonT(60), <1>1 DEF Flushing, Idle, Waiting
  <1>17. file_fd' # -1 BY <1>1, <1>3, <1>4
  <1> QED BY ZenonT(60), <1>1, <1>12, <1>13, <1>14, <1>15, <1>16, <1>17 DEF AInv, Sync

(* After a whole reply the parser starts right behind its request. *)
LEMMA FinishKeepAliveSync ==
  ASSUME AInv, FinishKeepAlive PROVE Sync' /\ AnswersInOrder'
  <1> DEFINE e == write_buf[1]
             r == stream[e]
  <1>1. /\ Flushing /\ HeadOut /\ BodyOut /\ keep_alive_after_write
        /\ file_fd' = -1 /\ file_offset' = 0
        /\ parser' = [state |-> "PARSING", start |-> parser.end, end |-> parser.end]
        /\ awaiting_writable' = FALSE
        /\ UNCHANGED <<stream, out>>
        /\ pc' \in {"process_input", "epoll_wait"}
    BY DEF FinishKeepAlive, release_file_body
  <1>2. Pending BY <1>1 DEF Flushing, Pending, Responding
  <1>3. /\ r.body \in Nat /\ BufferLen(r) \in Nat \ {0}
        /\ Prepared(e) /\ Progress(e)
    BY Zenon, <1>2, PendingFacts
  <1>4. /\ e = parser.end /\ KeepsAlive(r) /\ write_buf[2] = BufferPart(r)
        /\ write_sent = BufferLen(r) /\ out # <<>>
        /\ Last(out) = IF file_offset = 0 THEN <<e, BufferPart(r), BufferLen(r)>>
                                          ELSE <<e, "body", file_offset>>
    <2>1. /\ e = parser.end /\ KeepsAlive(r) /\ write_buf[2] = BufferPart(r)
          /\ write_sent = BufferLen(r)
      BY Zenon, <1>1, <1>3 DEF Prepared, HeadOut
    <2>2. write_sent > 0 BY Zenon, <1>3, <2>1, PositiveNat
    <2> QED BY Zenon, <1>3, <2>1, <2>2 DEF Progress
  <1>5. ClosesReply(stream, Last(out))
    <2>1. file_offset \in Nat /\ file_offset <= file_size
      BY DEF AInv, IInv, TypeOK, Shape
    <2>2. Last(out)[1] = e
      <3>1. CASE file_offset = 0 BY <1>4, <3>1
      <3>2. CASE file_offset # 0 BY <1>4, <3>2
      <3> QED BY <3>1, <3>2
    <2>3. CASE HasBody(r) /\ r.body > 0
      <3>1. file_offset = r.body
        <4>1. file_fd = e /\ file_size = r.body BY Zenon, <1>3, <2>3 DEF Prepared
        <4>2. e # -1
          <5>1. e \in Nat \ {0} BY ZenonT(60), <1>2, PendingFacts
          <5> QED BY <5>1
        <4>3. file_offset >= file_size BY <1>1, <4>1, <4>2 DEF BodyOut
        <4> QED BY <1>3, <2>1, <4>1, <4>3
      <3>2. file_offset # 0
        <4> HIDE DEF e, r
        <4> QED BY <1>3, <2>3, <3>1
      <3>3. Last(out)[2] = "body" /\ Last(out)[3] = r.body
        <4>1. Last(out) = <<e, "body", r.body>> BY Zenon, <1>4, <3>1, <3>2
        <4> HIDE DEF e, r
        <4> QED BY <4>1
      <3> QED BY ZenonT(60), <2>2, <2>3, <3>3 DEF ClosesReply
    <2>4. CASE ~(HasBody(r) /\ r.body > 0)
      <3>1. file_offset = 0
        <4>1. CASE HasBody(r)
          <5>1. file_size = r.body BY Zenon, <1>3, <4>1 DEF Prepared
          <5> QED BY <1>3, <2>1, <2>4, <4>1, <5>1
        <4>2. CASE ~HasBody(r) BY ZenonT(60), <1>3, <4>2 DEF Prepared, AInv, Sync
        <4> QED BY ZenonT(60), <4>1, <4>2
      <3>2. Last(out)[2] = BufferPart(r) /\ Last(out)[3] = BufferLen(r)
        <4>1. Last(out) = <<e, BufferPart(r), BufferLen(r)>> BY ZenonT(60), <1>4, <3>1
        <4> HIDE DEF e, r
        <4> QED BY <4>1
      <3> QED BY Zenon, <2>2, <2>4, <3>2 DEF ClosesReply
    <2> QED BY ZenonT(60), <2>3, <2>4
  <1>6. Between'
    <2>1. EndsReplyTo(stream, out, e) BY <1>4, <1>5 DEF EndsReplyTo
    <2>2. EndsReplyTo(stream, out, parser.start)' BY Zenon, <1>1, <1>4, <2>1
    <2>3. parser.end \in Nat BY ZenonT(60) DEF AInv, IInv, TypeOK
    <2> QED BY <1>1, <2>2, <2>3 DEF Between
  <1>7. ~Pending' BY <1>1 DEF Pending, Responding
  <1>8. AnswersInOrder' BY <1>1 DEF AInv, AnswersInOrder
  <1>9. (parser.start <= parser.end)' BY <1>1 DEF AInv, IInv, TypeOK
  <1> QED BY ZenonT(60), <1>1, <1>6, <1>7, <1>8, <1>9 DEF AInv, Sync

-----------------------------------------------------------------------------
(* Every other step leaves the output and its sources alone. *)
LEMMA QuietSync ==
  ASSUME AInv,
         \/ ClientFin \/ ClientReset \/ ClientDrain \/ FileShrinks
         \/ EpollWait \/ Dispatch \/ ReadBytes \/ ReadAgain \/ InputConsumed
         \/ FlushBlocks \/ ArmWritable \/ UNCHANGED vars
  PROVE  Sync' /\ AnswersInOrder'
  <1> USE DEF Idle, Pending, Responding, Waiting
  <1>1. /\ InHandler => ~awaiting_writable
        /\ pc = "flush_pending_write" => awaiting_writable
    BY DEF AInv, IInv, Shape
  <1>2. UNCHANGED <<stream, out, parser, reply, file_fd, file_offset, file_size>>
    <2>1. CASE ClientFin BY Zenon, <2>1 DEF ClientFin
    <2>2. CASE ClientReset BY Zenon, <2>2 DEF ClientReset
    <2>3. CASE ClientDrain BY Zenon, <2>3 DEF ClientDrain
    <2>4. CASE FileShrinks BY Zenon, <2>4 DEF FileShrinks
    <2>5. CASE EpollWait BY Zenon, <2>5 DEF EpollWait
    <2>6. CASE Dispatch BY Zenon, <2>6 DEF Dispatch
    <2>7. CASE ReadBytes \/ ReadAgain BY Zenon, <2>7 DEF ReadBytes, ReadAgain
    <2>8. CASE InputConsumed \/ FlushBlocks
      BY Zenon, <2>8 DEF InputConsumed, FlushBlocks
    <2>9. CASE ArmWritable \/ UNCHANGED vars BY Zenon, <2>9 DEF ArmWritable, vars
    <2> QED
      BY Zenon, <2>1, <2>2, <2>3, <2>4, <2>5, <2>6, <2>7, <2>8, <2>9
  <1>3. CASE ClientFin \/ ClientReset \/ ClientDrain \/ FileShrinks \/ UNCHANGED vars
    <2>1. CASE ClientFin BY Zenon, <1>2, <2>1, SyncFrame DEF ClientFin, AInv
    <2>2. CASE ClientReset BY Zenon, <1>2, <2>2, SyncFrame DEF ClientReset, AInv
    <2>3. CASE ClientDrain BY Zenon, <1>2, <2>3, SyncFrame DEF ClientDrain, AInv
    <2>4. CASE FileShrinks BY Zenon, <1>2, <2>4, SyncFrame DEF FileShrinks, AInv
    <2>5. CASE UNCHANGED vars BY Zenon, <1>2, <2>5, SyncFrame DEF vars, AInv
    <2> QED BY Zenon, <1>3, <2>1, <2>2, <2>3, <2>4, <2>5
  <1>4. CASE EpollWait BY Zenon, <1>2, <1>4, SyncFrame DEF EpollWait, AInv
  <1>5. CASE Dispatch BY ZenonT(60), <1>2, <1>5, SyncFrame DEF Dispatch, AInv
  <1>6. CASE ReadBytes BY <1>1, <1>2, <1>6, SyncFrame DEF ReadBytes, InHandler, AInv
  <1>0. CASE ReadAgain BY <1>1, <1>2, <1>0, SyncFrame DEF ReadAgain, InHandler, AInv
  <1>7. CASE InputConsumed
    BY Zenon, <1>1, <1>2, <1>7, SyncFrame
      DEF InputConsumed, AfterInput, InHandler, AInv
  <1>8. CASE FlushBlocks
    BY Zenon, <1>1, <1>2, <1>8, SyncFrame DEF FlushBlocks, Flushing, AfterBlock, AInv
  <1>9. CASE ArmWritable BY Zenon, <1>2, <1>9, SyncFrame DEF ArmWritable, AInv
  <1> QED BY ZenonT(60), <1>0, <1>3, <1>4, <1>5, <1>6, <1>7, <1>8, <1>9

(* Every step keeps the output in order and in step with the parser. *)
LEMMA NextSync == ASSUME AInv, Next PROVE Sync' /\ AnswersInOrder'
  <1>1. CASE LoopStep
    BY Zenon, <1>1, CloseSync, QuietSync, ParseIncompleteSync, ParseRequestSync,
       WriteHeadSync, SendBodySync, FinishKeepAliveSync
    DEF LoopStep, DispatchError, ReadEof, ReadError, FlushFails, ArmFails,
        FinishClose, AInv
  <1>2. CASE Client BY Zenon, <1>2, ClientSendSync, QuietSync DEF Client
  <1>3. CASE FileShrinks BY Zenon, <1>3, QuietSync
  <1>4. CASE LoopCloses BY <1>4, CloseSync DEF LoopCloses, AInv
  <1>5. CASE Closed BY Zenon, <1>5, QuietSync DEF Closed
  <1> QED BY Zenon, <1>1, <1>2, <1>3, <1>4, <1>5 DEF Next

(* In every reachable state the output stands where write_sent and         *)
(* file_offset say, at the request the parser stopped at.                  *)
THEOREM SyncInvariance == Spec => []AInv
  <1>1. Init => AInv BY InitStep, InitSync DEF AInv
  <1>2. AInv /\ [Next]_vars => AInv'
    BY Zenon, NextStep, StutterStep, NextSync, QuietSync DEF AInv
  <1> QED BY <1>1, <1>2, PTL DEF Spec

(* process_input(), send_response() and flush_pending_write() answer every *)
(* request once, in order and in full before the next.                     *)
THEOREM AnswersAreInOrder == Spec => []AnswersInOrder
  <1>1. AInv => AnswersInOrder BY DEF AInv
  <1> QED BY <1>1, SyncInvariance, PTL

-----------------------------------------------------------------------------
(* The refinement of HttpExchange. *)

(* Appending to the output keeps what was there. *)
LEMMA ExtendedPrefix ==
  ASSUME NEW o \in Seq(ReplyByte), NEW next, NEW n \in Nat, NEW e, NEW part,
         NEW k, Extended(next, o, e, part, k, n)
  PROVE  SubSeq(next, 1, Len(o)) = o
  <1>1. /\ SubSeq(next, 1, Len(o)) \in Seq(ReplyByte)
        /\ Len(SubSeq(next, 1, Len(o))) = Len(o)
        /\ \A i \in 1 .. Len(o) : SubSeq(next, 1, Len(o))[i] = next[i]
    BY DEF Extended
  <1>2. \A i \in 1 .. Len(o) : SubSeq(next, 1, Len(o))[i] = o[i]
    BY <1>1 DEF Extended
  <1> QED BY <1>1, <1>2

(* write() and sendfile() only add to the output. *)
LEMMA OutputGrows ==
  ASSUME IInv, WriteHead \/ SendBody
  PROVE  Len(out') > Len(out) /\ SubSeq(out', 1, Len(out)) = out
  <1>1. \E n \in Nat : n > 0 /\ \E e, part, k : Extended(out', out, e, part, k, n)
    BY HeadExtends, BodyExtends
  <1>2. out \in Seq(ReplyByte) BY DEF IInv, TypeOK
  <1> QED BY <1>1, <1>2, ExtendedPrefix DEF Extended

(* The order HttpExchange speaks of is the one of Replies. *)
LEMMA SameOrder ==
  ASSUME NEW s, NEW o PROVE RepliesInOrder(s, o) <=> Exchange!RepliesInOrder(s, o)
  BY Zenon DEF RepliesInOrder, OpensReply, Follows, ClosesReply, EndsNext, BufferPart,
         BufferLen, KeepsAlive, HasBody, Fits,
         Exchange!RepliesInOrder, Exchange!OpensReply, Exchange!Follows,
         Exchange!ClosesReply, Exchange!EndsNext, Exchange!BufferPart,
         Exchange!BufferLen, Exchange!KeepsAlive, Exchange!HasBody, Exchange!Fits

(* close_connection() is the end of the exchange. *)
LEMMA CloseEnds ==
  ASSUME pc # "closed", close_connection PROVE Exchange!Next
  BY DEF close_connection, Exchange!Next, Exchange!End

(* Every step is a step of the exchange or invisible to the client. *)
LEMMA NextExchange ==
  ASSUME AInv, AInv', Next
  PROVE  Exchange!Next \/ UNCHANGED Exchange!vars
  <1>1. CASE DispatchError \/ ReadEof \/ ReadError \/ FlushFails \/ ArmFails
             \/ FinishClose \/ LoopCloses
    BY <1>1, CloseEnds
    DEF DispatchError, ReadEof, ReadError, FlushFails, ArmFails, FinishClose,
        LoopCloses, Flushing
  <1>2. CASE WriteHead \/ SendBody
    <2>1. pc \in {"send_response", "flush_pending_write"} /\ UNCHANGED <<stream, pc>>
      BY Zenon, <1>2 DEF WriteHead, SendBody, Flushing
    <2>2. Exchange!RepliesInOrder(stream, out')
      BY <2>1, SameOrder DEF AInv, AnswersInOrder
    <2>3. Exchange!Answer
      BY <1>2, <2>1, <2>2, OutputGrows DEF AInv, Exchange!Answer
    <2> QED BY <2>3 DEF Exchange!Next
  <1>3. CASE \E b \in Byte : ClientSend(b)
    BY <1>3 DEF ClientSend, Byte, Exchange!Next, Exchange!Send, Exchange!Byte
  <1>4. CASE ClientFin \/ ClientReset \/ ClientDrain \/ FileShrinks \/ Closed
    BY Zenon, <1>4 DEF ClientFin, ClientReset, ClientDrain, FileShrinks, Closed, vars,
                Exchange!vars
  <1>5. CASE EpollWait \/ Dispatch \/ ReadBytes \/ ReadAgain \/ FlushBlocks
             \/ ArmWritable
    BY Zenon, <1>5 DEF EpollWait, Dispatch, ReadBytes, ReadAgain, FlushBlocks,
                AfterBlock, Flushing, ArmWritable, Exchange!vars
  <1>6. CASE InputConsumed \/ ParseIncomplete \/ ParseRequest \/ FinishKeepAlive
    BY Zenon, <1>6 DEF InputConsumed, ParseIncomplete, AfterInput, ParseRequest,
                FinishKeepAlive, Flushing, Exchange!vars
  <1> QED BY Zenon, <1>1, <1>2, <1>3, <1>4, <1>5, <1>6 DEF Next, LoopStep, Client

(* The connection implements the exchange the client was promised. *)
THEOREM Refinement == Spec => ImplementsExchange
  <1>1. Init => Exchange!Init BY DEF Init, Exchange!Init
  <1>2. AInv /\ AInv' /\ [Next]_vars => [Exchange!Next]_Exchange!vars
    BY NextExchange DEF vars, Exchange!vars
  <1> QED BY <1>1, <1>2, SyncInvariance, PTL
          DEF Spec, ImplementsExchange, Exchange!Spec

=============================================================================
