------------------------- MODULE FileServingProofs -------------------------
(***************************************************************************)
(* Descriptors have one owner and a connection serves the file its lookup  *)
(* checked, for any number of workers, connections, files and descriptors. *)
(***************************************************************************)
EXTENDS FileServing, TLAPS

(* The time, in seconds, that a step gives each prover. *)
USE SMTT(30), ZenonT(60)

(* Ownership seen from the table and from the variables. *)
Own ==
  /\ \A c \in Conns : sock[c] # NULL => table[sock[c]] = c
  /\ \A c \in Conns : file_fd[c] # NULL => table[file_fd[c]] \in Files
  /\ \A w \in Workers : fd[w] # NULL => table[fd[w]] \in Files
  /\ \A b, c \in Conns : file_fd[b] # NULL /\ file_fd[b] = file_fd[c] => b = c
  /\ \A v, w \in Workers : fd[v] # NULL /\ fd[v] = fd[w] => v = w
  /\ \A c \in Conns, w \in Workers : file_fd[c] # NULL => file_fd[c] # fd[w]
  /\ \A d \in Fd : table[d] \in Conns => sock[table[d]] = d
  /\ \A d \in Fd : table[d] \in Files =>
       (\E c \in Conns : file_fd[c] = d) \/ (\E w \in Workers : fd[w] = d)

(* What a worker holds at each step of a request. *)
Control ==
  /\ \A w \in Workers : pc[w] # "epoll_wait" =>
       conn[w] \in Conns /\ WorkerOf[conn[w]] = w /\ sock[conn[w]] # NULL
  /\ \A w \in Workers : pc[w] \in {"open", "verify", "fstat", "prepare"} =>
       req[w] \in Requests
  /\ \A w \in Workers : pc[w] \in {"open", "verify", "fstat"} => req[w].target \in Names
  /\ \A w \in Workers : pc[w] \in {"verify", "fstat"} => fd[w] # NULL
  /\ \A w \in Workers : pc[w] \in {"epoll_wait", "open", "flush"} => fd[w] = NULL
  /\ \A c \in Conns : file_fd[c] # NULL =>
       /\ sock[c] # NULL
       /\ blocked[c] \/ (pc[WorkerOf[c]] = "flush" /\ conn[WorkerOf[c]] = c)
  /\ \A c \in Conns : blocked[c] => sock[c] # NULL
  /\ \A w \in Workers : pc[w] \in {"open", "verify", "fstat", "prepare"} => ~blocked[conn[w]]

(* What the lookup knows of the file it holds. *)
Checked ==
  /\ \A w \in Workers : pc[w] = "fstat" => found[w] = table[fd[w]]
  /\ \A w \in Workers : pc[w] = "prepare" /\ fd[w] # NULL =>
       found[w] \in Regular /\ found[w] = table[fd[w]]
  /\ \A c \in Conns : file_fd[c] # NULL => body[c] \in Regular /\ table[file_fd[c]] = body[c]
  /\ NotAllowedIsFound

IInv == TypeOK /\ Own /\ Control /\ Checked

-----------------------------------------------------------------------------
(* What happens to the descriptors. *)

(* accept4(). *)
LEMMA AcceptOwns ==
  ASSUME TypeOK, Own, NEW c \in Conns, NEW d \in Fd, sock[c] = NULL, table[d] = NULL,
         sock' = [sock EXCEPT ![c] = d], table' = [table EXCEPT ![d] = c],
         UNCHANGED <<file_fd, fd>>
  PROVE  Own'
  <1>1. /\ \A e \in Fd : table'[e] = IF e = d THEN c ELSE table[e]
        /\ \A b \in Conns : sock'[b] = IF b = c THEN d ELSE sock[b]
        /\ file_fd' = file_fd /\ fd' = fd
    BY DEF TypeOK
  <1>2. c \notin Files /\ c # NULL /\ NULL \notin Fd /\ NULL \notin Files /\ NULL \notin Conns
    BY FileServingAssumption
  <1>3. /\ \A b \in Conns : sock[b] \in Fd \cup {NULL} /\ file_fd[b] \in Fd \cup {NULL}
        /\ \A w \in Workers : fd[w] \in Fd \cup {NULL}
    BY DEF TypeOK
  <1>4. /\ \A b \in Conns : sock[b] # d /\ file_fd[b] # d
        /\ \A w \in Workers : fd[w] # d
    BY <1>2 DEF Own
  <1> QED BY <1>1, <1>2, <1>3, <1>4 DEF Own

(* open(). *)
LEMMA OpenOwns ==
  ASSUME TypeOK, Own, NEW w \in Workers, NEW d \in Fd, NEW f \in Files,
         fd[w] = NULL, table[d] = NULL,
         fd' = [fd EXCEPT ![w] = d], table' = [table EXCEPT ![d] = f],
         UNCHANGED <<file_fd, sock>>
  PROVE  Own'
  BY FileServingAssumption DEF TypeOK, Own

(* close() in static_file_open(), static_file_close(). *)
LEMMA CloseOwns ==
  ASSUME TypeOK, Own, NEW w \in Workers, fd[w] # NULL, CloseLocal(w),
         UNCHANGED <<file_fd, sock>>
  PROVE  Own'
  BY FileServingAssumption DEF TypeOK, Own, CloseLocal

(* The connection takes the file over from the lookup. *)
LEMMA HandOverOwns ==
  ASSUME TypeOK, Own, NEW w \in Workers, NEW c \in Conns, file_fd[c] = NULL,
         file_fd' = [file_fd EXCEPT ![c] = fd[w]],
         fd' = [fd EXCEPT ![w] = NULL], UNCHANGED <<table, sock>>
  PROVE  Own'
  BY FileServingAssumption DEF TypeOK, Own

(* release_file_body(). *)
LEMMA ReleaseOwns ==
  ASSUME TypeOK, Own, NEW c \in Conns,
         table' = [d \in Fd |-> IF d = file_fd[c] THEN NULL ELSE table[d]],
         file_fd' = [file_fd EXCEPT ![c] = NULL], UNCHANGED <<fd, sock>>
  PROVE  Own'
  BY FileServingAssumption DEF TypeOK, Own

(* close_connection(). *)
LEMMA CloseConnectionOwns ==
  ASSUME TypeOK, Own, NEW c \in Conns, close_connection(c), UNCHANGED fd
  PROVE  Own'
  BY FileServingAssumption DEF TypeOK, Own, close_connection

-----------------------------------------------------------------------------
(* The steps. *)

(* No descriptor is held before the first connection. *)
LEMMA InitStep == ASSUME Init PROVE IInv
  <1>1. TypeOK BY DEF Init, TypeOK
  <1>2. Own BY FileServingAssumption DEF Init, Own
  <1>3. Control BY DEF Init, Control
  <1>4. Checked BY DEF Init, Checked, NotAllowedIsFound
  <1> QED BY <1>1, <1>2, <1>3, <1>4 DEF IInv

(* The file system changes under the program. *)
LEMMA WorldStep ==
  ASSUME IInv, UNCHANGED <<table, worker, conns>>,
         link' \in [Names -> Files \cup {NULL}], inside' \subseteq Files
  PROVE  IInv'
  <1>1. TypeOK' BY DEF IInv, TypeOK, worker, conns
  <1>2. Own' BY DEF IInv, Own, worker, conns
  <1>3. Control' BY DEF IInv, Control, worker, conns
  <1>4. Checked' BY DEF IInv, Checked, NotAllowedIsFound, worker, conns
  <1> QED BY <1>1, <1>2, <1>3, <1>4 DEF IInv

(* accept4() gives a connection its descriptor. *)
LEMMA AcceptStep ==
  ASSUME IInv, NEW c \in Conns, NEW d \in Fd, Accept(c, d)
  PROVE  IInv'
  <1> USE FileServingAssumption DEF IInv
  <1>1. TypeOK' BY DEF TypeOK, Accept, world, worker, conns
  <1>2. Own' BY ZenonT(60), AcceptOwns DEF Accept, worker
  <1>3. Control' BY DEF TypeOK, Control, Accept, world, worker, conns
  <1>4. Checked'
    BY DEF TypeOK, Own, Control, Checked, NotAllowedIsFound,
       Accept, world, worker, conns
  <1> QED BY <1>1, <1>2, <1>3, <1>4

(* close_connection() of a connection no request is being answered on. *)
LEMMA DropStep ==
  ASSUME IInv, NEW c \in Conns, Drop(c)
  PROVE  IInv'
  <1> USE FileServingAssumption DEF IInv
  <1>1. TypeOK' BY DEF TypeOK, Drop, close_connection, world, worker, conns
  <1>2. Own' BY CloseConnectionOwns DEF Drop, worker
  <1>3. Control' BY DEF TypeOK, Control, Drop, close_connection, world,
                    worker, conns
  <1>4. Checked'
    BY DEF TypeOK, Own, Control, Checked, NotAllowedIsFound,
       Drop, close_connection, world, worker, conns
  <1> QED BY <1>1, <1>2, <1>3, <1>4

(* route_request(). *)
LEMMA RouteStep ==
  ASSUME IInv, NEW c \in Conns, NEW r \in Requests, route_request(c, r)
  PROVE  IInv'
  <1> USE FileServingAssumption DEF IInv
  <1>1. TypeOK' BY DEF TypeOK, route_request, Immediate, world, worker, conns
  <1>2. Own' BY DEF Own, route_request, conns
  <1>3. Control' BY DEF TypeOK, Control, route_request, Immediate, world,
                    worker, conns
  <1>4. Checked'
    BY DEF TypeOK, Own, Control, Checked, NotAllowedIsFound,
       route_request, Immediate, world, worker, conns
  <1> QED BY <1>1, <1>2, <1>3, <1>4

(* flush_pending_write() resumes a blocked response. *)
LEMMA WritableStep ==
  ASSUME IInv, NEW c \in Conns, flush_pending_write(c)
  PROVE  IInv'
  <1> USE FileServingAssumption DEF IInv
  <1>1. TypeOK' BY DEF TypeOK, flush_pending_write, world, worker, conns
  <1>2. Own' BY DEF Own, flush_pending_write, conns
  <1>3. Control' BY DEF TypeOK, Control, flush_pending_write, world, worker, conns
  <1>4. Checked'
    BY DEF TypeOK, Own, Control, Checked, NotAllowedIsFound,
       flush_pending_write, world, worker, conns
  <1> QED BY <1>1, <1>2, <1>3, <1>4

(* open() succeeds. *)
LEMMA OpenStep ==
  ASSUME IInv, NEW w \in Workers, NEW d \in Fd, open(w, d)
  PROVE  IInv'
  <1> USE FileServingAssumption DEF IInv
  <1>0. link[req[w].target] \in Files BY DEF TypeOK, Control, open
  <1>9. fd[w] = NULL BY DEF Control, open
  <1>1. TypeOK' BY <1>0 DEF TypeOK, open, world, worker, conns
  <1>2. Own' BY ZenonT(60), <1>0, <1>9, OpenOwns DEF open, conns
  <1>3. Control' BY DEF TypeOK, Control, open, world, worker, conns
  <1>4. Checked'
    BY DEF TypeOK, Own, Control, Checked, NotAllowedIsFound,
       open, world, worker, conns
  <1> QED BY <1>1, <1>2, <1>3, <1>4

(* open() fails. *)
LEMMA OpenFailsStep ==
  ASSUME IInv, NEW w \in Workers, OpenFails(w)
  PROVE  IInv'
  <1> USE FileServingAssumption DEF IInv
  <1>1. TypeOK' BY DEF TypeOK, OpenFails, Answer, world, worker, conns
  <1>2. Own' BY DEF Own, OpenFails, conns
  <1>3. Control' BY DEF TypeOK, Control, OpenFails, Answer, world, worker,
                    conns
  <1>4. Checked'
    BY DEF TypeOK, Own, Control, Checked, NotAllowedIsFound,
       OpenFails, Answer, world, worker, conns
  <1> QED BY <1>1, <1>2, <1>3, <1>4

(* fd_is_within_root(). *)
LEMMA VerifyStep ==
  ASSUME IInv, NEW w \in Workers, Verify(w)
  PROVE  IInv'
  <1> USE FileServingAssumption DEF IInv
  <1>1. TypeOK' BY DEF TypeOK, Verify, CloseLocal, Answer, fd_is_within_root,
                   world, worker, conns
  <1>2. Own' BY CloseOwns DEF Own, Control, Verify, conns
  <1>3. Control' BY DEF TypeOK, Control, Verify, CloseLocal, Answer,
                    fd_is_within_root, world, worker, conns
  <1>4. Checked'
    BY DEF TypeOK, Own, Control, Checked, NotAllowedIsFound,
       Verify, CloseLocal, Answer, fd_is_within_root, world, worker, conns
  <1> QED BY <1>1, <1>2, <1>3, <1>4

(* fstat(), and the method check after it. *)
LEMMA FstatStep ==
  ASSUME IInv, NEW w \in Workers, Fstat(w)
  PROVE  IInv'
  <1> USE FileServingAssumption DEF IInv
  <1>1. TypeOK' BY DEF TypeOK, Fstat, CloseIrregular, CloseLocal, Answer,
                   world, worker, conns
  <1>2. Own' BY CloseOwns DEF Own, Control, Fstat, CloseIrregular, conns
  <1>3. Control' BY DEF TypeOK, Control, Fstat, CloseIrregular, CloseLocal,
                    Answer, world, worker, conns
  <1>4. Checked'
    BY DEF TypeOK, Own, Control, Checked, NotAllowedIsFound,
       Fstat, CloseIrregular, CloseLocal, Answer, world, worker, conns
  <1> QED BY <1>1, <1>2, <1>3, <1>4

(* prepare_response(). *)
LEMMA PrepareStep ==
  ASSUME IInv, NEW w \in Workers, prepare_response(w)
  PROVE  IInv'
  <1> USE FileServingAssumption DEF IInv
  <1>0. /\ conn[w] \in Conns /\ file_fd[conn[w]] = NULL
        /\ \A v \in Workers : v # w /\ pc[v] # "epoll_wait" => conn[v] # conn[w]
    BY DEF TypeOK, Control, prepare_response
  <1>1. TypeOK' BY DEF TypeOK, prepare_response, CloseLocal, world, worker,
                   conns
  <1>2. Own'
    <2>0. sock' = sock BY Zenon DEF prepare_response
    <2>1. CASE /\ file_fd' = [file_fd EXCEPT ![conn[w]] = fd[w]]
               /\ fd' = [fd EXCEPT ![w] = NULL] /\ UNCHANGED table
      BY Zenon, <1>0, <2>0, <2>1, HandOverOwns
    <2>2. CASE UNCHANGED <<table, fd, file_fd>> BY Zenon, <2>0, <2>2 DEF Own
    <2>3. CASE fd[w] # NULL /\ CloseLocal(w) /\ UNCHANGED file_fd
      BY Zenon, <2>0, <2>3, CloseOwns
    <2> QED BY Zenon, <2>1, <2>2, <2>3 DEF prepare_response
  <1>3. Control' BY DEF TypeOK, Control, prepare_response, CloseLocal, world,
                    worker, conns
  <1>4. Checked'
    BY <1>0 DEF TypeOK, Own, Control, Checked, NotAllowedIsFound,
       prepare_response, CloseLocal, world, worker, conns
  <1> QED BY <1>1, <1>2, <1>3, <1>4

(* The rest of the response waits for EPOLLOUT. *)
LEMMA FlushBlocksStep ==
  ASSUME IInv, NEW w \in Workers, FlushBlocks(w)
  PROVE  IInv'
  <1> USE FileServingAssumption DEF IInv
  <1>1. TypeOK' BY ZenonT(60) DEF TypeOK, FlushBlocks, Waits, world, worker, conns
  <1>2. Own' BY DEF Own, FlushBlocks, Waits
  <1>3. Control' BY DEF TypeOK, Control, FlushBlocks, Waits, world, worker,
                    conns
  <1>4. Checked'
    BY DEF TypeOK, Own, Control, Checked, NotAllowedIsFound,
       FlushBlocks, Waits, world, worker, conns
  <1> QED BY <1>1, <1>2, <1>3, <1>4

(* release_file_body() after a response. *)
LEMMA FlushDoneStep ==
  ASSUME IInv, NEW w \in Workers, FlushDone(w)
  PROVE  IInv'
  <1> USE FileServingAssumption DEF IInv
  <1>0. conn[w] \in Conns BY DEF Control, FlushDone
  <1>1. TypeOK' BY ZenonT(60) DEF TypeOK, FlushDone, Waits, world, worker, conns
  <1>2. Own' BY ZenonT(60), <1>0, ReleaseOwns DEF FlushDone, Waits
  <1>3. Control' BY DEF TypeOK, Control, FlushDone, Waits, world, worker, conns
  <1>4. Checked'
    BY DEF TypeOK, Own, Control, Checked, NotAllowedIsFound,
       FlushDone, Waits, world, worker, conns
  <1> QED BY <1>1, <1>2, <1>3, <1>4

(* close_connection() after a response. *)
LEMMA FlushEndsStep ==
  ASSUME IInv, NEW w \in Workers, FlushEnds(w)
  PROVE  IInv'
  <1> USE FileServingAssumption DEF IInv
  <1>1. TypeOK' BY ZenonT(60) DEF TypeOK, FlushEnds, Waits, close_connection, world,
                   worker, conns
  <1>2. Own' BY CloseConnectionOwns DEF Control, FlushEnds, Waits
  <1>3. Control' BY DEF TypeOK, Control, FlushEnds, Waits, close_connection,
                    world, worker, conns
  <1>4. Checked'
    BY DEF TypeOK, Own, Control, Checked, NotAllowedIsFound,
       FlushEnds, Waits, close_connection, world, worker, conns
  <1> QED BY <1>1, <1>2, <1>3, <1>4

(* Every step preserves the invariant. *)
LEMMA NextStep == ASSUME IInv, [Next]_vars PROVE IInv'
  <1>1. CASE UNCHANGED vars
    BY <1>1, WorldStep, Zenon DEF vars, world, IInv, TypeOK
  <1>2. ASSUME NEW n \in Names, NEW f \in Files \cup {NULL}, Relink(n, f) PROVE IInv'
    <2>1. link' \in [Names -> Files \cup {NULL}] /\ inside' \subseteq Files
      BY <1>2 DEF Relink, IInv, TypeOK
    <2> QED BY <1>2, <2>1, WorldStep, Zenon DEF Relink
  <1>3. ASSUME NEW f \in Files, Move(f) PROVE IInv'
    <2>1. link' \in [Names -> Files \cup {NULL}] /\ inside' \subseteq Files
      BY <1>3 DEF Move, IInv, TypeOK
    <2> QED BY <1>3, <2>1, WorldStep, Zenon DEF Move
  <1>4. ASSUME NEW c \in Conns, NEW d \in Fd, Accept(c, d) PROVE IInv'
    BY <1>4, AcceptStep, Zenon
  <1>5. ASSUME NEW c \in Conns, Drop(c) \/ flush_pending_write(c) PROVE IInv'
    BY <1>5, DropStep, WritableStep, Zenon
  <1>6. ASSUME NEW c \in Conns, NEW r \in Requests, route_request(c, r) PROVE IInv'
    BY <1>6, RouteStep, Zenon
  <1>7. ASSUME NEW w \in Workers, Step(w) PROVE IInv'
    BY <1>7, OpenStep, OpenFailsStep, VerifyStep, FstatStep, PrepareStep,
       FlushBlocksStep, FlushDoneStep, FlushEndsStep, Zenon DEF Step
  <1> QED BY <1>1, <1>2, <1>3, <1>4, <1>5, <1>6, <1>7, Zenon DEF Next

(* Every reachable state satisfies the inductive invariant. *)
THEOREM Invariance == Spec => []IInv
  BY InitStep, NextStep, PTL DEF Spec

(* The descriptor table agrees with the variables that hold descriptors. *)
LEMMA OwnIsOneOwner == ASSUME IInv PROVE OneOwner
  <1> USE FileServingAssumption DEF IInv
  <1>1. /\ \A c \in Conns : <<"sock", c>> \in Holders /\ <<"file", c>> \in Holders
        /\ \A w \in Workers : <<"local", w>> \in Holders
    BY DEF Holders
  <1>2. /\ \A c \in Conns : Held(<<"sock", c>>) = sock[c] /\ Held(<<"file", c>>) = file_fd[c]
        /\ \A w \in Workers : Held(<<"local", w>>) = fd[w]
    BY DEF Held
  <1>3. \A h \in Holders : \/ \E c \in Conns : h = <<"sock", c>>
                           \/ \E c \in Conns : h = <<"file", c>>
                           \/ \E w \in Workers : h = <<"local", w>>
    BY DEF Holders
  <1>4. ASSUME NEW d \in Fd, table[d] # NULL PROVE \E h \in Holders : Held(h) = d
    <2>1. table[d] \in Conns \/ table[d] \in Files BY <1>4 DEF TypeOK
    <2>2. CASE table[d] \in Conns
      <3>1. Held(<<"sock", table[d]>>) = d BY <1>2, <2>2, Zenon DEF Own
      <3> QED BY <1>1, <2>2, <3>1, Zenon
    <2>3. ASSUME NEW c \in Conns, file_fd[c] = d PROVE \E h \in Holders : Held(h) = d
      BY <1>1, <1>2, <2>3, Zenon
    <2>4. ASSUME NEW w \in Workers, fd[w] = d PROVE \E h \in Holders : Held(h) = d
      BY <1>1, <1>2, <2>4, Zenon
    <2> QED BY <2>1, <2>2, <2>3, <2>4, Zenon DEF Own
  <1>5. ASSUME NEW d \in Fd, NEW h \in Holders, Held(h) = d PROVE table[d] # NULL
    <2>1. d # NULL /\ NULL \notin Files /\ NULL \notin Conns OBVIOUS
    <2>2. ASSUME NEW c \in Conns, sock[c] = d PROVE table[d] # NULL
      BY <2>1, <2>2 DEF Own
    <2>3. ASSUME NEW c \in Conns, file_fd[c] = d PROVE table[d] # NULL
      BY <2>1, <2>3 DEF Own
    <2>4. ASSUME NEW w \in Workers, fd[w] = d PROVE table[d] # NULL
      BY <2>1, <2>4 DEF Own
    <2>5. CASE \E c \in Conns : h = <<"sock", c>>
      BY <1>2, <1>5, <2>2, <2>5, Zenon
    <2>6. CASE \E c \in Conns : h = <<"file", c>>
      BY <1>2, <1>5, <2>3, <2>6, Zenon
    <2>7. CASE \E w \in Workers : h = <<"local", w>>
      BY <1>2, <1>5, <2>4, <2>7, Zenon
    <2> QED BY <1>3, <2>5, <2>6, <2>7, Zenon
  <1>6. ASSUME NEW g \in Holders, NEW h \in Holders, Held(g) = Held(h), Held(g) # NULL
        PROVE  g = h
    <2>1. \A b, c \in Conns : sock[b] # NULL =>
            sock[b] # file_fd[c] /\ (sock[b] = sock[c] => b = c)
      BY DEF Own, TypeOK
    <2>2. ASSUME NEW b \in Conns, NEW w \in Workers
          PROVE  /\ sock[b] # NULL => sock[b] # fd[w]
                 /\ file_fd[b] # NULL => file_fd[b] # fd[w]
      BY <2>2 DEF Own, TypeOK
    <2>3. ASSUME NEW b \in Conns, g = <<"sock", b>> PROVE g = h
      <3>1. sock[b] # NULL /\ Held(h) = sock[b] BY <1>2, <1>6, <2>3, Zenon
      <3>2. ~(\E c \in Conns : h = <<"file", c>>)
        <4> SUFFICES ASSUME NEW c \in Conns, h = <<"file", c>> PROVE FALSE
          BY Zenon
        <4>1. file_fd[c] = sock[b] BY <1>2, <3>1, Zenon
        <4> QED BY <2>1, <3>1, <4>1, Zenon
      <3>3. ~(\E w \in Workers : h = <<"local", w>>)
        <4> SUFFICES ASSUME NEW w \in Workers, h = <<"local", w>> PROVE FALSE
          BY Zenon
        <4>1. fd[w] = sock[b] BY <1>2, <3>1, Zenon
        <4> QED BY <2>2, <3>1, <4>1, Zenon
      <3>4. PICK c \in Conns : h = <<"sock", c>> BY <1>3, <3>2, <3>3, Zenon
      <3> QED BY <1>2, <2>1, <2>3, <3>1, <3>4, Zenon
    <2>4. ASSUME NEW b \in Conns, g = <<"file", b>> PROVE g = h
      <3>1. file_fd[b] # NULL /\ Held(h) = file_fd[b]
        BY <1>2, <1>6, <2>4, Zenon
      <3>2. ~(\E c \in Conns : h = <<"sock", c>>)
        <4> SUFFICES ASSUME NEW c \in Conns, h = <<"sock", c>> PROVE FALSE
          BY Zenon
        <4>1. sock[c] = file_fd[b] BY <1>2, <3>1, Zenon
        <4> QED BY <2>1, <3>1, <4>1, Zenon
      <3>3. ~(\E w \in Workers : h = <<"local", w>>)
        <4> SUFFICES ASSUME NEW w \in Workers, h = <<"local", w>> PROVE FALSE
          BY Zenon
        <4>1. fd[w] = file_fd[b] BY <1>2, <3>1, Zenon
        <4> QED BY <2>2, <3>1, <4>1, Zenon
      <3>4. PICK c \in Conns : h = <<"file", c>> BY <1>3, <3>2, <3>3, Zenon
      <3>5. file_fd[c] = file_fd[b] BY <1>2, <3>1, <3>4, Zenon
      <3>6. b = c BY <3>1, <3>5 DEF Own
      <3> QED BY <2>4, <3>4, <3>6, Zenon
    <2>5. ASSUME NEW v \in Workers, g = <<"local", v>> PROVE g = h
      <3>1. fd[v] # NULL /\ Held(h) = fd[v] BY <1>2, <1>6, <2>5, Zenon
      <3>2. ~(\E c \in Conns : h = <<"sock", c>>)
        <4> SUFFICES ASSUME NEW c \in Conns, h = <<"sock", c>> PROVE FALSE
          BY Zenon
        <4>1. sock[c] = fd[v] BY <1>2, <3>1, Zenon
        <4> QED BY <2>2, <3>1, <4>1, Zenon
      <3>3. ~(\E c \in Conns : h = <<"file", c>>)
        <4> SUFFICES ASSUME NEW c \in Conns, h = <<"file", c>> PROVE FALSE
          BY Zenon
        <4>1. file_fd[c] = fd[v] BY <1>2, <3>1, Zenon
        <4> QED BY <2>2, <3>1, <4>1, Zenon
      <3>4. PICK w \in Workers : h = <<"local", w>> BY <1>3, <3>2, <3>3, Zenon
      <3>5. fd[w] = fd[v] BY <1>2, <3>1, <3>4, Zenon
      <3>6. v = w BY <3>1, <3>5 DEF Own
      <3> QED BY <2>5, <3>4, <3>6, Zenon
    <2> QED BY <1>3, <2>3, <2>4, <2>5, Zenon
  <1> QED BY <1>4, <1>5, <1>6 DEF OneOwner

(* Every open descriptor of the process has exactly one owner, however the *)
(* system calls of the workers interleave: static_file_open(),             *)
(* prepare_response(), release_file_body() and close_connection() neither  *)
(* leak one nor close one twice.                                           *)
THEOREM DescriptorsHaveOneOwner == Spec => []OneOwner
  BY OwnIsOneOwner, Invariance, PTL

(* A response body is the regular file that this lookup saw below the      *)
(* root, however the file system changes between open(), readlink() and    *)
(* fstat().                                                                *)
THEOREM ServedIsChecked == Spec => []ServesWhatItChecked
  <1>1. IInv => ServesWhatItChecked BY DEF IInv, Own, Checked,
     ServesWhatItChecked
  <1> QED BY <1>1, Invariance, PTL

(* 405 is answered for a name only when its file was found. *)
THEOREM NotAllowedMeansFound == Spec => []NotAllowedIsFound
  <1>1. IInv => NotAllowedIsFound BY DEF IInv, Checked
  <1> QED BY <1>1, Invariance, PTL

(* The variables keep their types. *)
THEOREM TypeCorrect == Spec => []TypeOK
  <1>1. IInv => TypeOK BY DEF IInv
  <1> QED BY <1>1, Invariance, PTL

=============================================================================
