---------------------------- MODULE MCConnection ----------------------------
(* An instance of Connection for TLC. *)
EXTENDS Connection

Request(malformed, keep, isFile, head, body) ==
  [malformed |-> malformed, keep |-> keep, file |-> isFile,
   head |-> head, body |-> body]

(* An inline reply, as long as a head may be, and a file reply that keep   *)
(* the connection, one of two sendfile() chunks that ends it, a malformed  *)
(* request, and a file whose head is one byte too long.                    *)
MCRequests ==
  { Request(FALSE, TRUE,  FALSE, 2, 0),
    Request(FALSE, TRUE,  TRUE,  1, 1),
    Request(FALSE, FALSE, TRUE,  1, 2),
    Request(TRUE,  TRUE,  FALSE, 1, 0),
    Request(FALSE, TRUE,  TRUE,  3, 1) }
=============================================================================
