-------------------------- MODULE ChunkFeedProofs --------------------------
(***************************************************************************)
(* The parser stays within its buffers and does not depend on how its      *)
(* input is split, for every alphabet, every limit and every client.       *)
(***************************************************************************)
EXTENDS ChunkFeed, TLAPS

(* The time, in seconds, that a step gives each prover. *)
USE SMTT(30), ZenonT(60)

Good(p) == p \in Parser /\ Within(p)

-----------------------------------------------------------------------------
(* One turn of the loop. *)

(* The limits are numbers, and every buffer holds at least its NUL. *)
LEMMA Limits ==
  /\ HTTP_METHOD_MAX \in Nat /\ HTTP_PATH_MAX \in Nat /\ VERSION_MAX \in Nat
  /\ HTTP_HEADER_LINE_MAX \in Nat /\ HTTP_MAX_HEADERS \in Nat
  /\ HTTP_METHOD_MAX > 0 /\ HTTP_PATH_MAX > 0 /\ VERSION_MAX > 0
  /\ HTTP_HEADER_LINE_MAX > 1
  BY HttpParserAssumption

(* No byte is both part of a token and its end. *)
LEMMA Classes ==
  /\ SP \notin MethodChar /\ SP \notin PathChar /\ CR \notin VersionChar
  /\ CR \notin NameChar /\ Colon \notin NameChar /\ CR \notin ValueChar
  BY HttpParserAssumption

(* http_parser_init() leaves a parser within its limits. *)
LEMMA FreshGood == Good(Fresh)
  <1>1. <<>> \in Seq(Byte) /\ Len(<<>>) = 0 /\ <<0, 0>> \in Nat \X Nat OBVIOUS
  <1>2. "METHOD" \in States /\ "UNSPECIFIED" \in Directives /\ "GET" \in MethodIds
    BY DEF States, Directives, MethodIds
  <1>3. Fresh \in Parser BY <1>1, <1>2 DEF Fresh, Parser
  <1>4. Within(Fresh) BY <1>1, Limits DEF Within, Fresh
  <1> QED BY <1>3, <1>4 DEF Good

(* Changing the state alone to one that promises nothing is safe. *)
LEMMA GotoGood ==
  ASSUME NEW p, Good(p), NEW s \in States,
         s \in {"HEADER_NAME", "HEADER_VALUE_SP", "HEADER_VALUE", "HEADER_LF"} =>
           /\ p.header_line # <<>> /\ p.header_count < HTTP_MAX_HEADERS
           /\ s # "HEADER_NAME" => p.header_name_len \in 1 .. Len(p.header_line)
  PROVE  Good(Goto(p, s))
  BY ZenonT(60) DEF Good, Within, Goto, Parser

(* A rejected request keeps what was read of it. *)
LEMMA FailGood == ASSUME NEW p, Good(p) PROVE Good(Fail(p))
  BY ZenonT(60) DEF Good, Within, Fail, Parser, States

(* A byte put into a buffer with room leaves room for the NUL. *)
LEMMA PutFits ==
  ASSUME NEW s \in Seq(Byte), NEW c \in Byte, NEW size \in Nat, Holds(s, size)
  PROVE  /\ Append(s, c) \in Seq(Byte) /\ Append(s, c) # <<>>
         /\ Len(Append(s, c)) = Len(s) + 1 /\ Len(Append(s, c)) < size
  BY DEF Holds

(* HTTP_STATE_METHOD. *)
LEMMA MethodGood ==
  ASSUME NEW p, Good(p), p.state = "METHOD", NEW c \in Byte
  PROVE  Good(in_method(p, c))
  <1>1. classify_method(p.method) \in MethodIds
    BY HttpParserAssumption DEF classify_method, MethodIds
  <1>2. CASE c = SP /\ p.method # <<>>
    <2>1. in_method(p, c) = [p EXCEPT !.method_id = classify_method(p.method),
                                      !.state = "PATH"]
      BY <1>2, Classes DEF in_method
    <2> QED BY ZenonT(60), <1>1, <2>1 DEF Good, Within, Parser, States
  <1>3. CASE c \in MethodChar /\ Holds(p.method, HTTP_METHOD_MAX)
    <2>1. in_method(p, c) = [p EXCEPT !.method = Append(@, c)]
      BY <1>3, Classes DEF in_method
    <2>2. p.method \in Seq(Byte) BY DEF Good, Parser
    <2>3. Append(p.method, c) \in Seq(Byte) /\ Len(Append(p.method, c)) < HTTP_METHOD_MAX
      BY <1>3, <2>2, PutFits, Limits
    <2> QED BY ZenonT(60), <2>1, <2>3 DEF Good, Within, Parser
  <1>4. CASE /\ ~(c = SP /\ p.method # <<>>)
             /\ ~(c \in MethodChar /\ Holds(p.method, HTTP_METHOD_MAX))
    <2>1. in_method(p, c) = Fail(p) BY <1>4 DEF in_method
    <2> QED BY <2>1, FailGood
  <1> QED BY <1>2, <1>3, <1>4

(* HTTP_STATE_PATH. *)
LEMMA PathGood ==
  ASSUME NEW p, Good(p), p.state = "PATH", NEW c \in Byte
  PROVE  Good(in_path(p, c))
  <1> DEFINE ends == c = SP /\ p.path # <<>>
             puts == c \in PathChar /\ Holds(p.path, HTTP_PATH_MAX)
  <1>1. CASE ends
    <2>1. in_path(p, c) = Goto(p, "VERSION")
      BY <1>1, Classes DEF in_path
    <2> QED BY <2>1, GotoGood DEF States
  <1>2. CASE puts
    <2>1. in_path(p, c) = [p EXCEPT !.path = Append(@, c)]
      BY <1>2, Classes DEF in_path
    <2>2. p.path \in Seq(Byte) BY DEF Good, Parser
    <2>3. /\ Append(p.path, c) \in Seq(Byte) /\ Append(p.path, c) # <<>>
          /\ Len(Append(p.path, c)) = Len(p.path) + 1
          /\ Len(Append(p.path, c)) < HTTP_PATH_MAX
      BY <1>2, <2>2, PutFits, Limits
    <2> QED BY ZenonT(60), <2>1, <2>2, <2>3 DEF Good, Within, Parser
  <1>3. CASE ~ends /\ ~puts
    <2>1. in_path(p, c) = Fail(p) BY <1>3 DEF in_path
    <2> QED BY <2>1, FailGood
  <1> QED BY <1>1, <1>2, <1>3

(* HTTP_STATE_VERSION. *)
LEMMA VersionGood ==
  ASSUME NEW p, Good(p), p.state = "VERSION", NEW c \in Byte
  PROVE  Good(in_version(p, c))
  <1> DEFINE ends == c = CR /\ p.version \in DOMAIN Versions
             puts == c \in VersionChar /\ Holds(p.version, VERSION_MAX)
  <1>1. CASE ends
    <2>1. in_version(p, c) = [p EXCEPT !.http = Versions[p.version],
                                       !.state = "REQUEST_LINE_LF"]
      BY <1>1, Classes DEF in_version
    <2> QED BY ZenonT(60), <1>1, <2>1, HttpParserAssumption DEF Good, Within, Parser,
               States
  <1>2. CASE puts
    <2>1. in_version(p, c) = [p EXCEPT !.version = Append(@, c)]
      BY <1>2, Classes DEF in_version
    <2>2. p.version \in Seq(Byte) BY DEF Good, Parser
    <2>3. /\ Append(p.version, c) \in Seq(Byte) /\ Append(p.version, c) # <<>>
          /\ Len(Append(p.version, c)) = Len(p.version) + 1
          /\ Len(Append(p.version, c)) < VERSION_MAX
      BY <1>2, <2>2, PutFits, Limits
    <2> QED BY ZenonT(60), <2>1, <2>2, <2>3 DEF Good, Within, Parser
  <1>3. CASE ~ends /\ ~puts
    <2>1. in_version(p, c) = Fail(p) BY <1>3 DEF in_version
    <2> QED BY <2>1, FailGood
  <1> QED BY <1>1, <1>2, <1>3

(* HTTP_STATE_HEADER_NAME. *)
LEMMA HeaderNameGood ==
  ASSUME NEW p, Good(p), p.state = "HEADER_NAME", NEW c \in Byte
  PROVE  Good(in_header_name(p, c))
  <1> DEFINE ends == c = Colon
             puts == c \in NameChar /\ Holds(p.header_line, HTTP_HEADER_LINE_MAX)
  <1>1. CASE ends
    <2>1. in_header_name(p, c) = [p EXCEPT !.header_name_len = Len(p.header_line),
                                           !.state = "HEADER_VALUE_SP"]
      BY <1>1, Classes DEF in_header_name
    <2>2. p.header_line \in Seq(Byte) /\ p.header_line # <<>>
      BY DEF Good, Within, Parser
    <2>3. Len(p.header_line) \in Nat /\ Len(p.header_line) > 0 BY <2>2
    <2>4. p \in Parser /\ "HEADER_VALUE_SP" \in States BY DEF Good, States
    <2>5. in_header_name(p, c) \in Parser BY ZenonT(60), <2>1, <2>3, <2>4 DEF Parser
    <2>6. Within(in_header_name(p, c))
      BY <2>1, <2>2, <2>3, <2>4 DEF Good, Within, Parser
    <2> QED BY <2>5, <2>6 DEF Good
  <1>2. CASE puts
    <2>1. in_header_name(p, c) = [p EXCEPT !.header_line = Append(@, c)]
      BY <1>2, Classes DEF in_header_name
    <2>2. p.header_line \in Seq(Byte) BY DEF Good, Parser
    <2>3. /\ Append(p.header_line, c) \in Seq(Byte) /\ Append(p.header_line, c) # <<>>
          /\ Len(Append(p.header_line, c)) = Len(p.header_line) + 1
          /\ Len(Append(p.header_line, c)) < HTTP_HEADER_LINE_MAX
      BY <1>2, <2>2, PutFits, Limits
    <2> QED BY ZenonT(60), <2>1, <2>2, <2>3 DEF Good, Within, Parser
  <1>3. CASE ~ends /\ ~puts
    <2>1. in_header_name(p, c) = Fail(p) BY <1>3 DEF in_header_name
    <2> QED BY <2>1, FailGood
  <1> QED BY <1>1, <1>2, <1>3

(* HTTP_STATE_HEADER_VALUE. *)
LEMMA HeaderValueGood ==
  ASSUME NEW p, Good(p), p.state = "HEADER_VALUE", NEW c \in Byte
  PROVE  Good(in_header_value(p, c))
  <1> DEFINE ends == c = CR
             puts == c \in ValueChar /\ Holds(p.header_line, HTTP_HEADER_LINE_MAX)
  <1>1. CASE ends
    <2>1. in_header_value(p, c) = Goto(p, "HEADER_LF")
      BY <1>1, Classes DEF in_header_value
    <2> QED BY <2>1, GotoGood DEF States, Good, Within
  <1>2. CASE puts
    <2>1. in_header_value(p, c) = [p EXCEPT !.header_line = Append(@, c)]
      BY <1>2, Classes DEF in_header_value
    <2>2. p.header_line \in Seq(Byte) BY DEF Good, Parser
    <2>3. /\ Append(p.header_line, c) \in Seq(Byte) /\ Append(p.header_line, c) # <<>>
          /\ Len(Append(p.header_line, c)) = Len(p.header_line) + 1
          /\ Len(Append(p.header_line, c)) < HTTP_HEADER_LINE_MAX
      BY <1>2, <2>2, PutFits, Limits
    <2>4. in_header_value(p, c) \in Parser BY ZenonT(60), <2>1, <2>3 DEF Good, Parser
    <2>5. p.header_name_len \in 1 .. Len(p.header_line) BY DEF Good, Within
    <2>6. p.header_name_len \in 1 .. Len(Append(p.header_line, c))
      BY <2>2, <2>3, <2>5
    <2>7. Within(in_header_value(p, c))
      BY <2>1, <2>3, <2>6 DEF Good, Within, Parser
    <2> QED BY <2>4, <2>7 DEF Good
  <1>3. CASE ~ends /\ ~puts
    <2>1. in_header_value(p, c) = Fail(p) BY <1>3 DEF in_header_value
    <2> QED BY <2>1, FailGood
  <1> QED BY <1>1, <1>2, <1>3

(* HTTP_STATE_HEADER_LINE_START. *)
LEMMA LineStartGood ==
  ASSUME NEW p, Good(p), p.state = "HEADER_LINE_START", NEW c \in Byte
  PROVE  Good(at_line_start(p, c))
  <1> DEFINE puts == c \in NameChar /\ MoreHeaders(p)
  <1>1. CASE c = CR
    <2>1. at_line_start(p, c) = Goto(p, "HEADERS_END_LF")
      BY <1>1, Classes DEF at_line_start
    <2> QED BY <2>1, GotoGood DEF States
  <1>2. CASE puts
    <2>1. at_line_start(p, c) = [p EXCEPT !.header_line = <<c>>, !.state = "HEADER_NAME"]
      BY <1>2, Classes DEF at_line_start
    <2>2. <<c>> \in Seq(Byte) /\ Len(<<c>>) = 1 /\ <<c>> # <<>> OBVIOUS
    <2> QED BY ZenonT(60), <1>2, <2>1, <2>2, Limits DEF Good, Within, Parser, States,
               MoreHeaders
  <1>3. CASE c # CR /\ ~puts
    <2>1. at_line_start(p, c) = Fail(p) BY <1>3 DEF at_line_start
    <2> QED BY <2>1, FailGood
  <1> QED BY <1>1, <1>2, <1>3

(* HTTP_STATE_HEADER_LF: whatever the value says, the directive is one of  *)
(* the three, and the header is counted.                                   *)
LEMMA HeaderLfGood ==
  ASSUME NEW p, Good(p), p.state = "HEADER_LF", NEW c \in Byte
  PROVE  Good(at_header_lf(p, c))
  <1>1. CASE c = LF
    <2> DEFINE d == IF header_name_is(p, ConnectionNames)
                    THEN note_connection_header(p) ELSE p.connection_directive
    <2>1. d \in Directives
      <3>1. p.connection_directive \in Directives BY DEF Good, Parser
      <3>2. \A x : TokenWins(p.connection_directive, x) \in Directives
        BY <3>1 DEF TokenWins, Directives
      <3>3. note_connection_header(p) \in Directives
        BY <3>2, Zenon DEF note_connection_header
      <3> QED BY <3>1, <3>3
    <2>2. at_header_lf(p, c) =
            [p EXCEPT !.connection_directive = d, !.header_count = @ + 1,
                      !.state = "HEADER_LINE_START"]
      BY <1>1 DEF at_header_lf
    <2> HIDE DEF d
    <2>3. p.header_count \in Nat /\ p.header_count < HTTP_MAX_HEADERS
      BY DEF Good, Within, Parser
    <2>4. p \in Parser /\ "HEADER_LINE_START" \in States BY DEF Good, States
    <2>5. at_header_lf(p, c) \in Parser
      <3> DEFINE q == [p EXCEPT !.connection_directive = d]
                 r == [q EXCEPT !.header_count = p.header_count + 1]
      <3>1. q \in Parser BY ZenonT(60), <2>1, <2>4 DEF Parser
      <3>2. p.header_count + 1 \in Nat BY <2>3
      <3>3. r \in Parser
        <4> HIDE DEF q
        <4> QED BY ZenonT(60), <3>1, <3>2 DEF Parser
      <3>4. at_header_lf(p, c) = [r EXCEPT !.state = "HEADER_LINE_START"]
        BY <2>2, Zenon
      <3> HIDE DEF r
      <3> QED BY ZenonT(60), <2>4, <3>3, <3>4 DEF Parser
    <2>6. /\ at_header_lf(p, c).header_count = p.header_count + 1
          /\ at_header_lf(p, c).state = "HEADER_LINE_START"
          /\ at_header_lf(p, c).method = p.method
          /\ at_header_lf(p, c).path = p.path
          /\ at_header_lf(p, c).version = p.version
          /\ at_header_lf(p, c).header_line = p.header_line
      BY <2>2, <2>4 DEF Parser
    <2>7. Within(at_header_lf(p, c)) BY <2>3, <2>6, Limits DEF Good, Within
    <2> QED BY <2>5, <2>7 DEF Good
  <1>2. CASE c # LF
    <2>1. at_header_lf(p, c) = Fail(p) BY <1>2 DEF at_header_lf
    <2> QED BY <2>1, FailGood
  <1> QED BY <1>1, <1>2

(* A turn of the loop keeps the parser within its limits. *)
LEMMA StepGood ==
  ASSUME NEW p, Good(p), NEW c \in Byte
  PROVE  Good(step(p, c))
  <1>1. p.state \in States BY DEF Good, Parser
  <1>2. CASE p.state = "METHOD" BY <1>2, MethodGood DEF step
  <1>3. CASE p.state = "PATH" BY <1>3, PathGood DEF step
  <1>4. CASE p.state = "VERSION" BY <1>4, VersionGood DEF step
  <1>5. CASE p.state = "REQUEST_LINE_LF" BY <1>5, GotoGood DEF step, States
  <1>6. CASE p.state = "HEADER_LINE_START" BY <1>6, LineStartGood DEF step
  <1>7. CASE p.state = "HEADER_NAME" BY <1>7, HeaderNameGood DEF step
  <1>8. CASE p.state = "HEADER_VALUE_SP"
    <2>1. Good(Goto(p, "HEADER_VALUE"))
      BY <1>8, GotoGood DEF States, Good, Within
    <2> QED BY <1>8, <2>1 DEF step, in_value_sp
  <1>9. CASE p.state = "HEADER_VALUE" BY <1>9, HeaderValueGood DEF step
  <1>10. CASE p.state = "HEADER_LF" BY <1>10, HeaderLfGood DEF step
  <1>11. CASE p.state = "HEADERS_END_LF" BY <1>11, GotoGood DEF step, States
  <1>12. CASE p.state \in Terminal BY <1>12 DEF step, Terminal
  <1> QED BY <1>1, <1>2, <1>3, <1>4, <1>5, <1>6, <1>7, <1>8, <1>9, <1>10,
             <1>11,
             <1>12 DEF States, Terminal

-----------------------------------------------------------------------------
(* The calls. *)

(* The inductive invariant: where the reading and the parsing stand, what  *)
(* a byte looked at again is, and that a call has returned exactly when    *)
(* the parser is done.                                                     *)
IInv ==
  /\ stream \in Seq(Byte) /\ Len(stream) <= MaxBytes
  /\ offset \in Nat /\ at \in Nat /\ end \in Nat
  /\ offset <= at /\ at <= end /\ end <= Len(stream)
  /\ again \in BOOLEAN
  /\ again => /\ parser.state = "HEADER_VALUE" /\ call = "execute" /\ at < end
              /\ stream[at + 1] \notin {SP, HT}
  /\ call \in {"none", "execute", "COMPLETE", "ERROR"}
  /\ call = "COMPLETE" <=> parser.state = "DONE"
  /\ call = "ERROR" <=> parser.state = "ERROR"
  /\ Good(parser)

(* The invariant holds before anything was read. *)
LEMMA InitStep == ASSUME Init PROVE IInv
  <1>1. Good(parser) /\ parser.state = "METHOD" BY FreshGood DEF Init, Fresh
  <1>2. stream \in Seq(Byte) /\ Len(stream) <= MaxBytes
    BY ChunkFeedAssumption DEF Init
  <1>3. 0 <= Len(stream) BY <1>2
  <1>4. offset = 0 /\ at = 0 /\ end = 0 /\ again = FALSE /\ call = "none"
    BY DEF Init
  <1>5. /\ offset \in Nat /\ at \in Nat /\ end \in Nat
        /\ offset <= at /\ at <= end /\ end <= Len(stream)
    BY <1>3, <1>4
  <1>6. /\ call = "COMPLETE" <=> parser.state = "DONE"
        /\ call = "ERROR" <=> parser.state = "ERROR"
        /\ call \in {"none", "execute", "COMPLETE", "ERROR"} /\ again \in BOOLEAN
    BY ZenonT(60), <1>1, <1>4
  <1> QED BY <1>1, <1>2, <1>4, <1>5, <1>6, Zenon DEF IInv

(* A turn looks at a byte that was read. *)
LEMMA TurnByte ==
  ASSUME IInv, Turn
  PROVE  stream[at + 1] \in Byte /\ Good(step(parser, stream[at + 1]))
  <1>1. stream[at + 1] \in Byte BY DEF IInv, Turn
  <1> QED BY <1>1, StepGood DEF IInv

(* Only a byte that ends the whitespace before a value is looked at again. *)
LEMMA NotAdvancing ==
  ASSUME NEW p, NEW c, ~Advances(p, c)
  PROVE  /\ p.state = "HEADER_VALUE_SP" /\ c \notin {SP, HT}
         /\ step(p, c) = Goto(p, "HEADER_VALUE")
  BY DEF Advances, step, in_value_sp

(* A turn preserves the invariant. *)
LEMMA TurnStep == ASSUME IInv, Turn PROVE IInv'
  <1> DEFINE c == stream[at + 1]
  <1>1. Good(parser') BY TurnByte DEF Turn
  <1>2. /\ parser' = step(parser, c) /\ again' = ~Advances(parser, c)
        /\ at' = IF Advances(parser, c) THEN at + 1 ELSE at
        /\ call' = Outcome(parser') /\ call = "execute" /\ at < end
        /\ UNCHANGED <<stream, offset, end>>
    BY DEF Turn
  <1>3. /\ call' \in {"none", "execute", "COMPLETE", "ERROR"}
        /\ call' = "COMPLETE" <=> parser'.state = "DONE"
        /\ call' = "ERROR" <=> parser'.state = "ERROR"
    BY <1>2 DEF Outcome
  <1>4. CASE Advances(parser, c)
    <2>1. at' = at + 1 /\ again' = FALSE BY ZenonT(60), <1>2, <1>4
    <2>2. at' \in Nat /\ offset <= at' /\ at' <= end BY <1>2, <2>1 DEF IInv
    <2> QED BY <1>1, <1>2, <1>3, <2>1, <2>2 DEF IInv
  <1>5. CASE ~Advances(parser, c)
    <2>1. /\ parser.state = "HEADER_VALUE_SP" /\ c \notin {SP, HT}
          /\ parser' = Goto(parser, "HEADER_VALUE")
      BY <1>2, <1>5, NotAdvancing
    <2>2. parser'.state = "HEADER_VALUE" BY <2>1 DEF Goto, IInv, Good, Parser
    <2>3. call' = "execute" BY <1>2, <2>2 DEF Outcome
    <2>4. at' = at /\ again' = TRUE BY ZenonT(60), <1>2, <1>5
    <2> QED BY <1>1, <1>2, <1>3, <2>1, <2>2, <2>3, <2>4 DEF IInv
  <1> QED BY <1>4, <1>5

(* Every step preserves the invariant. *)
LEMMA NextStep == ASSUME IInv, [Next]_vars PROVE IInv'
  <1>1. CASE UNCHANGED vars BY <1>1 DEF IInv, vars
  <1>2. ASSUME NEW n \in 1 .. READ_CHUNK, Read(n) PROVE IInv'
    BY <1>2, ChunkFeedAssumption DEF IInv, Read
  <1>3. CASE Turn BY <1>3, TurnStep
  <1>4. CASE Incomplete BY <1>4 DEF IInv, Incomplete
  <1>5. CASE Restart
    <2>1. Good(Fresh) /\ Fresh.state = "METHOD" BY FreshGood DEF Fresh
    <2> QED BY <1>5, <2>1 DEF IInv, Restart
  <1>6. CASE CallAgain BY <1>6 DEF IInv, CallAgain, Outcome
  <1> QED BY <1>1, <1>2, <1>3, <1>4, <1>5, <1>6 DEF Next

(* Every state of the parser satisfies the inductive invariant. *)
THEOREM Invariance == Spec => []IInv
  BY InitStep, NextStep, PTL DEF Spec

(* The parser never writes past a buffer of http_request_parser_t, for     *)
(* every limit and every input.                                            *)
THEOREM ParserStaysWithin == Spec => []BuffersHold
  <1>1. IInv => BuffersHold BY DEF IInv, Good, BuffersHold
  <1> QED BY <1>1, Invariance, PTL

(* Positions and states stay in their ranges. *)
THEOREM TypeCorrect == Spec => []TypeOK
  <1>1. IInv => TypeOK
    <2> SUFFICES ASSUME IInv PROVE TypeOK OBVIOUS
    <2>1. parser.state \in States /\ DOMAIN parser = DOMAIN Fresh
      BY DEF IInv, Good, Parser, Fresh
    <2> QED BY <2>1 DEF IInv, TypeOK
  <1> QED BY <1>1, Invariance, PTL

-----------------------------------------------------------------------------
(* Chunks do not matter. *)

(* The two modules mean the same by the scan of a Connection value. *)
LEMMA SameNote ==
  ASSUME NEW p
  PROVE  Bytes!note_connection_header(p) = note_connection_header(p)
  <1>1. \A v, k, class : Bytes!Past(v, k, class) = Past(v, k, class)
    BY Zenon DEF Past, Bytes!Past
  <1>2. \A v, a, b : Bytes!Trimmed(v, a, b) = Trimmed(v, a, b)
    BY Zenon DEF Trimmed, Bytes!Trimmed
  <1>3. \A t : Bytes!Meaning(t) = Meaning(t) BY Zenon DEF Meaning, Bytes!Meaning
  <1>4. \A m, l : Bytes!TokenWins(m, l) = TokenWins(m, l)
    BY Zenon DEF TokenWins, Bytes!TokenWins
  <1>5. \A v : Bytes!Scan(v) = Scan(v)
    BY ZenonT(60), <1>1, <1>2, <1>3, <1>4 DEF Scan, Bytes!Scan
  <1> QED
    BY Zenon, <1>4, <1>5 DEF note_connection_header, Bytes!note_connection_header

(* The two modules mean the same by a turn of the loop. *)
LEMMA SameStep ==
  ASSUME NEW p, NEW c
  PROVE  Bytes!step(p, c) = step(p, c) /\ (Bytes!Advances(p, c) <=> Advances(p, c))
  BY Zenon, SameNote
  DEF step, Advances, in_method, in_path, in_version, at_line_start, in_header_name,
      in_value_sp, in_header_value, at_header_lf, Goto, Fail, Holds, MoreHeaders,
      classify_method, header_name_is,
      Bytes!step, Bytes!Advances, Bytes!in_method, Bytes!in_path, Bytes!in_version,
      Bytes!at_line_start, Bytes!in_header_name, Bytes!in_value_sp,
      Bytes!in_header_value, Bytes!at_header_lf, Bytes!Goto, Bytes!Fail, Bytes!Holds,
      Bytes!MoreHeaders, Bytes!classify_method, Bytes!header_name_is

(* A byte more is parsed. *)
LEMMA OneByteMore ==
  ASSUME NEW s \in Seq(Byte), NEW a \in Nat, NEW b \in Nat, a <= b, b < Len(s)
  PROVE  /\ SubSeq(s, a + 1, b + 1) = Append(SubSeq(s, a + 1, b), s[b + 1])
         /\ Len(SubSeq(s, a + 1, b)) = b - a
  OBVIOUS

(* Nothing of the next request is parsed yet. *)
LEMMA NoByteYet ==
  ASSUME NEW s \in Seq(Byte), NEW a \in Nat, a <= Len(s)
  PROVE  SubSeq(s, a + 1, a) = <<>>
  OBVIOUS

(* The second look at a byte undoes nothing of the first but the state. *)
LEMMA LookAgain ==
  ASSUME NEW p \in Parser
  PROVE  /\ p.state = "HEADER_VALUE_SP" =>
               [Goto(p, "HEADER_VALUE") EXCEPT !.state = "HEADER_VALUE_SP"] = p
         /\ p.state = "HEADER_VALUE" =>
               Goto([p EXCEPT !.state = "HEADER_VALUE_SP"], "HEADER_VALUE") = p
         /\ [p EXCEPT !.state = "HEADER_VALUE_SP"].state = "HEADER_VALUE_SP"
  BY ZenonT(60) DEF Goto, Parser

(* A turn is a byte eaten, or nothing when the byte is to be looked at     *)
(* again.                                                                  *)
LEMMA TurnRefines == ASSUME IInv, Turn PROVE [Bytes!Next]_Bytes!vars
  <1> DEFINE c == stream[at + 1]
             fed == SubSeq(stream, offset + 1, at)
  <1>1. /\ parser' = step(parser, c) /\ again' = ~Advances(parser, c)
        /\ at' = IF Advances(parser, c) THEN at + 1 ELSE at
        /\ call = "execute" /\ at < end /\ stream' = stream /\ offset' = offset
    BY DEF Turn
  <1>2. c \in Byte /\ parser \in Parser BY TurnByte DEF IInv, Good
  <1>3. parser.state \notin {"DONE", "ERROR"} BY <1>1 DEF IInv
  <1>4. CASE ~Advances(parser, c)
    <2>1. /\ parser.state = "HEADER_VALUE_SP" /\ parser' = Goto(parser, "HEADER_VALUE")
      BY <1>1, <1>4, NotAdvancing
    <2>2. again = FALSE /\ again' = TRUE /\ at' = at
      BY ZenonT(60), <1>1, <1>4, <2>1 DEF IInv
    <2>3. Settled' = Settled BY ZenonT(60), <1>2, <2>1, <2>2, LookAgain DEF Settled
    <2> QED BY ZenonT(60), <1>1, <2>2, <2>3 DEF Bytes!vars
  <1>5. CASE Advances(parser, c)
    <2>1. again' = FALSE /\ at' = at + 1 /\ Settled' = parser'
      BY ZenonT(60), <1>1, <1>5 DEF Settled
    <2>2. Settled' = Bytes!Eat(Settled, c)
      <3>1. CASE again = FALSE
        <4>1. Settled = parser BY <3>1 DEF Settled
        <4> QED BY <1>1, <1>5, <2>1, <4>1, SameStep DEF Bytes!Eat
      <3>2. CASE again = TRUE
        <4>1. parser.state = "HEADER_VALUE" /\ c \notin {SP, HT}
          BY <3>2 DEF IInv
        <4>2. Settled = [parser EXCEPT !.state = "HEADER_VALUE_SP"]
          BY <3>2 DEF Settled
        <4>3. Settled.state = "HEADER_VALUE_SP" /\ Goto(Settled, "HEADER_VALUE") = parser
          BY <1>2, <4>1, <4>2, LookAgain
        <4>4. ~Advances(Settled, c) BY <4>1, <4>3 DEF Advances
        <4>5. step(Settled, c) = parser BY <4>3, <4>4, NotAdvancing
        <4> QED BY <1>1, <2>1, <4>4, <4>5, SameStep DEF Bytes!Eat
      <3> QED BY ZenonT(60), <3>1, <3>2 DEF IInv
    <2>3. Settled.state \notin Bytes!Terminal
      BY <1>2, <1>3, LookAgain DEF Settled, Bytes!Terminal
    <2>4. SubSeq(stream, offset + 1, at + 1) = Append(fed, c) /\ Len(fed) = at - offset
      BY <1>1, OneByteMore DEF IInv
    <2>5. offset + Len(fed) < MaxBytes
      BY <1>1, <2>4, ChunkFeedAssumption DEF IInv
    <2>6. Bytes!Feed(c) BY ZenonT(60), <1>1, <2>1, <2>2, <2>3, <2>4, <2>5 DEF Bytes!Feed
    <2> QED BY <1>2, <2>6 DEF Bytes!Next
  <1> QED BY <1>4, <1>5

(* The connection goes on with a fresh parser in both. *)
LEMMA RestartRefines == ASSUME IInv, Restart PROVE Bytes!Restart
  <1>1. /\ call = "COMPLETE" /\ http_parser_should_keep_alive(parser)
        /\ parser' = Fresh /\ offset' = at /\ at' = at /\ stream' = stream
        /\ again' = again
    BY DEF Restart
  <1>2. again = FALSE /\ parser.state = "DONE" BY <1>1 DEF IInv
  <1>3. Settled = parser /\ Settled' = Fresh BY <1>1, <1>2 DEF Settled
  <1>4. Bytes!http_parser_should_keep_alive(parser)
    BY <1>1, Zenon DEF http_parser_should_keep_alive,
       Bytes!http_parser_should_keep_alive
  <1>5. Bytes!Fresh = Fresh BY Zenon DEF Fresh, Bytes!Fresh
  <1>6. SubSeq(stream, at + 1, at) = <<>> BY NoByteYet DEF IInv
  <1>7. offset + Len(SubSeq(stream, offset + 1, at)) = at BY DEF IInv
  <1> QED BY ZenonT(60), <1>1, <1>2, <1>3, <1>4, <1>5, <1>6, <1>7 DEF Bytes!Restart

(* Reading, returning and calling again are not visible. *)
LEMMA OtherRefines ==
  ASSUME IInv, UNCHANGED <<stream, offset, at, again, parser>>
  PROVE  UNCHANGED Bytes!vars
  BY DEF Settled, Bytes!vars

(* Chunks do not matter: for every input, every chunking and every limit,  *)
(* the calls of http_parser_execute() add up to the parser fed byte by     *)
(* byte, reset after each request of a persistent connection.              *)
THEOREM ChunksDoNotMatter == Spec => ImplementsByteFeed
  <1>1. Init => Bytes!Init
    <2> SUFFICES ASSUME Init PROVE Bytes!Init OBVIOUS
    <2>1. IInv BY InitStep
    <2>2. SubSeq(stream, 1, 0) = <<>> BY <2>1, NoByteYet DEF IInv
    <2>3. Settled = Fresh BY DEF Init, Settled
    <2>4. Bytes!Fresh = Fresh BY Zenon DEF Fresh, Bytes!Fresh
    <2>5. offset = 0 /\ at = 0 BY DEF Init
    <2> QED BY <2>2, <2>3, <2>4, <2>5 DEF Bytes!Init
  <1>2. IInv /\ [Next]_vars => [Bytes!Next]_Bytes!vars
    <2> SUFFICES ASSUME IInv, [Next]_vars PROVE [Bytes!Next]_Bytes!vars OBVIOUS
    <2>1. CASE Turn BY <2>1, TurnRefines
    <2>2. CASE Restart BY <2>2, RestartRefines, Zenon DEF Bytes!Next
    <2>3. CASE Incomplete BY <2>3, OtherRefines, Zenon DEF Incomplete
    <2>4. CASE CallAgain BY <2>4, OtherRefines, Zenon DEF CallAgain
    <2>5. ASSUME NEW n \in 1 .. READ_CHUNK, Read(n) PROVE [Bytes!Next]_Bytes!vars
      BY <2>5, OtherRefines, Zenon DEF Read
    <2>6. CASE UNCHANGED vars BY <2>6, OtherRefines, Zenon DEF vars
    <2> QED BY <2>1, <2>2, <2>3, <2>4, <2>5, <2>6, Zenon DEF Next
  <1> QED BY <1>1, <1>2, Invariance, PTL DEF Spec, ImplementsByteFeed,
             Bytes!Spec

-----------------------------------------------------------------------------
(* What the calls report. *)

(* More of the stream is what was taken and something after it. *)
LEMMA TakenMore ==
  ASSUME NEW s \in Seq(Byte), NEW a \in Nat, NEW b \in Nat, a <= b,
         NEW n \in b .. Len(s)
  PROVE  \E t \in Seq(Byte) : SubSeq(s, a + 1, n) = SubSeq(s, a + 1, b) \o t
  <1>1. SubSeq(s, b + 1, n) \in Seq(Byte) OBVIOUS
  <1>2. SubSeq(s, a + 1, n) = SubSeq(s, a + 1, b) \o SubSeq(s, b + 1, n) OBVIOUS
  <1> QED BY Zenon, <1>1, <1>2

(* ERROR is final for the parser fed byte by byte. *)
Lost ==
  Settled.state = "ERROR" =>
    \A t \in Seq(Byte) : ~Bytes!IsRequest(SubSeq(stream, offset + 1, at) \o t)

(* What holds of the parser fed byte by byte is what CallsAreRight says. *)
LEMMA ReportsAreRight ==
  ASSUME IInv, Bytes!CompleteIsRequest, Lost, Bytes!PersistsAsAsked
  PROVE  CallsAreRight
  <1> DEFINE Taken(n) == SubSeq(stream, offset + 1, n)
  <1>1. /\ call = "COMPLETE" <=> parser.state = "DONE"
        /\ call = "ERROR" <=> parser.state = "ERROR"
        /\ again => parser.state = "HEADER_VALUE"
    BY Zenon DEF IInv
  <1>2. /\ call = "COMPLETE" <=> Settled.state = "DONE"
        /\ call = "ERROR" <=> Settled.state = "ERROR"
        /\ call = "COMPLETE" => Settled = parser
    <2>1. CASE again
      <3>1. Settled = [parser EXCEPT !.state = "HEADER_VALUE_SP"]
        BY Zenon, <2>1 DEF Settled
      <3>2. parser \in Parser BY Zenon DEF IInv, Good
      <3>3. Settled.state = "HEADER_VALUE_SP" BY Zenon, <3>1, <3>2, LookAgain
      <3> QED BY <1>1, <2>1, <3>3
    <2>2. CASE ~again
      <3>1. Settled = parser BY Zenon, <2>2 DEF Settled
      <3> QED BY Zenon, <1>1, <3>1
    <2> QED BY Zenon, <2>1, <2>2
  <1>3. call = "COMPLETE" <=> Bytes!IsRequest(Taken(at))
    BY Zenon, <1>2 DEF Bytes!CompleteIsRequest
  <1>4. ASSUME call = "COMPLETE", ~Bytes!LaterByDefault(Taken(at))
        PROVE  http_parser_should_keep_alive(parser) <=> Bytes!Persists(Taken(at))
    <2>1. Bytes!http_parser_should_keep_alive(parser) = Bytes!Persists(Taken(at))
      BY Zenon, <1>2, <1>4 DEF Bytes!PersistsAsAsked
    <2> QED
      BY Zenon, <2>1
      DEF http_parser_should_keep_alive, Bytes!http_parser_should_keep_alive
  <1>5. ASSUME call = "ERROR", NEW n \in at .. Len(stream)
        PROVE  ~Bytes!IsRequest(Taken(n))
    <2>1. /\ stream \in Seq(Byte) /\ offset \in Nat /\ at \in Nat /\ offset <= at
      BY Zenon DEF IInv
    <2>2. PICK t \in Seq(Byte) : Taken(n) = Taken(at) \o t
      BY ZenonT(60), <1>5, <2>1, TakenMore
    <2>3. ~Bytes!IsRequest(Taken(at) \o t) BY Zenon, <1>2, <1>5 DEF Lost
    <2> QED BY Zenon, <2>2, <2>3
  <1> QED BY Zenon, <1>3, <1>4, <1>5 DEF CallsAreRight

(* The proofs about the parser fed byte by byte, first those on what its   *)
(* request asks for.                                                       *)
Answer == INSTANCE PersistenceProofs
            WITH done <- offset, fed <- SubSeq(stream, offset + 1, at),
                 parser <- Settled

(* Answer means by a byte what Bytes means by it. *)
LEMMA SameEatAnswer ==
  ASSUME NEW p, NEW c
  PROVE  Answer!Eat(p, c) = Bytes!Eat(p, c)
  <1>1. \A v, k, class : Answer!Past(v, k, class) = Past(v, k, class)
    BY ZenonT(60) DEF Past, Answer!Past
  <1>2. \A v, a, b : Answer!Trimmed(v, a, b) = Trimmed(v, a, b)
    BY ZenonT(60) DEF Trimmed, Answer!Trimmed
  <1>3. \A t : Answer!Meaning(t) = Meaning(t) BY ZenonT(60) DEF Meaning, Answer!Meaning
  <1>4. \A m, l : Answer!TokenWins(m, l) = TokenWins(m, l)
    BY ZenonT(60) DEF TokenWins, Answer!TokenWins
  <1>5. \A v : Answer!Scan(v) = Scan(v)
    BY ZenonT(60), <1>1, <1>2, <1>3, <1>4 DEF Scan, Answer!Scan
  <1>6. \A q : Answer!note_connection_header(q) = note_connection_header(q)
    BY ZenonT(60), <1>4, <1>5 DEF note_connection_header, Answer!note_connection_header
  <1>7. \A q : Answer!step(q, c) = step(q, c) /\ (Answer!Advances(q, c) <=> Advances(q, c))
    BY ZenonT(60), <1>6
    DEF step, Advances, in_method, in_path, in_version, at_line_start,
        in_header_name, in_value_sp, in_header_value, at_header_lf, Goto,
        Fail, Holds, MoreHeaders, classify_method, header_name_is,
        Answer!step, Answer!Advances, Answer!in_method, Answer!in_path,
        Answer!in_version, Answer!at_line_start, Answer!in_header_name,
        Answer!in_value_sp, Answer!in_header_value, Answer!at_header_lf,
        Answer!Goto, Answer!Fail, Answer!Holds, Answer!MoreHeaders,
        Answer!classify_method, Answer!header_name_is
  <1> QED BY ZenonT(60), <1>7, SameStep DEF Answer!Eat, Bytes!Eat

(* Answer is about the behaviours of Bytes. *)
LEMMA SameStepsAnswer ==
  /\ Bytes!Init => Answer!Init
  /\ [Bytes!Next]_Bytes!vars => [Answer!Next]_Answer!vars
  <1>1. Answer!Fresh = Bytes!Fresh BY ZenonT(60) DEF Answer!Fresh, Bytes!Fresh
  <1>2. Bytes!Init => Answer!Init BY ZenonT(60), <1>1 DEF Bytes!Init, Answer!Init
  <1>3. ASSUME NEW c, Bytes!Feed(c) PROVE Answer!Feed(c)
    BY ZenonT(60), <1>3, SameEatAnswer
    DEF Bytes!Feed, Answer!Feed, Bytes!Terminal, Answer!Terminal
  <1>4. ASSUME Bytes!Restart PROVE Answer!Restart
    BY ZenonT(60), <1>1, <1>4
    DEF Bytes!Restart, Answer!Restart,
        Bytes!http_parser_should_keep_alive, Answer!http_parser_should_keep_alive
  <1>5. Answer!vars = Bytes!vars /\ Answer!vars' = Bytes!vars'
    BY ZenonT(60) DEF Answer!vars, Bytes!vars
  <1> QED BY ZenonT(60), <1>2, <1>3, <1>4, <1>5 DEF Bytes!Next, Answer!Next

(* What the proof about Answer assumes of the constants. *)
LEMMA AssumedAnswer ==
  ASSUME Bytes!GrammarAssumption
  PROVE  /\ Answer!HttpParserAssumption /\ Answer!ByteFeedAssumption
         /\ Answer!GrammarAssumption
  <1>1. Answer!HttpParserAssumption
    BY ZenonT(60), HttpParserAssumption DEF Answer!MethodIds, MethodIds
  <1>2. Answer!ByteFeedAssumption BY ChunkFeedAssumption
  <1>3. Answer!Blank = Bytes!Blank BY ZenonT(60) DEF Answer!Blank, Bytes!Blank
  <1> QED BY ZenonT(60), <1>1, <1>2, <1>3

(* Answer means the same by what a request asks for. *)
LEMMA SamePersists == \A s : Answer!Persists(s) = Bytes!Persists(s)
  BY ZenonT(60)
  DEF Bytes!Persists, Bytes!KnownTokens, Bytes!ConnectionValues,
      Bytes!IsPiece, Bytes!VersionOf, Bytes!StartsLine, Bytes!IsLine,
      Bytes!All, Bytes!Blank, Answer!Persists, Answer!KnownTokens,
      Answer!ConnectionValues, Answer!IsPiece, Answer!VersionOf,
      Answer!StartsLine, Answer!IsLine, Answer!All, Answer!Blank

(* And by what it leaves to a later version. *)
LEMMA SameLater == \A s : Answer!LaterByDefault(s) = Bytes!LaterByDefault(s)
  BY ZenonT(60)
  DEF Bytes!LaterByDefault, Bytes!KnownTokens, Bytes!ConnectionValues,
      Bytes!IsPiece, Bytes!VersionOf, Bytes!StartsLine, Bytes!IsLine,
      Bytes!All, Bytes!Blank, Answer!LaterByDefault, Answer!KnownTokens,
      Answer!ConnectionValues, Answer!IsPiece, Answer!VersionOf,
      Answer!StartsLine, Answer!IsLine, Answer!All, Answer!Blank

(* The calls' parser answers as the requests ask. *)
LEMMA AnswersAreRight ==
  ASSUME Bytes!GrammarAssumption
  PROVE  Bytes!Spec => []Bytes!PersistsAsAsked
  <1>1. /\ Answer!HttpParserAssumption /\ Answer!ByteFeedAssumption
        /\ Answer!GrammarAssumption
    BY ZenonT(60), AssumedAnswer
  <1>2. Answer!Spec => []Answer!PersistsAsAsked
    BY <1>1, Answer!PersistsAsItAsks
  <1>3. /\ Bytes!Init => Answer!Init
        /\ [Bytes!Next]_Bytes!vars => [Answer!Next]_Answer!vars
    BY ZenonT(60), SameStepsAnswer
  <1>4. Answer!PersistsAsAsked => Bytes!PersistsAsAsked
    BY ZenonT(60), SamePersists, SameLater
    DEF Answer!PersistsAsAsked, Bytes!PersistsAsAsked,
        Answer!http_parser_should_keep_alive, Bytes!http_parser_should_keep_alive
  <1> QED BY <1>2, <1>3, <1>4, PTL DEF Bytes!Spec, Answer!Spec

(* Then those on which inputs are requests. *)
Language == INSTANCE GrammarProofs
              WITH done <- offset, fed <- SubSeq(stream, offset + 1, at),
                   parser <- Settled

(* Language means by a byte what Bytes means by it. *)
LEMMA SameEatLanguage ==
  ASSUME NEW p, NEW c
  PROVE  Language!Eat(p, c) = Bytes!Eat(p, c)
  <1>1. \A v, k, class : Language!Past(v, k, class) = Past(v, k, class)
    BY ZenonT(60) DEF Past, Language!Past
  <1>2. \A v, a, b : Language!Trimmed(v, a, b) = Trimmed(v, a, b)
    BY ZenonT(60) DEF Trimmed, Language!Trimmed
  <1>3. \A t : Language!Meaning(t) = Meaning(t)
    BY ZenonT(60) DEF Meaning, Language!Meaning
  <1>4. \A m, l : Language!TokenWins(m, l) = TokenWins(m, l)
    BY ZenonT(60) DEF TokenWins, Language!TokenWins
  <1>5. \A v : Language!Scan(v) = Scan(v)
    BY ZenonT(60), <1>1, <1>2, <1>3, <1>4 DEF Scan, Language!Scan
  <1>6. \A q : Language!note_connection_header(q) = note_connection_header(q)
    BY ZenonT(60), <1>4, <1>5 DEF note_connection_header, Language!note_connection_header
  <1>7. \A q : Language!step(q, c) = step(q, c) /\ (Language!Advances(q, c) <=> Advances(q, c))
    BY ZenonT(60), <1>6
    DEF step, Advances, in_method, in_path, in_version, at_line_start,
        in_header_name, in_value_sp, in_header_value, at_header_lf, Goto,
        Fail, Holds, MoreHeaders, classify_method, header_name_is,
        Language!step, Language!Advances, Language!in_method,
        Language!in_path, Language!in_version, Language!at_line_start,
        Language!in_header_name, Language!in_value_sp,
        Language!in_header_value, Language!at_header_lf, Language!Goto,
        Language!Fail, Language!Holds, Language!MoreHeaders,
        Language!classify_method, Language!header_name_is
  <1> QED BY ZenonT(60), <1>7, SameStep DEF Language!Eat, Bytes!Eat

(* Language is about the behaviours of Bytes. *)
LEMMA SameStepsLanguage ==
  /\ Bytes!Init => Language!Init
  /\ [Bytes!Next]_Bytes!vars => [Language!Next]_Language!vars
  <1>1. Language!Fresh = Bytes!Fresh BY ZenonT(60) DEF Language!Fresh, Bytes!Fresh
  <1>2. Bytes!Init => Language!Init BY ZenonT(60), <1>1 DEF Bytes!Init, Language!Init
  <1>3. ASSUME NEW c, Bytes!Feed(c) PROVE Language!Feed(c)
    BY ZenonT(60), <1>3, SameEatLanguage
    DEF Bytes!Feed, Language!Feed, Bytes!Terminal, Language!Terminal
  <1>4. ASSUME Bytes!Restart PROVE Language!Restart
    BY ZenonT(60), <1>1, <1>4
    DEF Bytes!Restart, Language!Restart,
        Bytes!http_parser_should_keep_alive, Language!http_parser_should_keep_alive
  <1>5. Language!vars = Bytes!vars /\ Language!vars' = Bytes!vars'
    BY ZenonT(60) DEF Language!vars, Bytes!vars
  <1> QED BY ZenonT(60), <1>2, <1>3, <1>4, <1>5 DEF Bytes!Next, Language!Next

(* What the proof about Language assumes of the constants. *)
LEMMA AssumedLanguage ==
  ASSUME Bytes!GrammarAssumption
  PROVE  /\ Language!HttpParserAssumption /\ Language!ByteFeedAssumption
         /\ Language!GrammarAssumption
  <1>1. Language!HttpParserAssumption
    BY ZenonT(60), HttpParserAssumption DEF Language!MethodIds, MethodIds
  <1>2. Language!ByteFeedAssumption BY ChunkFeedAssumption
  <1>3. Language!Blank = Bytes!Blank BY ZenonT(60) DEF Language!Blank, Bytes!Blank
  <1> QED BY ZenonT(60), <1>1, <1>2, <1>3

(* Language means the same by a request. *)
LEMMA SameRequests == \A s : Language!IsRequest(s) <=> Bytes!IsRequest(s)
  BY ZenonT(60)
  DEF Bytes!IsRequest, Bytes!Terminated, Bytes!Breaks, Bytes!StartsLine,
      Bytes!IsLine, Bytes!IsRequestLine, Bytes!IsHeader, Bytes!IsToken,
      Bytes!All, Bytes!Blank, Bytes!Cardinality, Language!IsRequest,
      Language!Terminated, Language!Breaks, Language!StartsLine,
      Language!IsLine, Language!IsRequestLine, Language!IsHeader,
      Language!IsToken, Language!All, Language!Blank, Language!Cardinality

(* The calls' parser is done with requests and gives up on nothing else. *)
LEMMA InputIsJudged ==
  ASSUME Bytes!GrammarAssumption
  PROVE  Bytes!Spec => []Bytes!CompleteIsRequest /\ []Lost
  <1>1. /\ Language!HttpParserAssumption /\ Language!ByteFeedAssumption
        /\ Language!GrammarAssumption
    BY ZenonT(60), AssumedLanguage
  <1>2. Language!Spec => []Language!CompleteIsRequest
    BY <1>1, Language!AcceptsExactlyRequests
  <1>3. Language!Spec => []Language!RejectsOnlyLost
    BY <1>1, Language!RejectionIsFinal
  <1>4. /\ Bytes!Init => Language!Init
        /\ [Bytes!Next]_Bytes!vars => [Language!Next]_Language!vars
    BY ZenonT(60), SameStepsLanguage
  <1>5. /\ Language!CompleteIsRequest => Bytes!CompleteIsRequest
        /\ Language!RejectsOnlyLost => Lost
    BY ZenonT(60), SameRequests
    DEF Language!CompleteIsRequest, Bytes!CompleteIsRequest,
        Language!RejectsOnlyLost, Lost
  <1> QED BY <1>2, <1>3, <1>4, <1>5, PTL DEF Bytes!Spec, Language!Spec

(* What http_parser_execute() reports is true of the stream: for every     *)
(* stream and every way to cut it into reads, each call that completes a   *)
(* request, gives one up or asks for more is right to do so.               *)
THEOREM ReportsAreTrue ==
  ASSUME Bytes!GrammarAssumption
  PROVE  Spec => []CallsAreRight
  <1>1. Bytes!Spec => []Bytes!CompleteIsRequest /\ []Lost
    BY InputIsJudged
  <1>2. Bytes!Spec => []Bytes!PersistsAsAsked BY AnswersAreRight
  <1>3. IInv /\ Bytes!CompleteIsRequest /\ Lost /\ Bytes!PersistsAsAsked
          => CallsAreRight
    BY ZenonT(60), ReportsAreRight
  <1> QED
    BY <1>1, <1>2, <1>3, Invariance, ChunksDoNotMatter, PTL DEF ImplementsByteFeed
=============================================================================
