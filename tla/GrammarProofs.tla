--------------------------- MODULE GrammarProofs ---------------------------
(***************************************************************************)
(* The parser accepts exactly the requests of RequestGrammar, for every    *)
(* alphabet, every limit and every input.                                  *)
(***************************************************************************)
EXTENDS RequestGrammar, TLAPS

(* The time, in seconds, that a step gives each prover. *)
USE SMTT(30), ZenonT(60)

(* r is s and what came after it. *)
Extends(r, s) ==
  /\ r \in Seq(Byte) /\ s \in Seq(Byte) /\ Len(s) <= Len(r)
  /\ \A i \in 1 .. Len(s) : r[i] = s[i]

(* r is s and one more byte. *)
OneMore(r, s, c) ==
  /\ Extends(r, s) /\ r \in Seq(Byte) /\ Len(s) \in Nat
  /\ Len(r) = Len(s) + 1 /\ r[Len(s) + 1] = c
  /\ \A i \in 1 .. Len(s) : r[i] = s[i]

(* Whatever comes after s, it is no request. *)
Hopeless(s) == \A r : Extends(r, s) => ~IsRequest(r)

MethodRead(s, x) ==
  x \in 1 .. Len(s) /\ s[x] = SP /\ IsToken(s, 1, x - 1, MethodChar, HTTP_METHOD_MAX)

PathRead(s, x, y) ==
  /\ y \in x + 1 .. Len(s) /\ s[y] = SP
  /\ IsToken(s, x + 1, y - 1, PathChar, HTTP_PATH_MAX)

(* Where the first h bytes of s end a line. *)
Broken(s, h) == {i \in 1 .. h : s[i] = LF}

(* The request line and n headers, with all that ends them, are the first  *)
(* h bytes of s.                                                           *)
HeadRead(s, h, n) ==
  /\ h \in 1 .. Len(s) /\ s[h] = LF
  /\ \A i \in 1 .. h : s[i] = LF <=> i > 1 /\ s[i - 1] = CR
  /\ Cardinality(Broken(s, h)) = n + 1
  /\ \A b \in 1 .. h : StartsLine(s, b) =>
       \E e \in b .. h - 2 :
         /\ IsLine(s, b, e)
         /\ IF b = 1 THEN IsRequestLine(s, b, e) ELSE IsHeader(s, b, e)

NameRead(s, h, k) ==
  /\ k \in h + 1 .. Len(s) /\ s[k] = Colon
  /\ IsToken(s, h + 1, k - 1, NameChar, HTTP_HEADER_LINE_MAX)

ValueRead(s, k, v) ==
  /\ v \in k + 1 .. Len(s) /\ All(s, k + 1, v - 1, Blank) /\ s[v] \notin Blank
  /\ All(s, v, Len(s), ValueChar)

(* What the parser knows of its input in each of its states. *)
AtMethod(s, p) ==
  /\ p.header_count = 0 /\ p.path = <<>> /\ p.version = <<>>
  /\ Len(p.method) = Len(s)
  /\ All(s, 1, Len(s), MethodChar) /\ Len(s) < HTTP_METHOD_MAX

AtPath(s, p) ==
  \E x \in Nat :
    /\ p.header_count = 0 /\ p.version = <<>>
    /\ MethodRead(s, x) /\ All(s, x + 1, Len(s), PathChar)
    /\ Len(p.path) = Len(s) - x /\ Len(s) - x < HTTP_PATH_MAX

AtVersion(s, p) ==
  \E x, y \in Nat :
    /\ p.header_count = 0 /\ MethodRead(s, x) /\ PathRead(s, x, y)
    /\ All(s, y + 1, Len(s), VersionChar)
    /\ p.version = SubSeq(s, y + 1, Len(s))

AtRequestLineLf(s, p) ==
  \E x, y \in Nat :
    /\ p.header_count = 0 /\ MethodRead(s, x) /\ PathRead(s, x, y)
    /\ y < Len(s) /\ s[Len(s)] = CR
    /\ All(s, y + 1, Len(s) - 1, VersionChar)
    /\ SubSeq(s, y + 1, Len(s) - 1) \in DOMAIN Versions

AtLineStart(s, p) ==
  HeadRead(s, Len(s), p.header_count) /\ p.header_count <= HTTP_MAX_HEADERS

AtName(s, p) ==
  \E h \in Nat :
    /\ HeadRead(s, h, p.header_count) /\ p.header_count < HTTP_MAX_HEADERS
    /\ h < Len(s) /\ All(s, h + 1, Len(s), NameChar)
    /\ Len(p.header_line) = Len(s) - h /\ Len(s) - h < HTTP_HEADER_LINE_MAX

AtValueSp(s, p) ==
  \E h, k \in Nat :
    /\ HeadRead(s, h, p.header_count) /\ p.header_count < HTTP_MAX_HEADERS
    /\ NameRead(s, h, k) /\ All(s, k + 1, Len(s), Blank)
    /\ Len(p.header_line) = k - h - 1

AtValue(s, p) ==
  \E h, k, v \in Nat :
    /\ HeadRead(s, h, p.header_count) /\ p.header_count < HTTP_MAX_HEADERS
    /\ NameRead(s, h, k) /\ ValueRead(s, k, v)
    /\ Len(p.header_line) = (k - h - 1) + (Len(s) - v + 1)
    /\ Len(p.header_line) < HTTP_HEADER_LINE_MAX

AtHeaderLf(s, p) ==
  \E h \in Nat :
    /\ HeadRead(s, h, p.header_count) /\ p.header_count < HTTP_MAX_HEADERS
    /\ h + 1 < Len(s) /\ s[Len(s)] = CR
    /\ \A i \in h + 1 .. Len(s) - 1 : s[i] \notin {CR, LF}
    /\ IsHeader(s, h + 1, Len(s) - 1)

AtHeadersEnd(s, p) ==
  /\ 1 < Len(s) /\ s[Len(s)] = CR
  /\ HeadRead(s, Len(s) - 1, p.header_count) /\ p.header_count <= HTTP_MAX_HEADERS

Shape(s, p) ==
  /\ p.state = "METHOD"            => AtMethod(s, p)
  /\ p.state = "PATH"              => AtPath(s, p)
  /\ p.state = "VERSION"           => AtVersion(s, p)
  /\ p.state = "REQUEST_LINE_LF"   => AtRequestLineLf(s, p)
  /\ p.state = "HEADER_LINE_START" => AtLineStart(s, p)
  /\ p.state = "HEADER_NAME"       => AtName(s, p)
  /\ p.state = "HEADER_VALUE_SP"   => AtValueSp(s, p)
  /\ p.state = "HEADER_VALUE"      => AtValue(s, p)
  /\ p.state = "HEADER_LF"         => AtHeaderLf(s, p)
  /\ p.state = "HEADERS_END_LF"    => AtHeadersEnd(s, p)
  /\ p.state = "DONE"              => IsRequest(s)
  /\ p.state = "ERROR"             => Hopeless(s)

Typed(p) ==
  /\ DOMAIN p = DOMAIN Fresh /\ p.state \in States
  /\ p.method \in Seq(Byte) /\ p.path \in Seq(Byte) /\ p.version \in Seq(Byte)
  /\ p.header_line \in Seq(Byte)
  /\ p.header_name_len \in Nat /\ p.header_count \in Nat

IInv == fed \in Seq(Byte) /\ Typed(parser) /\ Shape(fed, parser)

-----------------------------------------------------------------------------
(* Reading on changes nothing of what was read. *)

(* Every buffer of the parser has room for a byte and its terminator. *)
LEMMA Limits ==
  /\ HTTP_METHOD_MAX \in Nat /\ HTTP_PATH_MAX \in Nat /\ VERSION_MAX \in Nat
  /\ HTTP_HEADER_LINE_MAX \in Nat /\ HTTP_MAX_HEADERS \in Nat
  /\ HTTP_METHOD_MAX > 1 /\ HTTP_PATH_MAX > 1
  /\ HTTP_HEADER_LINE_MAX > 1
  BY HttpParserAssumption, GrammarAssumption

(* The bytes that end a token are none of its own, and no token has a CR   *)
(* or an LF in it.                                                         *)
LEMMA Classes ==
  /\ CR # LF /\ SP \notin {CR, LF, Colon} /\ HT \notin {CR, LF, Colon} /\ Colon \notin {CR, LF}
  /\ SP \notin MethodChar /\ SP \notin PathChar /\ SP \notin VersionChar
  /\ \A c \in MethodChar \cup PathChar \cup VersionChar \cup NameChar \cup ValueChar :
       c \in Byte /\ c # CR /\ c # LF
  /\ SP \notin NameChar /\ HT \notin NameChar /\ Colon \notin NameChar
  /\ SP \in ValueChar /\ HT \in ValueChar
  /\ {SP, HT, CR, LF, Colon, Comma} \subseteq Byte
  BY ZenonT(60), HttpParserAssumption, GrammarAssumption DEF Blank

(* One more byte. *)
LEMMA AppendIs ==
  ASSUME NEW s \in Seq(Byte), NEW c \in Byte
  PROVE  OneMore(Append(s, c), s, c)
  BY DEF Extends, OneMore

(* Concatenation is associative. *)
LEMMA JoinedOn ==
  ASSUME NEW r \in Seq(Byte), NEW s \in Seq(Byte), NEW t \in Seq(Byte)
  PROVE  r \o (s \o t) = (r \o s) \o t
  OBVIOUS

(* The two line breaks that end a request, in two parts. *)
LEMMA BreaksJoined ==
  ASSUME NEW a \in Byte, NEW b \in Byte
  PROVE  <<a, b, a, b>> \in Seq(Byte) /\ <<a, b, a, b>> = <<a>> \o <<b, a, b>>
  OBVIOUS

(* What extends what extends s extends s. *)
LEMMA ExtendsMore ==
  ASSUME NEW q, NEW r, NEW s, Extends(q, r), Extends(r, s)
  PROVE  Extends(q, s)
  BY DEF Extends

(* What extends s and one more byte has that byte after s. *)
LEMMA Beyond ==
  ASSUME NEW s, NEW c, NEW r, OneMore(r, s, c), NEW t, Extends(t, r)
  PROVE  /\ t \in Seq(Byte) /\ Extends(t, s) /\ Len(s) \in Nat /\ Len(t) \in Nat
         /\ Len(s) < Len(t) /\ t[Len(s) + 1] = c
         /\ \A i \in 1 .. Len(s) : t[i] = s[i]
  BY DEF Extends, OneMore

(* A run of bytes of one class stays one. *)
LEMMA AllKept ==
  ASSUME NEW s, NEW r, Extends(r, s), NEW class,
         NEW b \in Int, NEW e \in Int, 0 < b, e <= Len(s), All(s, b, e, class)
  PROVE  All(r, b, e, class)
  BY DEF Extends, All

(* A part of s is the same part of what extends it. *)
LEMMA PartKept ==
  ASSUME NEW s, NEW r, Extends(r, s),
         NEW m \in Nat, NEW n \in Nat, m > 0, n <= Len(s)
  PROVE  SubSeq(r, m, n) = SubSeq(s, m, n)
  BY DEF Extends

(* A part and the byte after it are the longer part. *)
LEMMA PartGrows ==
  ASSUME NEW r \in Seq(Byte), NEW m \in Nat, NEW n \in Nat,
         m > 0, m <= n + 1, n < Len(r)
  PROVE  SubSeq(r, m, n + 1) = Append(SubSeq(r, m, n), r[n + 1])
  OBVIOUS

(* The method that was read stays read. *)
LEMMA MethodKept ==
  ASSUME NEW s, NEW r, Extends(r, s), NEW x \in Nat, MethodRead(s, x)
  PROVE  MethodRead(r, x)
  BY DEF Extends, MethodRead, IsToken, All

(* The path that was read stays read. *)
LEMMA PathKept ==
  ASSUME NEW s, NEW r, Extends(r, s), NEW x \in Nat, NEW y \in Nat, PathRead(s, x, y)
  PROVE  PathRead(r, x, y)
  BY DEF Extends, PathRead, IsToken, All

(* The name of a header that was read stays read. *)
LEMMA NameKept ==
  ASSUME NEW s, NEW r, Extends(r, s), NEW h \in Nat, NEW k \in Nat, NameRead(s, h, k)
  PROVE  NameRead(r, h, k)
  BY DEF Extends, NameRead, IsToken, All

(* A line stays the line it was. *)
LEMMA LineKept ==
  ASSUME NEW s, NEW r, Extends(r, s),
         NEW b \in Nat, NEW e \in Nat, b > 0, b <= e, e < Len(s)
  PROVE  /\ StartsLine(s, b) <=> StartsLine(r, b)
         /\ IsLine(s, b, e) <=> IsLine(r, b, e)
         /\ IsRequestLine(s, b, e) => IsRequestLine(r, b, e)
         /\ IsHeader(s, b, e) => IsHeader(r, b, e)
  <1>0. \A i \in Int : 0 < i /\ i <= e + 1 => r[i] = s[i] BY DEF Extends
  <1>1. StartsLine(s, b) <=> StartsLine(r, b) BY DEF Extends, StartsLine
  <1>2. IsLine(s, b, e) <=> IsLine(r, b, e) BY SMTT(30), <1>1 DEF Extends, IsLine
  <1>3. IsRequestLine(s, b, e) => IsRequestLine(r, b, e)
    <2> SUFFICES ASSUME NEW x \in b .. e, NEW y \in b .. e,
                        s[x] = SP, IsToken(s, b, x - 1, MethodChar, HTTP_METHOD_MAX),
                        s[y] = SP, IsToken(s, x + 1, y - 1, PathChar, HTTP_PATH_MAX),
                        SubSeq(s, y + 1, e) \in DOMAIN Versions
                 PROVE  IsRequestLine(r, b, e)
      BY DEF IsRequestLine
    <2>1. SubSeq(r, y + 1, e) \in DOMAIN Versions
      <3>1. y + 1 \in Nat /\ y + 1 > 0 /\ e <= Len(s) BY DEF Extends
      <3>2. SubSeq(r, y + 1, e) = SubSeq(s, y + 1, e) BY SMTT(30), <3>1, PartKept
      <3> QED BY ZenonT(60), <3>2
    <2>2. r[x] = SP /\ r[y] = SP BY <1>0
    <2>3. /\ IsToken(r, b, x - 1, MethodChar, HTTP_METHOD_MAX)
          /\ IsToken(r, x + 1, y - 1, PathChar, HTTP_PATH_MAX)
      <3>1. /\ All(s, b, x - 1, MethodChar) /\ All(s, x + 1, y - 1, PathChar)
        BY Zenon DEF IsToken
      <3>2. x - 1 \in Int /\ y - 1 \in Int /\ x + 1 \in Int /\ 0 < x + 1 BY <1>0
      <3>3. x - 1 <= Len(s) /\ y - 1 <= Len(s) BY DEF Extends
      <3>4. All(r, b, x - 1, MethodChar) BY <3>1, <3>2, <3>3, AllKept
      <3>5. All(r, x + 1, y - 1, PathChar) BY <3>1, <3>2, <3>3, AllKept
      <3> QED BY Zenon, <3>4, <3>5 DEF IsToken
    <2> QED BY Zenon, <2>1, <2>2, <2>3 DEF IsRequestLine
  <1>4. IsHeader(s, b, e) => IsHeader(r, b, e)
    <2> SUFFICES ASSUME NEW k \in b .. e, NEW v \in k + 1 .. e + 1, s[k] = Colon,
                        IsToken(s, b, k - 1, NameChar, HTTP_HEADER_LINE_MAX),
                        All(s, k + 1, v - 1, Blank), v <= e => s[v] \notin Blank,
                        All(s, v, e, ValueChar),
                        (k - b) + (e - v + 1) < HTTP_HEADER_LINE_MAX
                 PROVE  IsHeader(r, b, e)
      BY DEF IsHeader
    <2>0. k \in Int /\ v \in Int /\ b <= k /\ k < v /\ k <= e /\ v <= e + 1 OBVIOUS
    <2>1. r[k] = s[k] /\ (v <= e => r[v] = s[v]) BY <2>0, <1>0
    <2>2. IsToken(r, b, k - 1, NameChar, HTTP_HEADER_LINE_MAX)
      BY <1>0 DEF IsToken, All
    <2>3. All(r, k + 1, v - 1, Blank) BY <2>0, AllKept
    <2>4. All(r, v, e, ValueChar) BY <2>0, AllKept
    <2> QED BY Zenon, <2>1, <2>2, <2>3, <2>4 DEF IsHeader
  <1> QED BY Zenon, <1>1, <1>2, <1>3, <1>4

(* The lines that were read stay read. *)
LEMMA HeadKept ==
  ASSUME NEW s, NEW r, Extends(r, s), NEW h \in Nat, NEW n, HeadRead(s, h, n)
  PROVE  HeadRead(r, h, n)
  <1>1. h \in 1 .. Len(r) /\ r[h] = LF BY DEF Extends, HeadRead
  <1>2. ASSUME NEW i \in 1 .. h
        PROVE  r[i] = LF <=> i > 1 /\ r[i - 1] = CR
    <2>1. r[i] = s[i] /\ (i > 1 => r[i - 1] = s[i - 1])
      BY DEF Extends, HeadRead
    <2> QED BY <2>1 DEF HeadRead
  <1>3. Broken(s, h) = Broken(r, h)
    BY DEF Extends, HeadRead, Broken
  <1>4. ASSUME NEW b \in 1 .. h, StartsLine(r, b)
        PROVE  \E e \in b .. h - 2 :
                 /\ IsLine(r, b, e)
                 /\ IF b = 1 THEN IsRequestLine(r, b, e) ELSE IsHeader(r, b, e)
    <2>1. StartsLine(s, b) BY <1>4 DEF Extends, HeadRead, StartsLine
    <2>2. PICK e \in b .. h - 2 :
            /\ IsLine(s, b, e)
            /\ IF b = 1 THEN IsRequestLine(s, b, e) ELSE IsHeader(s, b, e)
      BY <2>1 DEF HeadRead
    <2>3. e \in Nat /\ b > 0 /\ b <= e /\ e < Len(s) BY DEF HeadRead
    <2> QED BY <2>2, <2>3, LineKept
  <1> QED BY Zenon, <1>1, <1>2, <1>3, <1>4 DEF HeadRead

-----------------------------------------------------------------------------
(* The request line. *)

(* The state alone changes. *)
LEMMA GotoIs ==
  ASSUME NEW p, Typed(p), NEW t \in States
  PROVE  /\ Typed(Goto(p, t)) /\ Goto(p, t).state = t
         /\ Goto(p, t).header_count = p.header_count
         /\ Goto(p, t).header_line = p.header_line
         /\ Goto(p, t).header_name_len = p.header_name_len
         /\ Goto(p, t).path = p.path /\ Goto(p, t).version = p.version
  BY DEF Typed, Goto, Fresh

(* A rejected request. *)
LEMMA Rejected ==
  ASSUME NEW p, Typed(p), NEW r, Hopeless(r)
  PROVE  Typed(Fail(p)) /\ Shape(r, Fail(p))
  <1>1. Typed(Fail(p)) /\ Fail(p).state = "ERROR"
    BY DEF Typed, Fail, Fresh, States
  <1> QED BY Zenon, <1>1 DEF Shape

(* The first line of a request. *)
LEMMA FirstLine ==
  ASSUME NEW r \in Seq(Byte), IsRequest(r)
  PROVE  \E e, x, y \in Nat :
           /\ x < y /\ y <= e /\ e + 1 < Len(r)
           /\ r[e + 1] = CR /\ \A i \in 1 .. e : r[i] \notin {CR, LF}
           /\ MethodRead(r, x) /\ PathRead(r, x, y)
           /\ SubSeq(r, y + 1, e) \in DOMAIN Versions
  <1>1. Len(r) \in Nat /\ Len(r) > 2 BY DEF IsRequest
  <1>2. PICK e \in 1 .. Len(r) - 2 : IsLine(r, 1, e) /\ IsRequestLine(r, 1, e)
    BY <1>1 DEF IsRequest, StartsLine
  <1>3. PICK x \in 1 .. e, y \in 1 .. e :
          /\ r[x] = SP /\ IsToken(r, 1, x - 1, MethodChar, HTTP_METHOD_MAX)
          /\ r[y] = SP /\ IsToken(r, x + 1, y - 1, PathChar, HTTP_PATH_MAX)
          /\ SubSeq(r, y + 1, e) \in DOMAIN Versions
    BY Zenon, <1>2 DEF IsRequestLine
  <1>4. e \in Nat /\ x \in Nat /\ y \in Nat /\ x < y /\ y <= e /\ e + 1 < Len(r)
    BY <1>1, <1>3 DEF IsToken
  <1>5. MethodRead(r, x) BY <1>1, <1>3, <1>4 DEF MethodRead
  <1>6. PathRead(r, x, y) BY <1>1, <1>3, <1>4 DEF PathRead
  <1>7. r[e + 1] = CR /\ \A i \in 1 .. e : r[i] \notin {CR, LF}
    BY Zenon, <1>2 DEF IsLine
  <1> QED BY Zenon, <1>3, <1>4, <1>5, <1>6, <1>7

(* There is only one place for each of its spaces. *)
LEMMA SameSpaces ==
  ASSUME NEW r \in Seq(Byte), NEW x \in Nat, NEW z \in Nat,
         MethodRead(r, x), MethodRead(r, z)
  PROVE  /\ x = z
         /\ \A y, w \in Nat : PathRead(r, x, y) /\ PathRead(r, x, w) => y = w
  <1>1. x = z BY Classes DEF MethodRead, IsToken, All
  <1>2. ASSUME NEW y \in Nat, NEW w \in Nat, PathRead(r, x, y), PathRead(r, x, w)
        PROVE  y = w
    BY <1>2, Classes DEF PathRead, IsToken, All
  <1> QED BY <1>1, <1>2

(* HTTP_STATE_METHOD. *)
LEMMA MethodShape ==
  ASSUME NEW p, Typed(p), p.state = "METHOD", NEW s \in Seq(Byte), AtMethod(s, p),
         NEW c \in Byte, NEW r, OneMore(r, s, c)
  PROVE  Typed(in_method(p, c)) /\ Shape(r, in_method(p, c))
  <1> DEFINE ends == c = SP /\ p.method # <<>>
             puts == c \in MethodChar /\ Holds(p.method, HTTP_METHOD_MAX)
  <1>1. p.method \in Seq(Byte) /\ Len(p.method) = Len(s) /\ p.header_count = 0
    BY DEF Typed, AtMethod
  <1>2. CASE ends
    <2>1. PICK q : q = [p EXCEPT !.method_id = classify_method(p.method), !.state = "PATH"]
      OBVIOUS
    <2>2. in_method(p, c) = q BY <1>2, <2>1, Classes DEF in_method
    <2>3. /\ Typed(q) /\ q.state = "PATH" /\ q.path = p.path
          /\ q.header_count = 0 /\ q.version = p.version
      BY <1>1, <2>1 DEF Typed, Fresh, States
    <2>4. MethodRead(r, Len(r))
      BY <1>1, <1>2 DEF OneMore, MethodRead, IsToken, All, AtMethod
    <2>5. All(r, Len(r) + 1, Len(r), PathChar) BY DEF OneMore, All
    <2>6. Len(r) \in Nat /\ Len(q.path) = Len(r) - Len(r) /\ Len(r) - Len(r) < HTTP_PATH_MAX
      BY <2>3, Limits DEF OneMore, AtMethod
    <2>7. AtPath(r, q) BY Zenon, <2>3, <2>4, <2>5, <2>6 DEF AtPath, AtMethod
    <2> QED BY Zenon, <2>2, <2>3, <2>7 DEF Shape
  <1>3. CASE puts
    <2>1. PICK q : q = [p EXCEPT !.method = Append(@, c)] BY ZenonT(60)
    <2>2. in_method(p, c) = q BY <1>3, <2>1, Classes DEF in_method
    <2>3. /\ Typed(q) /\ q.state = "METHOD" /\ q.method = Append(p.method, c)
          /\ q.header_count = 0 /\ q.path = p.path /\ q.version = p.version
      BY <1>1, <2>1 DEF Typed, Fresh
    <2>4. Len(q.method) = Len(r) /\ Len(r) < HTTP_METHOD_MAX
      BY <1>1, <1>3, <2>3, Limits DEF OneMore, Holds
    <2>5. All(r, 1, Len(r), MethodChar)
      BY <1>3 DEF OneMore, All, AtMethod
    <2>6. AtMethod(r, q) BY Zenon, <2>3, <2>4, <2>5 DEF AtMethod
    <2> QED BY Zenon, <2>2, <2>3, <2>6 DEF Shape
  <1>4. CASE ~ends /\ ~puts
    <2>1. in_method(p, c) = Fail(p) BY <1>4 DEF in_method
    <2>2. ASSUME NEW t, Extends(t, r), IsRequest(t) PROVE FALSE
      <3>1. t \in Seq(Byte) BY <2>2 DEF Extends
      <3>2. PICK x \in Nat : MethodRead(t, x) BY <2>2, <3>1, FirstLine
      <3>3. t[Len(s) + 1] = c /\ \A i \in 1 .. Len(s) : t[i] \in MethodChar
        BY <2>2 DEF OneMore, Extends, AtMethod, All
      <3>4. x > Len(s) BY <3>2, <3>3, Classes DEF MethodRead, OneMore
      <3>5. CASE x = Len(s) + 1
        BY <1>1, <1>4, <3>2, <3>3, <3>5 DEF MethodRead, IsToken
      <3>6. CASE x > Len(s) + 1
        BY <1>1, <1>4, <3>2, <3>3, <3>6, Limits
           DEF OneMore, MethodRead, IsToken, All, Holds
      <3> QED BY <3>4, <3>5, <3>6 DEF OneMore
    <2> QED BY Zenon, <2>1, <2>2, Rejected DEF Hopeless
  <1> QED BY Zenon, <1>2, <1>3, <1>4

(* HTTP_STATE_PATH. *)
LEMMA PathShape ==
  ASSUME NEW p, Typed(p), p.state = "PATH", NEW s \in Seq(Byte), AtPath(s, p),
         NEW c \in Byte, NEW r, OneMore(r, s, c)
  PROVE  Typed(in_path(p, c)) /\ Shape(r, in_path(p, c))
  <1> DEFINE ends == c = SP /\ p.path # <<>>
             puts == c \in PathChar /\ Holds(p.path, HTTP_PATH_MAX)
  <1>1. PICK x \in Nat :
          /\ p.header_count = 0 /\ p.version = <<>>
          /\ MethodRead(s, x) /\ All(s, x + 1, Len(s), PathChar)
          /\ Len(p.path) = Len(s) - x /\ Len(s) - x < HTTP_PATH_MAX
    BY Zenon DEF AtPath
  <1>2. /\ p.path \in Seq(Byte) /\ (p.path # <<>> => Len(p.path) > 0)
        /\ x <= Len(s) /\ Len(s) \in Nat
    BY <1>1 DEF Typed, MethodRead
  <1>3. MethodRead(r, x) BY <1>1, MethodKept DEF OneMore
  <1>4. CASE ends
    <2>1. PICK q : q = Goto(p, "VERSION") OBVIOUS
    <2>2. in_path(p, c) = q BY <1>4, <2>1, Classes DEF in_path
    <2>3. /\ Typed(q) /\ q.state = "VERSION"
          /\ q.header_count = 0 /\ q.version = <<>>
      BY <1>1, <2>1, GotoIs DEF States
    <2>4. x < Len(s) BY <1>1, <1>2, <1>4
    <2>5. PathRead(r, x, Len(r))
      BY <1>1, <1>2, <1>4, <2>4 DEF OneMore, PathRead, IsToken, All
    <2>6. /\ Len(r) \in Nat /\ All(r, Len(r) + 1, Len(r), VersionChar)
          /\ SubSeq(r, Len(r) + 1, Len(r)) = <<>>
      BY DEF OneMore, All
    <2>7. AtVersion(r, q) BY Zenon, <1>3, <2>3, <2>5, <2>6 DEF AtVersion
    <2> QED BY Zenon, <2>2, <2>3, <2>7 DEF Shape
  <1>5. CASE puts
    <2>1. PICK q : q = [p EXCEPT !.path = Append(@, c)] BY ZenonT(60)
    <2>2. in_path(p, c) = q BY <1>5, <2>1, Classes DEF in_path
    <2>3. /\ Typed(q) /\ q.state = "PATH" /\ q.path = Append(p.path, c)
          /\ q.header_count = p.header_count /\ q.version = p.version
      BY <1>2, <2>1 DEF Typed, Fresh
    <2>4. Len(q.path) = Len(r) - x /\ Len(r) - x < HTTP_PATH_MAX
      BY <1>1, <1>2, <1>5, <2>3, Limits DEF OneMore, Holds
    <2>5. All(r, x + 1, Len(r), PathChar)
      BY <1>1, <1>5 DEF OneMore, All
    <2>6. AtPath(r, q) BY Zenon, <1>1, <1>3, <2>3, <2>4, <2>5 DEF AtPath
    <2> QED BY Zenon, <2>2, <2>3, <2>6 DEF Shape
  <1>6. CASE ~ends /\ ~puts
    <2>1. in_path(p, c) = Fail(p) BY <1>6 DEF in_path
    <2>2. ASSUME NEW t, Extends(t, r), IsRequest(t) PROVE FALSE
      <3>1. t \in Seq(Byte) BY <2>2 DEF Extends
      <3>2. MethodRead(t, x) BY <2>2, <1>3, MethodKept
      <3>3. PICK y \in Nat : PathRead(t, x, y)
        BY <2>2, <3>1, <3>2, FirstLine, SameSpaces
      <3>4. t[Len(s) + 1] = c /\ \A i \in x + 1 .. Len(s) : t[i] \in PathChar
        <4>1. t[Len(s) + 1] = c /\ Extends(t, s) BY <2>2, Beyond
        <4>2. All(t, x + 1, Len(s), PathChar) BY <1>1, <1>2, <4>1, AllKept
        <4> QED BY Zenon, <4>1, <4>2 DEF All
      <3>5. y > Len(s) BY <1>2, <3>3, <3>4, Classes DEF PathRead
      <3>6. CASE y = Len(s) + 1
        BY <1>1, <1>2, <1>6, <3>3, <3>4, <3>6 DEF PathRead, IsToken
      <3>7. CASE y > Len(s) + 1
        BY <1>1, <1>2, <1>6, <3>3, <3>4, <3>7, Limits DEF PathRead, IsToken, All, Holds
      <3> QED BY <1>2, <3>5, <3>6, <3>7
    <2> QED BY Zenon, <2>1, <2>2, Rejected DEF Hopeless
  <1> QED BY Zenon, <1>4, <1>5, <1>6

(* HTTP_STATE_VERSION. *)
LEMMA VersionShape ==
  ASSUME NEW p, Typed(p), p.state = "VERSION", NEW s \in Seq(Byte), AtVersion(s, p),
         NEW c \in Byte, NEW r, OneMore(r, s, c)
  PROVE  Typed(in_version(p, c)) /\ Shape(r, in_version(p, c))
  <1> DEFINE ends == c = CR /\ p.version \in DOMAIN Versions
             puts == c \in VersionChar /\ Holds(p.version, VERSION_MAX)
  <1>1. PICK x \in Nat, y \in Nat :
          /\ p.header_count = 0 /\ MethodRead(s, x) /\ PathRead(s, x, y)
          /\ All(s, y + 1, Len(s), VersionChar)
          /\ p.version = SubSeq(s, y + 1, Len(s))
    BY Zenon DEF AtVersion
  <1>2. y <= Len(s) /\ Len(s) \in Nat /\ Len(p.version) = Len(s) - y
    BY <1>1 DEF PathRead
  <1>3. MethodRead(r, x) /\ PathRead(r, x, y)
    BY <1>1, MethodKept, PathKept DEF OneMore
  <1>4. SubSeq(r, y + 1, Len(s)) = p.version
    BY <1>1, <1>2, PartKept DEF OneMore
  <1>5. CASE ends
    <2>1. PICK q : q = [p EXCEPT !.http = Versions[p.version],
                                 !.state = "REQUEST_LINE_LF"] OBVIOUS
    <2>2. in_version(p, c) = q BY <1>5, <2>1, Classes DEF in_version
    <2>3. Typed(q) /\ q.state = "REQUEST_LINE_LF" /\ q.header_count = 0
      BY ZenonT(60), <1>1, <2>1 DEF Typed, Fresh, States
    <2>4. /\ y < Len(r) /\ r[Len(r)] = CR
          /\ All(r, y + 1, Len(r) - 1, VersionChar)
      BY <1>1, <1>2, <1>5 DEF OneMore, All
    <2>5. SubSeq(r, y + 1, Len(r) - 1) \in DOMAIN Versions
      <3>1. Len(r) - 1 = Len(s) BY DEF OneMore
      <3> QED BY ZenonT(60), <3>1, <1>4, <1>5
    <2>6. AtRequestLineLf(r, q)
      BY Zenon, <1>3, <2>3, <2>4, <2>5 DEF AtRequestLineLf
    <2> QED BY Zenon, <2>2, <2>3, <2>6 DEF Shape
  <1>6. CASE puts
    <2>1. PICK q : q = [p EXCEPT !.version = Append(@, c)] BY ZenonT(60)
    <2>2. in_version(p, c) = q BY <1>6, <2>1, Classes DEF in_version
    <2>3. /\ Typed(q) /\ q.state = "VERSION" /\ q.version = Append(p.version, c)
          /\ q.header_count = 0
      BY SMTT(30), <1>1, <2>1 DEF Typed, Fresh
    <2>4. All(r, y + 1, Len(r), VersionChar)
      BY <1>1, <1>6 DEF OneMore, All
    <2>5. q.version = SubSeq(r, y + 1, Len(r))
      <3>1. SubSeq(r, y + 1, Len(s) + 1) = Append(SubSeq(r, y + 1, Len(s)), r[Len(s) + 1])
        <4>1. /\ r \in Seq(Byte) /\ y + 1 \in Nat /\ y + 1 > 0 /\ Len(s) \in Nat
              /\ y + 1 <= Len(s) + 1 /\ Len(s) < Len(r)
          BY <1>2 DEF OneMore
        <4> QED BY ZenonT(60), <4>1, PartGrows
      <3> QED BY Zenon, <3>1, <1>4, <2>3 DEF OneMore
    <2>6. AtVersion(r, q) BY Zenon, <1>3, <2>3, <2>4, <2>5 DEF AtVersion
    <2> QED BY Zenon, <2>2, <2>3, <2>6 DEF Shape
  <1>7. CASE ~ends /\ ~puts
    <2>1. in_version(p, c) = Fail(p) BY <1>7 DEF in_version
    <2>2. ASSUME NEW t, Extends(t, r), IsRequest(t) PROVE FALSE
      <3>1. t \in Seq(Byte) /\ Extends(t, s)
        BY <2>2, ExtendsMore DEF OneMore, Extends
      <3>2. MethodRead(t, x) /\ PathRead(t, x, y)
        BY <2>2, <1>3, MethodKept, PathKept
      <3>3. PICK e \in Nat :
              /\ y <= e /\ e + 1 < Len(t) /\ t[e + 1] = CR
              /\ SubSeq(t, y + 1, e) \in DOMAIN Versions
        BY SMTT(30), <2>2, <3>1, <3>2, FirstLine, SameSpaces
      <3>4. t[Len(s) + 1] = c /\ \A i \in y + 1 .. Len(s) : t[i] \in VersionChar
        <4>1. t[Len(s) + 1] = c BY <2>2, Beyond
        <4>2. All(t, y + 1, Len(s), VersionChar) BY <1>1, <1>2, <3>1, AllKept
        <4> QED BY Zenon, <4>1, <4>2 DEF All
      <3>5. e >= Len(s) BY <1>2, <3>3, <3>4, Classes
      <3>6. CASE e = Len(s)
        <4>1. SubSeq(t, y + 1, e) = p.version
          <5>1. SubSeq(t, y + 1, Len(s)) = SubSeq(s, y + 1, Len(s))
            BY <1>2, <3>1, PartKept
          <5> QED BY Zenon, <1>1, <3>6, <5>1
        <4> QED BY ZenonT(60), <1>7, <3>3, <3>4, <3>6, <4>1
      <3>7. CASE e > Len(s)
        <4>1. PICK w : w = SubSeq(t, y + 1, e) BY ZenonT(60)
        <4>2. w \in Seq(VersionChar) /\ Len(w) < VERSION_MAX
          BY ZenonT(60), <3>3, <4>1, GrammarAssumption
        <4>3. Len(w) = e - y /\ w[Len(s) + 1 - y] = c
          BY <1>2, <3>1, <3>3, <3>4, <3>7, <4>1
        <4>4. c \in VersionChar BY <1>2, <3>7, <4>2, <4>3
        <4> QED BY <1>2, <1>7, <3>7, <4>2, <4>3, <4>4, Limits DEF Holds
      <3> QED BY <1>2, <3>5, <3>6, <3>7
    <2> QED BY Zenon, <2>1, <2>2, Rejected DEF Hopeless
  <1> QED BY Zenon, <1>5, <1>6, <1>7

-----------------------------------------------------------------------------
(* A header. *)

(* A line of a request after the first, if it does not begin with CR. *)
LEMMA HeaderLine ==
  ASSUME NEW t \in Seq(Byte), IsRequest(t),
         NEW h \in Nat, 0 < h, h < Len(t), t[h] = LF, t[h + 1] # CR
  PROVE  \E e, k, v \in Nat :
           /\ k <= e /\ k < v /\ v <= e + 1 /\ e + 1 < Len(t) /\ t[e + 1] = CR
           /\ \A i \in h + 1 .. e : t[i] \notin {CR, LF}
           /\ NameRead(t, h, k) /\ All(t, k + 1, v - 1, Blank)
           /\ v <= e => t[v] \notin Blank
           /\ All(t, v, e, ValueChar)
           /\ (k - h - 1) + (e - v + 1) < HTTP_HEADER_LINE_MAX
  <1>1. /\ Len(t) \in Nat /\ Len(t) > 2 /\ t[Len(t)] = LF
        /\ \A i \in 1 .. Len(t) : t[i] = LF <=> i > 1 /\ t[i - 1] = CR
    BY DEF IsRequest, Terminated
  <1>2. h + 1 # Len(t) BY <1>1, Classes
  <1>3. h + 1 # Len(t) - 1 BY <1>1
  <1>4. h + 1 \in 1 .. Len(t) - 2 /\ StartsLine(t, h + 1) /\ h + 1 # 1
    BY <1>1, <1>2, <1>3 DEF StartsLine
  <1>5. PICK e \in h + 1 .. Len(t) - 2 : IsLine(t, h + 1, e) /\ IsHeader(t, h + 1, e)
    BY Zenon, <1>4 DEF IsRequest
  <1>6. PICK k \in h + 1 .. e : \E v \in k + 1 .. e + 1 :
          /\ t[k] = Colon /\ IsToken(t, h + 1, k - 1, NameChar, HTTP_HEADER_LINE_MAX)
          /\ All(t, k + 1, v - 1, Blank) /\ (v <= e => t[v] \notin Blank)
          /\ All(t, v, e, ValueChar)
          /\ (k - (h + 1)) + (e - v + 1) < HTTP_HEADER_LINE_MAX
    BY Zenon, <1>5 DEF IsHeader
  <1>7. PICK v \in k + 1 .. e + 1 :
          /\ t[k] = Colon /\ IsToken(t, h + 1, k - 1, NameChar, HTTP_HEADER_LINE_MAX)
          /\ All(t, k + 1, v - 1, Blank) /\ (v <= e => t[v] \notin Blank)
          /\ All(t, v, e, ValueChar)
          /\ (k - (h + 1)) + (e - v + 1) < HTTP_HEADER_LINE_MAX
    BY Zenon, <1>6
  <1>8. /\ e \in Nat /\ k \in Nat /\ v \in Nat
        /\ k <= e /\ k < v /\ v <= e + 1 /\ e + 1 < Len(t)
    BY <1>1
  <1>9. NameRead(t, h, k) BY <1>1, <1>7, <1>8 DEF NameRead
  <1>10. t[e + 1] = CR /\ \A i \in h + 1 .. e : t[i] \notin {CR, LF}
    BY Zenon, <1>5 DEF IsLine
  <1>11. (k - h - 1) + (e - v + 1) < HTTP_HEADER_LINE_MAX
    BY <1>7, <1>8, Limits
  <1> QED BY Zenon, <1>7, <1>8, <1>9, <1>10, <1>11

(* There is only one place for its colon. *)
LEMMA SameColon ==
  ASSUME NEW t \in Seq(Byte), NEW h \in Nat, NEW k \in Nat, NEW l \in Nat,
         NameRead(t, h, k), NameRead(t, h, l)
  PROVE  k = l
  BY Classes DEF NameRead, IsToken, All

(* HTTP_STATE_HEADER_NAME. *)
LEMMA NameShape ==
  ASSUME NEW p, Typed(p), p.state = "HEADER_NAME", NEW s \in Seq(Byte), AtName(s, p),
         NEW c \in Byte, NEW r, OneMore(r, s, c)
  PROVE  Typed(in_header_name(p, c)) /\ Shape(r, in_header_name(p, c))
  <1> DEFINE ends == c = Colon
             puts == c \in NameChar /\ Holds(p.header_line, HTTP_HEADER_LINE_MAX)
  <1>1. PICK h \in Nat :
          /\ HeadRead(s, h, p.header_count) /\ p.header_count < HTTP_MAX_HEADERS
          /\ h < Len(s) /\ All(s, h + 1, Len(s), NameChar)
          /\ Len(p.header_line) = Len(s) - h /\ Len(s) - h < HTTP_HEADER_LINE_MAX
    BY ZenonT(60) DEF AtName
  <1>2. /\ p.header_line \in Seq(Byte) /\ Len(p.header_line) \in Nat
        /\ Len(s) \in Nat /\ 0 < h /\ s[h] = LF
    BY <1>1 DEF Typed, HeadRead
  <1>3. HeadRead(r, h, p.header_count) BY <1>1, HeadKept DEF OneMore
  <1>4. CASE ends
    <2>1. PICK q : q = [p EXCEPT !.header_name_len = Len(p.header_line),
                                 !.state = "HEADER_VALUE_SP"] OBVIOUS
    <2>2. in_header_name(p, c) = q BY <1>4, <2>1, Classes DEF in_header_name
    <2>3. /\ Typed(q) /\ q.state = "HEADER_VALUE_SP"
          /\ q.header_count = p.header_count /\ q.header_line = p.header_line
      BY <1>2, <2>1 DEF Typed, Fresh, States
    <2>4. NameRead(r, h, Len(r))
      BY <1>1, <1>2, <1>4 DEF OneMore, NameRead, IsToken, All
    <2>5. /\ Len(r) \in Nat /\ Len(q.header_line) = Len(r) - h - 1
          /\ All(r, Len(r) + 1, Len(r), Blank)
      BY <1>1, <1>2, <2>3 DEF OneMore, All
    <2>6. AtValueSp(r, q) BY Zenon, <1>1, <1>3, <2>3, <2>4, <2>5 DEF AtValueSp
    <2> QED BY Zenon, <2>2, <2>3, <2>6 DEF Shape
  <1>5. CASE puts
    <2>1. PICK q : q = [p EXCEPT !.header_line = Append(@, c)] BY ZenonT(60)
    <2>2. in_header_name(p, c) = q BY <1>5, <2>1, Classes DEF in_header_name
    <2>3. /\ Typed(q) /\ q.state = "HEADER_NAME" /\ q.header_count = p.header_count
          /\ q.header_line = Append(p.header_line, c)
      BY <1>2, <2>1 DEF Typed, Fresh
    <2>4. /\ h < Len(r) /\ Len(q.header_line) = Len(r) - h
          /\ Len(r) - h < HTTP_HEADER_LINE_MAX
      <3>1. Len(r) = Len(s) + 1 BY DEF OneMore
      <3>2. Len(p.header_line) + 1 < HTTP_HEADER_LINE_MAX BY <1>2, <1>5, Limits DEF Holds
      <3>3. Len(q.header_line) = Len(p.header_line) + 1 BY <1>2, <2>3
      <3> QED BY <1>1, <1>2, <3>1, <3>2, <3>3, Limits
    <2>5. All(r, h + 1, Len(r), NameChar) BY <1>1, <1>5 DEF OneMore, All
    <2>6. AtName(r, q) BY Zenon, <1>1, <1>3, <2>3, <2>4, <2>5 DEF AtName
    <2> QED BY Zenon, <2>2, <2>3, <2>6 DEF Shape
  <1>6. CASE ~ends /\ ~puts
    <2>1. in_header_name(p, c) = Fail(p) BY <1>6 DEF in_header_name
    <2>2. ASSUME NEW t, Extends(t, r), IsRequest(t) PROVE FALSE
      <3>1. /\ t \in Seq(Byte) /\ Extends(t, s) /\ Len(s) < Len(t) /\ Len(t) \in Nat
            /\ t[Len(s) + 1] = c /\ \A i \in 1 .. Len(s) : t[i] = s[i]
        BY <2>2, Beyond
      <3>2. \A i \in h + 1 .. Len(s) : t[i] \in NameChar
        <4>1. All(t, h + 1, Len(s), NameChar) BY <1>1, <1>2, <3>1, AllKept
        <4> QED BY Zenon, <4>1 DEF All
      <3>3. h < Len(t) /\ t[h] = LF /\ t[h + 1] # CR
        BY <1>1, <1>2, <3>1, <3>2, Classes
      <3>4. PICK k \in Nat : NameRead(t, h, k)
        BY ZenonT(60), <1>2, <2>2, <3>1, <3>3, HeaderLine
      <3>5. k > Len(s) BY <1>2, <3>2, <3>4, Classes DEF NameRead
      <3>6. CASE k = Len(s) + 1 BY <1>6, <3>1, <3>4, <3>6 DEF NameRead
      <3>7. CASE k > Len(s) + 1
        BY <1>1, <1>2, <1>6, <3>1, <3>4, <3>7, Limits DEF NameRead, IsToken, All, Holds
      <3> QED BY <1>2, <3>5, <3>6, <3>7
    <2> QED BY Zenon, <2>1, <2>2, Rejected DEF Hopeless
  <1> QED BY Zenon, <1>4, <1>5, <1>6

(* HTTP_STATE_HEADER_VALUE_SP: the blanks before a value. *)
LEMMA BlankShape ==
  ASSUME NEW p, Typed(p), p.state = "HEADER_VALUE_SP", NEW s \in Seq(Byte),
         AtValueSp(s, p), NEW c \in Blank, NEW r, OneMore(r, s, c)
  PROVE  Shape(r, p)
  <1>1. PICK h \in Nat, k \in Nat :
          /\ HeadRead(s, h, p.header_count) /\ p.header_count < HTTP_MAX_HEADERS
          /\ NameRead(s, h, k) /\ All(s, k + 1, Len(s), Blank)
          /\ Len(p.header_line) = k - h - 1
    BY Zenon DEF AtValueSp
  <1>2. HeadRead(r, h, p.header_count) BY <1>1, HeadKept DEF OneMore
  <1>3. NameRead(r, h, k) BY <1>1, NameKept DEF OneMore
  <1>4. All(r, k + 1, Len(r), Blank) BY <1>1 DEF OneMore, All
  <1>5. AtValueSp(r, p) BY Zenon, <1>1, <1>2, <1>3, <1>4 DEF AtValueSp
  <1> QED BY Zenon, <1>5 DEF Shape

(* The name of a header, its colon at k, and the value from v on, which    *)
(* has begun or is about to.                                               *)
InValue(s, p, h, k, v) ==
  /\ HeadRead(s, h, p.header_count) /\ p.header_count < HTTP_MAX_HEADERS
  /\ NameRead(s, h, k) /\ k < v /\ v <= Len(s) + 1 /\ All(s, k + 1, v - 1, Blank)
  /\ v <= Len(s) => s[v] \notin Blank
  /\ All(s, v, Len(s), ValueChar)
  /\ Len(p.header_line) = (k - h - 1) + (Len(s) - v + 1)
  /\ Len(p.header_line) < HTTP_HEADER_LINE_MAX

(* HTTP_STATE_HEADER_VALUE, the first byte of the value or a later one: c  *)
(* is the first when v is one past the end of s.                           *)
LEMMA ValueShape ==
  ASSUME NEW p, Typed(p), p.state = "HEADER_VALUE", NEW s \in Seq(Byte),
         NEW h \in Nat, NEW k \in Nat, NEW v \in Nat,
         InValue(s, p, h, k, v), NEW c \in Byte, v = Len(s) + 1 => c \notin Blank,
         NEW r, OneMore(r, s, c)
  PROVE  Typed(in_header_value(p, c)) /\ Shape(r, in_header_value(p, c))
  <1> DEFINE ends == c = CR
             puts == c \in ValueChar /\ Holds(p.header_line, HTTP_HEADER_LINE_MAX)
  <1>1. /\ p.header_line \in Seq(Byte) /\ Len(p.header_line) \in Nat
        /\ Len(s) \in Nat /\ 0 < h /\ s[h] = LF
        /\ h < k /\ k <= Len(s) /\ k # h + 1 /\ s[k] = Colon
    <2>1. p.header_line \in Seq(Byte) /\ Len(p.header_line) \in Nat BY DEF Typed
    <2>2. h \in 1 .. Len(s) /\ s[h] = LF BY Zenon DEF InValue, HeadRead
    <2>3. k \in h + 1 .. Len(s) /\ s[k] = Colon /\ h + 1 <= k - 1
      BY Zenon DEF InValue, NameRead, IsToken
    <2> QED BY <2>1, <2>2, <2>3
  <1>2. HeadRead(r, h, p.header_count) /\ p.header_count < HTTP_MAX_HEADERS
    BY Zenon, HeadKept DEF InValue, OneMore
  <1>3. NameRead(r, h, k) BY Zenon, NameKept DEF InValue, OneMore
  <1>0. /\ k < v /\ v <= Len(s) + 1 /\ Len(p.header_line) < HTTP_HEADER_LINE_MAX
        /\ Len(p.header_line) = (k - h - 1) + (Len(s) - v + 1)
    BY Zenon DEF InValue
  <1>4. /\ Len(r) = Len(s) + 1 /\ r[Len(s) + 1] = c
        /\ \A i \in 1 .. Len(s) : r[i] = s[i]
    BY Zenon DEF OneMore
  <1>5. ASSUME NEW i \in h + 1 .. Len(s)
        PROVE  s[i] \notin {CR, LF}
    <2>0. /\ All(s, h + 1, k - 1, NameChar) /\ All(s, k + 1, v - 1, Blank)
          /\ All(s, v, Len(s), ValueChar)
      BY Zenon DEF InValue, NameRead, IsToken
    <2>1. CASE i < k BY <1>1, <2>0, <2>1, Classes DEF All
    <2>2. CASE i = k BY <1>1, <2>2, Classes
    <2>3. CASE k < i /\ i < v BY <1>1, <2>0, <2>3, Classes DEF All, Blank
    <2>4. CASE v <= i BY <1>1, <2>0, <2>4, Classes DEF All
    <2> QED BY <1>1, <1>0, <2>1, <2>2, <2>3, <2>4
  <1>6. /\ All(r, k + 1, v - 1, Blank)
        /\ v <= Len(s) => r[v] \notin Blank
        /\ All(r, v, Len(s), ValueChar)
    <2>1. Extends(r, s) BY DEF OneMore
    <2>2. k + 1 \in Int /\ 0 < k + 1 /\ v - 1 \in Int /\ v - 1 <= Len(s) /\ 0 < v
      BY <1>0, <1>1
    <2>0. /\ All(s, k + 1, v - 1, Blank) /\ All(s, v, Len(s), ValueChar)
          /\ v <= Len(s) => s[v] \notin Blank
      BY Zenon DEF InValue
    <2>3. All(r, k + 1, v - 1, Blank) BY <2>0, <2>1, <2>2, AllKept
    <2>4. All(r, v, Len(s), ValueChar) BY <1>1, <2>0, <2>1, <2>2, AllKept
    <2>5. v <= Len(s) => r[v] = s[v] BY <1>1, <1>4, <2>2
    <2> QED BY Zenon, <2>0, <2>3, <2>4, <2>5
  <1>7. CASE ends
    <2>1. PICK q : q = Goto(p, "HEADER_LF") OBVIOUS
    <2>2. in_header_value(p, c) = q BY <1>7, <2>1, Classes DEF in_header_value
    <2>3. /\ Typed(q) /\ q.state = "HEADER_LF" /\ q.header_count = p.header_count
      BY <2>1 DEF Goto, Typed, Fresh, States
    <2>4. IsHeader(r, h + 1, Len(s))
      <3>1. k \in h + 1 .. Len(s) /\ v \in k + 1 .. Len(s) + 1 BY <1>0, <1>1
      <3>2. r[k] = Colon /\ IsToken(r, h + 1, k - 1, NameChar, HTTP_HEADER_LINE_MAX)
        BY Zenon, <1>3 DEF NameRead
      <3>3. (k - (h + 1)) + (Len(s) - v + 1) < HTTP_HEADER_LINE_MAX BY <1>0, <1>1, Limits
      <3> QED BY Zenon, <1>6, <3>1, <3>2, <3>3 DEF IsHeader
    <2>5. /\ h + 1 < Len(r) /\ r[Len(r)] = CR /\ Len(r) - 1 = Len(s)
      BY <1>1, <1>4, <1>7
    <2>6. \A i \in h + 1 .. Len(r) - 1 : r[i] \notin {CR, LF}
      BY <1>1, <1>4, <1>5, <2>5
    <2>7. AtHeaderLf(r, q) BY Zenon, <1>2, <2>3, <2>4, <2>5, <2>6 DEF AtHeaderLf
    <2> QED BY Zenon, <2>2, <2>3, <2>7 DEF Shape
  <1>8. CASE puts
    <2>1. PICK q : q = [p EXCEPT !.header_line = Append(@, c)] BY ZenonT(60)
    <2>2. in_header_value(p, c) = q BY <1>8, <2>1, Classes DEF in_header_value
    <2>3. /\ Typed(q) /\ q.state = "HEADER_VALUE" /\ q.header_count = p.header_count
          /\ q.header_line = Append(p.header_line, c)
      BY <1>1, <2>1 DEF Typed, Fresh
    <2>4. Len(q.header_line) = Len(p.header_line) + 1 BY <1>1, <2>3
    <2>5. Len(p.header_line) + 1 < HTTP_HEADER_LINE_MAX
      BY <1>1, <1>8, Limits DEF Holds
    <2>6. /\ Len(q.header_line) = (k - h - 1) + (Len(r) - v + 1)
          /\ Len(q.header_line) < HTTP_HEADER_LINE_MAX
      BY <1>0, <1>1, <1>4, <2>4, <2>5
    <2>7. /\ v \in k + 1 .. Len(r) /\ r[v] \notin Blank
      <3>1. v \in k + 1 .. Len(r) BY <1>0, <1>1, <1>4
      <3>2. v = Len(s) + 1 => r[v] \notin Blank BY <1>4
      <3>3. v = Len(s) + 1 \/ v <= Len(s) BY <1>0, <1>1
      <3> QED BY Zenon, <1>6, <3>1, <3>2, <3>3
    <2>8. All(r, v, Len(r), ValueChar)
      <3>1. \A i \in Int : v <= i /\ i <= Len(s) => r[i] \in ValueChar
        BY <1>1, <1>6 DEF All
      <3>2. r[Len(s) + 1] \in ValueChar BY <1>4, <1>8
      <3> QED BY <1>1, <1>4, <3>1, <3>2 DEF All
    <2>9. ValueRead(r, k, v) BY Zenon, <1>6, <2>7, <2>8 DEF ValueRead
    <2>10. AtValue(r, q) BY Zenon, <1>2, <1>3, <2>3, <2>6, <2>9 DEF AtValue
    <2> QED BY Zenon, <2>2, <2>3, <2>10 DEF Shape
  <1>9. CASE ~ends /\ ~puts
    <2>1. in_header_value(p, c) = Fail(p) BY <1>9 DEF in_header_value
    <2>2. ASSUME NEW t, Extends(t, r), IsRequest(t) PROVE FALSE
      <3>1. /\ t \in Seq(Byte) /\ Extends(t, s) /\ Len(s) < Len(t) /\ Len(t) \in Nat
            /\ t[Len(s) + 1] = c /\ \A i \in 1 .. Len(s) : t[i] = s[i]
        BY <2>2, Beyond
      <3>2. h < Len(t) /\ t[h] = LF /\ t[h + 1] # CR
        <4>1. h + 1 \in h + 1 .. Len(s) /\ h + 1 \in 1 .. Len(s) /\ h \in 1 .. Len(s)
          BY <1>1
        <4>2. t[h] = s[h] /\ t[h + 1] = s[h + 1] BY <3>1, <4>1
        <4>3. s[h + 1] # CR BY <1>5, <4>1
        <4> QED BY <1>1, <3>1, <4>2, <4>3
      <3>3. PICK e \in Nat, l \in Nat, w \in Nat :
              /\ l <= e /\ l < w /\ w <= e + 1 /\ e + 1 < Len(t) /\ t[e + 1] = CR
              /\ \A i \in h + 1 .. e : t[i] \notin {CR, LF}
              /\ NameRead(t, h, l) /\ All(t, l + 1, w - 1, Blank)
              /\ w <= e => t[w] \notin Blank
              /\ All(t, w, e, ValueChar)
              /\ (l - h - 1) + (e - w + 1) < HTTP_HEADER_LINE_MAX
        BY Zenon, <1>1, <2>2, <3>1, <3>2, HeaderLine
      <3>4. l = k
        <4>1. NameRead(t, h, k) BY Zenon, <3>1, NameKept DEF InValue
        <4> QED BY Zenon, <3>1, <3>3, <4>1, SameColon
      <3>5. e >= Len(s) + 1
        <4>1. h < e + 1 BY <1>1, <3>3, <3>4
        <4>2. ASSUME e + 1 <= Len(s) PROVE FALSE
          <5>1. e + 1 \in h + 1 .. Len(s) /\ e + 1 \in 1 .. Len(s)
            BY <1>1, <3>3, <4>1, <4>2
          <5>2. t[e + 1] = s[e + 1] BY <3>1, <5>1
          <5> QED BY <1>5, <3>3, <5>1, <5>2
        <4>3. e + 1 # Len(s) + 1 BY <1>9, <3>1, <3>3
        <4>4. e \in Nat /\ Len(s) \in Nat BY <1>1, <3>3
        <4> QED BY <4>2, <4>3, <4>4
      <3>6. t[v] \notin Blank
        <4>1. v = Len(s) + 1 => t[v] \notin Blank BY <3>1
        <4>2. v <= Len(s) => v \in 1 .. Len(s) BY <1>0, <1>1
        <4>3. v <= Len(s) => s[v] \notin Blank BY Zenon DEF InValue
        <4>4. v = Len(s) + 1 \/ v <= Len(s) BY <1>0, <1>1
        <4> QED BY ZenonT(60), <3>1, <4>1, <4>2, <4>3, <4>4
      <3>7. \A i \in k + 1 .. v - 1 : t[i] \in Blank
        <4>1. Extends(t, s) /\ k + 1 \in Int /\ v - 1 \in Int /\ 0 < k + 1
          BY <3>1
        <4>2. v - 1 <= Len(s) BY <1>0, <1>1
        <4>3. All(s, k + 1, v - 1, Blank) BY Zenon DEF InValue
        <4>4. All(t, k + 1, v - 1, Blank) BY <4>1, <4>2, <4>3, AllKept
        <4> QED BY Zenon, <4>4 DEF All
      <3>8. w = v
        <4>1. ~(v < w) BY <1>0, <3>3, <3>4, <3>6 DEF All
        <4>2. ~(w < v) BY <1>0, <1>1, <3>3, <3>4, <3>5, <3>7
        <4> QED BY <3>3, <4>1, <4>2
      <3>9. c \in ValueChar BY <1>0, <1>1, <3>1, <3>3, <3>5, <3>8 DEF All
      <3>10. ~Holds(p.header_line, HTTP_HEADER_LINE_MAX) BY <1>9, <3>9
      <3>11. Len(p.header_line) + 1 >= HTTP_HEADER_LINE_MAX
        BY <1>1, <3>10, Limits DEF Holds
      <3>12. (k - h - 1) + (e - v + 1) < HTTP_HEADER_LINE_MAX BY <3>3, <3>4, <3>8
      <3>13. e \in Nat BY <3>3
      <3> QED BY <1>0, <1>1, <3>5, <3>11, <3>12, <3>13, Limits
    <2> QED BY Zenon, <2>1, <2>2, Rejected DEF Hopeless
  <1> QED BY Zenon, <1>7, <1>8, <1>9

-----------------------------------------------------------------------------
(* The ends of the lines. *)

(* Only LF may follow a CR: HTTP_STATE_REQUEST_LINE_LF, HEADER_LF and      *)
(* HEADERS_END_LF.                                                         *)
LEMMA NoLoneCr ==
  ASSUME NEW s \in Seq(Byte), 0 < Len(s), s[Len(s)] = CR,
         NEW c \in Byte, c # LF, NEW r, OneMore(r, s, c)
  PROVE  Hopeless(r)
  <1> SUFFICES ASSUME NEW t, Extends(t, r), IsRequest(t) PROVE FALSE
    BY DEF Hopeless
  <1>1. /\ t \in Seq(Byte) /\ Len(s) < Len(t) /\ Len(t) \in Nat /\ Len(s) \in Nat
        /\ t[Len(s) + 1] = c /\ \A i \in 1 .. Len(s) : t[i] = s[i]
    BY Beyond
  <1>2. \A i \in 1 .. Len(t) : t[i] = LF <=> i > 1 /\ t[i - 1] = CR
    BY Zenon DEF IsRequest, Terminated
  <1>3. Len(s) + 1 \in 1 .. Len(t) /\ Len(s) + 1 > 1 /\ (Len(s) + 1) - 1 = Len(s)
    BY <1>1
  <1>4. t[Len(s)] = CR BY <1>1
  <1>5. t[Len(s) + 1] = LF BY <1>2, <1>3, <1>4
  <1> QED BY <1>1, <1>5

INSTANCE FiniteSetTheorems

(* The breaks up to the next one are one more. *)
LEMMA OneBreakMore ==
  ASSUME NEW s, NEW h \in Nat, NEW m \in Nat, h < m, s[m] = LF,
         \A i \in h + 1 .. m - 1 : s[i] # LF,
         NEW n \in Nat, Cardinality(Broken(s, h)) = n
  PROVE  Cardinality(Broken(s, m)) = n + 1
  <1> DEFINE A == Broken(s, h)
  <1>1. IsFiniteSet(A)
    <2>1. IsFiniteSet(1 .. h) BY FS_Interval
    <2> QED BY <2>1, FS_Subset DEF Broken
  <1>2. m \notin A BY DEF Broken
  <1>3. Broken(s, m) = A \cup {m} BY DEF Broken
  <1>4. Cardinality(A) = n OBVIOUS
  <1> HIDE DEF A
  <1>5. Cardinality(A \cup {m}) = n + 1 BY <1>1, <1>2, <1>4, FS_AddElement
  <1> QED BY <1>3, <1>5

(* Two later breaks are two more. *)
LEMMA TwoBreaksMore ==
  ASSUME NEW s, NEW h \in Nat, NEW l \in Nat, NEW m \in Nat, NEW z \in Nat,
         h < l, l < m, m <= z, s[l] = LF, s[m] = LF,
         NEW n \in Nat, Cardinality(Broken(s, h)) = n
  PROVE  Cardinality(Broken(s, z)) >= n + 2
  <1> DEFINE A == Broken(s, h)
             Z == Broken(s, z)
  <1>1. IsFiniteSet(A) /\ IsFiniteSet(Z)
    <2>1. IsFiniteSet(1 .. h) BY FS_Interval
    <2>2. IsFiniteSet(1 .. z) BY FS_Interval
    <2> QED BY <2>1, <2>2, FS_Subset DEF Broken
  <1>2. l \notin A /\ m \notin A /\ m # l BY DEF Broken
  <1>3. (A \cup {l}) \cup {m} \in SUBSET Z BY DEF Broken
  <1>4. Cardinality(A) = n OBVIOUS
  <1> HIDE DEF A, Z
  <1>5. PICK B : B = A \cup {l} BY Zenon
  <1>6. IsFiniteSet(B) /\ Cardinality(B) = n + 1 /\ m \notin B
    BY <1>1, <1>2, <1>4, <1>5, FS_AddElement
  <1>7. Cardinality(B \cup {m}) = n + 2
    <2>1. Cardinality(B \cup {m}) = Cardinality(B) + 1
      BY ZenonT(60), <1>6, FS_AddElement
    <2> QED BY <1>6, <2>1
  <1>8. IsFiniteSet(Z) /\ B \cup {m} \in SUBSET Z BY <1>1, <1>3, <1>5
  <1>9. Cardinality(B \cup {m}) <= Cardinality(Z) /\ Cardinality(Z) \in Nat
    BY ZenonT(60), <1>8, FS_Subset, FS_CardinalityType
  <1>10. Cardinality(Z) >= n + 2 BY <1>7, <1>9
  <1> QED BY <1>10 DEF Z

(* HTTP_STATE_REQUEST_LINE_LF. *)
LEMMA RequestLineShape ==
  ASSUME NEW s \in Seq(Byte), NEW p, AtRequestLineLf(s, p), NEW r, OneMore(r, s, LF)
  PROVE  HeadRead(r, Len(r), 0)
  <1>1. PICK x \in Nat, y \in Nat :
          /\ MethodRead(s, x) /\ PathRead(s, x, y)
          /\ y < Len(s) /\ s[Len(s)] = CR
          /\ All(s, y + 1, Len(s) - 1, VersionChar)
          /\ SubSeq(s, y + 1, Len(s) - 1) \in DOMAIN Versions
    BY Zenon DEF AtRequestLineLf
  <1>2. PICK n : n = Len(s) OBVIOUS
  <1>3. /\ n \in Nat /\ 1 < x /\ x + 1 < y /\ y < n /\ s[n] = CR
        /\ s[x] = SP /\ s[y] = SP
    BY <1>1, <1>2 DEF MethodRead, PathRead, IsToken
  <1>4. /\ Len(r) = n + 1 /\ r[n + 1] = LF /\ \A i \in 1 .. n : r[i] = s[i]
    BY ZenonT(60), <1>2 DEF OneMore
  <1>5. \A i \in Int : 0 < i /\ i < n => r[i] # CR /\ r[i] # LF
    <2> SUFFICES ASSUME NEW i \in Int, 0 < i, i < n PROVE s[i] # CR /\ s[i] # LF
      BY <1>3, <1>4
    <2>1. /\ All(s, 1, x - 1, MethodChar) /\ All(s, x + 1, y - 1, PathChar)
          /\ All(s, y + 1, n - 1, VersionChar)
      BY ZenonT(60), <1>1, <1>2 DEF MethodRead, PathRead, IsToken
    <2>2. CASE i < x BY <1>3, <2>1, <2>2, Classes DEF All
    <2>3. CASE x < i /\ i < y BY <1>3, <2>1, <2>3, Classes DEF All
    <2>4. CASE y < i BY <1>3, <2>1, <2>4, Classes DEF All
    <2>5. CASE i = x \/ i = y BY <1>3, <2>5, Classes
    <2> QED BY <1>3, <2>2, <2>3, <2>4, <2>5
  <1>6. r[n] = CR /\ CR # LF BY <1>3, <1>4, Classes
  <1>7. ASSUME NEW i \in 1 .. n + 1
        PROVE  r[i] = LF <=> i > 1 /\ r[i - 1] = CR
    <2>1. CASE i = n + 1 BY <1>3, <1>4, <1>6, <2>1
    <2>2. CASE i = n BY <1>3, <1>5, <1>6, <2>2
    <2>3. CASE i < n BY <1>3, <1>5, <2>3
    <2> QED BY <1>3, <2>1, <2>2, <2>3
  <1>8. Cardinality(Broken(r, n + 1)) = 0 + 1
    <2>1. Broken(r, n + 1) = {n + 1} BY <1>3, <1>4, <1>5, <1>6 DEF Broken
    <2>2. Cardinality({n + 1}) = 1 BY Zenon, FS_Singleton
    <2>3. 0 + 1 = 1 OBVIOUS
    <2> QED BY ZenonT(60), <2>1, <2>2, <2>3
  <1>9. ASSUME NEW b \in 1 .. n + 1, StartsLine(r, b)
        PROVE  \E e \in b .. (n + 1) - 2 :
                 /\ IsLine(r, b, e)
                 /\ IF b = 1 THEN IsRequestLine(r, b, e) ELSE IsHeader(r, b, e)
    <2>1. b = 1 BY <1>3, <1>5, <1>6, <1>9 DEF StartsLine
    <2>2. n - 1 \in b .. (n + 1) - 2 BY <1>3, <2>1
    <2>3. r[(n - 1) + 1] = CR BY <1>3, <1>6
    <2>4. IsLine(r, b, n - 1) BY <1>3, <1>5, <1>9, <2>1, <2>3 DEF IsLine
    <2>5. IsRequestLine(r, 1, n - 1)
      <3>1. x \in 1 .. n - 1 /\ y \in 1 .. n - 1 BY <1>3
      <3>2. MethodRead(r, x) /\ PathRead(r, x, y)
        BY <1>1, MethodKept, PathKept DEF OneMore
      <3>3. y + 1 \in Nat /\ n - 1 \in Nat /\ y + 1 > 0 /\ n - 1 <= Len(s)
        BY <1>2, <1>3
      <3>4. SubSeq(r, y + 1, n - 1) = SubSeq(s, y + 1, n - 1)
        <4>1. Extends(r, s) BY DEF OneMore
        <4> QED BY <3>3, <4>1, PartKept
      <3>5. SubSeq(r, y + 1, n - 1) \in DOMAIN Versions BY ZenonT(60), <1>1, <1>2, <3>4
      <3> QED BY ZenonT(60), <3>1, <3>2, <3>5 DEF IsRequestLine, MethodRead, PathRead
    <2> QED BY ZenonT(60), <2>1, <2>2, <2>4, <2>5
  <1>10. n + 1 \in 1 .. Len(r) BY <1>3, <1>4
  <1>11. HeadRead(r, n + 1, 0) BY ZenonT(60), <1>4, <1>7, <1>8, <1>9, <1>10 DEF HeadRead
  <1> QED BY <1>4, <1>11

(* HTTP_STATE_HEADER_LF. *)
LEMMA HeaderLfShape ==
  ASSUME NEW s \in Seq(Byte), NEW p, Typed(p), AtHeaderLf(s, p),
         NEW r, OneMore(r, s, LF)
  PROVE  HeadRead(r, Len(r), p.header_count + 1)
  <1>1. PICK h \in Nat :
          /\ HeadRead(s, h, p.header_count)
          /\ h + 1 < Len(s) /\ s[Len(s)] = CR
          /\ \A i \in h + 1 .. Len(s) - 1 : s[i] \notin {CR, LF}
          /\ IsHeader(s, h + 1, Len(s) - 1)
    BY Zenon DEF AtHeaderLf
  <1>2. PICK n : n = Len(s) OBVIOUS
  <1>3. n \in Nat /\ h + 1 < n /\ s[n] = CR /\ p.header_count \in Nat
    BY <1>1, <1>2 DEF Typed
  <1>4. /\ Len(r) = n + 1 /\ r[n + 1] = LF /\ \A i \in 1 .. n : r[i] = s[i]
        /\ Extends(r, s)
    BY Zenon, <1>2 DEF OneMore
  <1>5. HeadRead(r, h, p.header_count) BY ZenonT(60), <1>1, <1>4, HeadKept
  <1>6. h \in 1 .. Len(r) /\ r[h] = LF BY Zenon, <1>5 DEF HeadRead
  <1>7. 0 < h BY <1>6
  <1>8. \A i \in Int : h < i /\ i < n => r[i] # CR /\ r[i] # LF
    BY <1>1, <1>2, <1>3, <1>4, <1>7
  <1>9. r[n] = CR /\ CR # LF BY <1>3, <1>4, Classes
  <1>10. ASSUME NEW i \in 1 .. n + 1
         PROVE  r[i] = LF <=> i > 1 /\ r[i - 1] = CR
    <2>1. CASE i = n + 1 BY <1>3, <1>4, <1>9, <2>1
    <2>2. CASE i = n BY <1>3, <1>7, <1>8, <1>9, <2>2
    <2>3. CASE h + 1 < i /\ i < n BY <1>3, <1>7, <1>8, <2>3
    <2>4. CASE i = h + 1 BY <1>3, <1>6, <1>7, <1>8, <1>9, <2>4
    <2>5. CASE i <= h
      <3>1. i \in 1 .. h BY <1>3, <2>5
      <3> QED BY ZenonT(60), <1>5, <3>1 DEF HeadRead
    <2> QED BY <1>3, <2>1, <2>2, <2>3, <2>4, <2>5
  <1>11. Cardinality(Broken(r, n + 1)) = (p.header_count + 1) + 1
    <2>1. Cardinality(Broken(r, h)) = p.header_count + 1
      BY ZenonT(60), <1>5 DEF HeadRead
    <2>2. PICK m, k : m = n + 1 /\ k = p.header_count + 1 OBVIOUS
    <2>3. \A i \in h + 1 .. m - 1 : r[i] # LF BY <1>3, <1>7, <1>8, <1>9, <2>2
    <2>4. m \in Nat /\ h < m /\ k \in Nat /\ r[m] = LF BY <1>3, <1>4, <2>2
    <2>5. Cardinality(Broken(r, m)) = k + 1
      <3>1. Cardinality(Broken(r, h)) = k BY ZenonT(60), <2>1, <2>2
      <3> QED BY ZenonT(60), <2>3, <2>4, <3>1, OneBreakMore
    <2> QED BY ZenonT(60), <2>2, <2>5
  <1>12. ASSUME NEW b \in 1 .. n + 1, StartsLine(r, b)
         PROVE  \E e \in b .. (n + 1) - 2 :
                  /\ IsLine(r, b, e)
                  /\ IF b = 1 THEN IsRequestLine(r, b, e) ELSE IsHeader(r, b, e)
    <2>1. b \in Int /\ 1 <= b /\ b <= n + 1 BY <1>3
    <2>2. CASE b <= h
      <3>1. b \in 1 .. h BY <2>1, <2>2
      <3>2. PICK e \in b .. h - 2 :
              /\ IsLine(r, b, e)
              /\ IF b = 1 THEN IsRequestLine(r, b, e) ELSE IsHeader(r, b, e)
        BY ZenonT(60), <1>5, <1>12, <3>1 DEF HeadRead
      <3>3. e \in b .. (n + 1) - 2 BY <1>3, <2>1, <3>2
      <3> QED BY ZenonT(60), <3>2, <3>3
    <2>3. CASE b = h + 1
      <3>1. n - 1 \in b .. (n + 1) - 2 /\ (n - 1) + 1 = n /\ b # 1
        BY <1>3, <1>7, <2>3
      <3>2. \A i \in b .. n - 1 : r[i] \notin {CR, LF} BY <1>3, <1>8, <2>3
      <3>3. IsLine(r, b, n - 1) BY ZenonT(60), <1>9, <1>12, <3>1, <3>2 DEF IsLine
      <3>4. /\ h + 1 \in Nat /\ n - 1 \in Nat /\ h + 1 > 0 /\ h + 1 <= n - 1
            /\ n - 1 < Len(s)
        BY <1>2, <1>3
      <3>5. IsHeader(r, h + 1, n - 1) BY ZenonT(60), <1>1, <1>2, <1>4, <3>4, LineKept
      <3> QED BY ZenonT(60), <2>3, <3>1, <3>3, <3>5
    <2>4. CASE h + 1 < b
      <3>1. b # 1 /\ b - 1 \in Int /\ h < b - 1 /\ b - 1 <= n BY <1>3, <1>7, <2>1, <2>4
      <3>2. r[b - 1] = LF BY <1>12, <3>1 DEF StartsLine
      <3> QED BY <1>3, <1>8, <1>9, <3>1, <3>2
    <2> QED BY <2>1, <2>2, <2>3, <2>4
  <1>13. n + 1 \in 1 .. Len(r) BY <1>3, <1>4
  <1>14. HeadRead(r, n + 1, p.header_count + 1)
    BY ZenonT(60), <1>4, <1>10, <1>11, <1>12, <1>13 DEF HeadRead
  <1> QED BY ZenonT(60), <1>4, <1>14

(* HTTP_STATE_HEADERS_END_LF: the request is complete. *)
LEMMA EndShape ==
  ASSUME NEW s \in Seq(Byte), NEW p, Typed(p), AtHeadersEnd(s, p),
         NEW r, OneMore(r, s, LF)
  PROVE  IsRequest(r)
  <1>1. PICK h : h = Len(s) - 1 OBVIOUS
  <1>2. /\ h \in Nat /\ 0 < h /\ Len(s) = h + 1 /\ s[h + 1] = CR
        /\ HeadRead(s, h, p.header_count)
        /\ p.header_count <= HTTP_MAX_HEADERS /\ p.header_count \in Nat
    BY <1>1 DEF AtHeadersEnd, Typed
  <1>3. Extends(r, s) /\ Len(r) = h + 2 /\ r[h + 2] = LF /\ r[h + 1] = CR
    <2>1. Len(s) + 1 = h + 2 BY <1>2
    <2>2. h + 1 \in 1 .. Len(s) BY <1>2
    <2> QED BY ZenonT(60), <1>2, <2>1, <2>2 DEF OneMore
  <1>4. HeadRead(r, h, p.header_count) BY ZenonT(60), <1>2, <1>3, HeadKept
  <1>5. r[h] = LF /\ CR # LF BY ZenonT(60), <1>4, Classes DEF HeadRead
  <1>6. Terminated(r)
    <2>1. ASSUME NEW i \in 1 .. Len(r) PROVE r[i] = LF <=> i > 1 /\ r[i - 1] = CR
      <3>1. i \in Int /\ 1 <= i /\ i <= h + 2 BY <1>2, <1>3
      <3>2. CASE i = h + 2 BY <1>2, <1>3, <3>2
      <3>3. CASE i = h + 1 BY <1>2, <1>3, <1>5, <3>3
      <3>4. CASE i <= h
        <4>1. i \in 1 .. h BY <3>1, <3>4
        <4> QED BY ZenonT(60), <1>4, <4>1 DEF HeadRead
      <3> QED BY <1>2, <3>1, <3>2, <3>3, <3>4
    <2>2. Len(r) > 0 /\ r[Len(r)] = LF BY <1>2, <1>3
    <2> QED BY ZenonT(60), <2>1, <2>2 DEF Terminated
  <1>7. Len(r) > 2 /\ r[Len(r) - 2] = LF BY <1>2, <1>3, <1>5
  <1>8. Cardinality(Breaks(r)) <= HTTP_MAX_HEADERS + 2
    <2>1. Cardinality(Broken(r, h)) = p.header_count + 1
      BY Zenon, <1>4 DEF HeadRead
    <2>2. PICK m, k : m = h + 2 /\ k = p.header_count + 1 OBVIOUS
    <2>3. \A i \in h + 1 .. m - 1 : r[i] # LF BY <1>2, <1>3, <1>5, <2>2
    <2>4. m \in Nat /\ h < m /\ k \in Nat /\ r[m] = LF /\ Len(r) = m
      BY <1>2, <1>3, <2>2
    <2>5. Cardinality(Broken(r, m)) = k + 1
      <3>1. Cardinality(Broken(r, h)) = k BY Zenon, <2>1, <2>2
      <3> QED BY ZenonT(60), <1>2, <2>3, <2>4, <3>1, OneBreakMore
    <2>6. Cardinality(Breaks(r)) = k + 1 BY Zenon, <2>4, <2>5 DEF Breaks, Broken
    <2> QED BY <1>2, <2>2, <2>6, Limits
  <1>9. ASSUME NEW b \in 1 .. Len(r) - 2, StartsLine(r, b)
        PROVE  \E e \in b .. Len(r) - 2 :
                 /\ IsLine(r, b, e)
                 /\ IF b = 1 THEN IsRequestLine(r, b, e) ELSE IsHeader(r, b, e)
    <2>1. b \in 1 .. h BY <1>2, <1>3
    <2>2. PICK e \in b .. h - 2 :
            /\ IsLine(r, b, e)
            /\ IF b = 1 THEN IsRequestLine(r, b, e) ELSE IsHeader(r, b, e)
      BY Zenon, <1>4, <1>9, <2>1 DEF HeadRead
    <2>3. e \in b .. Len(r) - 2 BY <1>2, <1>3, <2>1, <2>2
    <2> QED BY Zenon, <2>2, <2>3
  <1> QED BY ZenonT(60), <1>6, <1>7, <1>8, <1>9 DEF IsRequest

(* After HTTP_MAX_HEADERS headers, only the empty line. *)
LEMMA NoRoom ==
  ASSUME NEW t \in Seq(Byte), IsRequest(t), NEW h \in Nat, h < Len(t),
         HeadRead(t, h, HTTP_MAX_HEADERS)
  PROVE  t[h + 1] = CR
  <1> SUFFICES ASSUME t[h + 1] # CR PROVE FALSE OBVIOUS
  <1>1. h \in 1 .. Len(t) /\ t[h] = LF /\ Cardinality(Broken(t, h)) = HTTP_MAX_HEADERS + 1
    BY Zenon DEF HeadRead
  <1>2. 0 < h /\ Len(t) \in Nat BY <1>1
  <1>3. PICK e \in Nat, k \in Nat :
          /\ k <= e /\ e + 1 < Len(t) /\ t[e + 1] = CR
          /\ \A i \in h + 1 .. e : t[i] \notin {CR, LF}
          /\ NameRead(t, h, k)
    BY ZenonT(60), <1>1, <1>2, HeaderLine
  <1>4. k \in h + 1 .. Len(t) BY ZenonT(60), <1>3 DEF NameRead
  <1>5. h < e BY <1>3, <1>4
  <1>6. /\ t[Len(t)] = LF /\ t[Len(t) - 2] = LF /\ Len(t) > 2
        /\ \A i \in 1 .. Len(t) : t[i] = LF <=> i > 1 /\ t[i - 1] = CR
        /\ Cardinality(Breaks(t)) <= HTTP_MAX_HEADERS + 2
    BY ZenonT(60) DEF IsRequest, Terminated
  <1>7. t[e + 2] = LF
    <2>1. e + 2 \in 1 .. Len(t) /\ e + 2 > 1 /\ (e + 2) - 1 = e + 1 BY <1>2, <1>3
    <2> QED BY <1>3, <1>6, <2>1
  <1>8. e + 2 # Len(t)
    <2>1. t[e] # LF BY <1>3, <1>5
    <2> QED BY <1>2, <1>3, <1>6, <2>1
  <1>9. PICK l, n : l = e + 2 /\ n = HTTP_MAX_HEADERS + 1 OBVIOUS
  <1>10. /\ l \in Nat /\ h < l /\ l < Len(t) /\ Len(t) <= Len(t) /\ t[l] = LF
         /\ n \in Nat /\ Cardinality(Broken(t, h)) = n
    BY <1>1, <1>2, <1>3, <1>5, <1>7, <1>8, <1>9, Limits
  <1>11. Cardinality(Broken(t, Len(t))) >= n + 2
    BY ZenonT(60), <1>2, <1>6, <1>10, TwoBreaksMore
  <1>12. Cardinality(Breaks(t)) = Cardinality(Broken(t, Len(t)))
    BY Zenon DEF Breaks, Broken
  <1>13. Cardinality(Broken(t, Len(t))) \in Nat
    <2>1. IsFiniteSet(1 .. Len(t)) BY <1>2, FS_Interval
    <2>2. IsFiniteSet(Broken(t, Len(t))) BY <2>1, FS_Subset DEF Broken
    <2> QED BY ZenonT(60), <2>2, FS_CardinalityType
  <1> QED BY <1>6, <1>9, <1>11, <1>12, <1>13, Limits

(* HTTP_STATE_HEADER_LINE_START. *)
LEMMA LineStartShape ==
  ASSUME NEW p, Typed(p), p.state = "HEADER_LINE_START", NEW s \in Seq(Byte),
         AtLineStart(s, p), NEW c \in Byte, NEW r, OneMore(r, s, c)
  PROVE  Typed(at_line_start(p, c)) /\ Shape(r, at_line_start(p, c))
  <1> DEFINE ends == c = CR
             puts == c \in NameChar /\ MoreHeaders(p)
  <1>1. /\ HeadRead(s, Len(s), p.header_count) /\ p.header_count <= HTTP_MAX_HEADERS
    BY ZenonT(60) DEF AtLineStart
  <1>2. Len(s) \in Nat /\ p.header_count \in Nat BY DEF Typed
  <1>3. HeadRead(r, Len(s), p.header_count)
    BY ZenonT(60), <1>1, <1>2, HeadKept DEF OneMore
  <1>4. Len(s) \in 1 .. Len(s) /\ s[Len(s)] = LF BY ZenonT(60), <1>1 DEF HeadRead
  <1>5. Len(r) = Len(s) + 1 /\ r[Len(s) + 1] = c /\ 0 < Len(s)
    BY <1>2, <1>4 DEF OneMore
  <1>6. CASE ends
    <2>1. PICK q : q = Goto(p, "HEADERS_END_LF") OBVIOUS
    <2>2. at_line_start(p, c) = q BY <1>6, <2>1, Classes DEF at_line_start
    <2>3. /\ Typed(q) /\ q.state = "HEADERS_END_LF" /\ q.header_count = p.header_count
      BY <2>1 DEF Goto, Typed, Fresh, States
    <2>4. 1 < Len(r) /\ r[Len(r)] = CR /\ Len(r) - 1 = Len(s) BY <1>2, <1>5, <1>6
    <2>5. AtHeadersEnd(r, q) BY ZenonT(60), <1>1, <1>3, <2>3, <2>4 DEF AtHeadersEnd
    <2> QED BY ZenonT(60), <2>2, <2>3, <2>5 DEF Shape
  <1>7. CASE puts
    <2>1. PICK q : q = [p EXCEPT !.header_line = <<c>>, !.state = "HEADER_NAME"] OBVIOUS
    <2>2. at_line_start(p, c) = q BY <1>7, <2>1, Classes DEF at_line_start
    <2>3. /\ Typed(q) /\ q.state = "HEADER_NAME" /\ q.header_count = p.header_count
          /\ q.header_line = <<c>>
      BY <2>1 DEF Typed, Fresh, States
    <2>4. /\ Len(s) < Len(r) /\ Len(q.header_line) = Len(r) - Len(s)
          /\ Len(r) - Len(s) < HTTP_HEADER_LINE_MAX
      BY <1>2, <1>5, <2>3, Limits
    <2>5. All(r, Len(s) + 1, Len(r), NameChar) BY <1>2, <1>5, <1>7 DEF All
    <2>6. q.header_count < HTTP_MAX_HEADERS BY <1>7, <2>3 DEF MoreHeaders
    <2>7. AtName(r, q) BY ZenonT(60), <1>2, <1>3, <2>3, <2>4, <2>5, <2>6 DEF AtName
    <2> QED BY ZenonT(60), <2>2, <2>3, <2>7 DEF Shape
  <1>8. CASE ~ends /\ ~puts
    <2>1. at_line_start(p, c) = Fail(p) BY <1>8 DEF at_line_start
    <2>2. ASSUME NEW t, Extends(t, r), IsRequest(t) PROVE FALSE
      <3>1. /\ t \in Seq(Byte) /\ Extends(t, s) /\ Len(s) < Len(t) /\ Len(t) \in Nat
            /\ t[Len(s) + 1] = c /\ \A i \in 1 .. Len(s) : t[i] = s[i]
        BY <2>2, Beyond
      <3>2. t[Len(s)] = LF /\ t[Len(s) + 1] # CR BY ZenonT(60), <1>4, <1>8, <3>1
      <3>3. PICK k \in Nat : NameRead(t, Len(s), k)
        BY ZenonT(60), <1>2, <1>5, <2>2, <3>1, <3>2, HeaderLine
      <3>4. /\ k \in Len(s) + 1 .. Len(t) /\ Len(s) + 1 <= k - 1
            /\ All(t, Len(s) + 1, k - 1, NameChar)
        BY ZenonT(60), <3>3 DEF NameRead, IsToken
      <3>5. c \in NameChar BY <1>2, <3>1, <3>4 DEF All
      <3>6. p.header_count = HTTP_MAX_HEADERS
        BY <1>1, <1>2, <1>8, <3>5, Limits DEF MoreHeaders
      <3>7. HeadRead(t, Len(s), HTTP_MAX_HEADERS)
        BY ZenonT(60), <1>1, <1>2, <3>1, <3>6, HeadKept
      <3> QED BY ZenonT(60), <1>2, <2>2, <3>1, <3>2, <3>7, NoRoom
    <2> QED BY ZenonT(60), <2>1, <2>2, Rejected DEF Hopeless
  <1> QED BY ZenonT(60), <1>6, <1>7, <1>8

-----------------------------------------------------------------------------
(* The whole parser. *)

(* Before HTTP_STATE_DONE the input is no request yet. *)
LEMMA Unfinished ==
  ASSUME NEW s \in Seq(Byte), NEW p, Typed(p), Shape(s, p), p.state \notin Terminal
  PROVE  ~IsRequest(s)
  <1> SUFFICES ASSUME IsRequest(s) PROVE FALSE OBVIOUS
  <1>1. /\ Len(s) \in Nat /\ Len(s) > 2 /\ s[Len(s)] = LF /\ s[Len(s) - 2] = LF
    BY DEF IsRequest, Terminated
  <1>2. CASE p.state = "METHOD"
    <2>1. All(s, 1, Len(s), MethodChar) BY ZenonT(60), <1>2 DEF Shape, AtMethod
    <2> QED BY <1>1, <2>1, Classes DEF All
  <1>3. CASE p.state = "PATH"
    <2>1. PICK x \in Nat : MethodRead(s, x) /\ All(s, x + 1, Len(s), PathChar)
      BY Zenon, <1>3 DEF Shape, AtPath
    <2>2. x \in 1 .. Len(s) /\ s[x] = SP BY ZenonT(60), <2>1 DEF MethodRead
    <2> QED BY <1>1, <2>1, <2>2, Classes DEF All
  <1>4. CASE p.state = "VERSION"
    <2>1. PICK x \in Nat, y \in Nat :
            PathRead(s, x, y) /\ All(s, y + 1, Len(s), VersionChar)
      BY ZenonT(60), <1>4 DEF Shape, AtVersion
    <2>2. y \in x + 1 .. Len(s) /\ s[y] = SP BY ZenonT(60), <2>1 DEF PathRead
    <2> QED BY <1>1, <2>1, <2>2, Classes DEF All
  <1>5. CASE p.state = "HEADER_LINE_START"
    <2>1. HeadRead(s, Len(s), p.header_count) BY ZenonT(60), <1>5 DEF Shape, AtLineStart
    <2>2. Len(s) - 1 \in 1 .. Len(s) /\ (Len(s) - 1) - 1 = Len(s) - 2 BY <1>1
    <2>3. PICK e : e \in Len(s) - 1 .. Len(s) - 2
      BY ZenonT(60), <1>1, <2>1, <2>2 DEF HeadRead, StartsLine
    <2> QED BY <1>1, <2>3
  <1>6. CASE p.state = "HEADER_NAME"
    <2>1. PICK h \in Nat : h < Len(s) /\ All(s, h + 1, Len(s), NameChar)
      BY ZenonT(60), <1>6 DEF Shape, AtName
    <2> QED BY <1>1, <2>1, Classes DEF All
  <1>7. CASE p.state = "HEADER_VALUE_SP"
    <2>1. PICK h \in Nat, k \in Nat : NameRead(s, h, k) /\ All(s, k + 1, Len(s), Blank)
      BY ZenonT(60), <1>7 DEF Shape, AtValueSp
    <2>2. k \in h + 1 .. Len(s) /\ s[k] = Colon BY ZenonT(60), <2>1 DEF NameRead
    <2>3. s[Len(s)] \in Blank \cup {Colon} BY <1>1, <2>1, <2>2 DEF All
    <2> QED BY <1>1, <2>3, Classes DEF Blank
  <1>8. CASE p.state = "HEADER_VALUE"
    <2>1. PICK k \in Nat, v \in Nat : ValueRead(s, k, v)
      BY ZenonT(60), <1>8 DEF Shape, AtValue
    <2>2. v \in k + 1 .. Len(s) /\ All(s, v, Len(s), ValueChar)
      BY ZenonT(60), <2>1 DEF ValueRead
    <2> QED BY <1>1, <2>2, Classes DEF All
  <1>9. CASE p.state \in {"REQUEST_LINE_LF", "HEADER_LF", "HEADERS_END_LF"}
    <2>1. s[Len(s)] = CR
      BY ZenonT(60), <1>9 DEF Shape, AtRequestLineLf, AtHeaderLf, AtHeadersEnd
    <2> QED BY <1>1, <2>1, Classes
  <1>10. p.state \in States \ Terminal BY Zenon DEF Typed
  <1> QED BY ZenonT(60), <1>2, <1>3, <1>4, <1>5, <1>6, <1>7, <1>8, <1>9, <1>10
       DEF States, Terminal

(* What http_parser_execute() does with a byte. *)
LEMMA EatShape ==
  ASSUME NEW s \in Seq(Byte), NEW p, Typed(p), Shape(s, p), p.state \notin Terminal,
         NEW c \in Byte, NEW r, OneMore(r, s, c)
  PROVE  Typed(Eat(p, c)) /\ Shape(r, Eat(p, c))
  <1>1. CASE p.state = "METHOD"
    <2>1. Eat(p, c) = in_method(p, c) BY <1>1 DEF Eat, Advances, step
    <2>2. AtMethod(s, p) BY ZenonT(60), <1>1 DEF Shape
    <2> QED BY ZenonT(60), <1>1, <2>1, <2>2, MethodShape
  <1>2. CASE p.state = "PATH"
    <2>1. Eat(p, c) = in_path(p, c) BY <1>2 DEF Eat, Advances, step
    <2>2. AtPath(s, p) BY ZenonT(60), <1>2 DEF Shape
    <2> QED BY ZenonT(60), <1>2, <2>1, <2>2, PathShape
  <1>3. CASE p.state = "VERSION"
    <2>1. Eat(p, c) = in_version(p, c) BY <1>3 DEF Eat, Advances, step
    <2>2. AtVersion(s, p) BY ZenonT(60), <1>3 DEF Shape
    <2> QED BY ZenonT(60), <1>3, <2>1, <2>2, VersionShape
  <1>4. CASE p.state = "REQUEST_LINE_LF" /\ c = LF
    <2>1. PICK q : q = Goto(p, "HEADER_LINE_START") OBVIOUS
    <2>2. Eat(p, c) = q BY <1>4, <2>1 DEF Eat, Advances, step
    <2>3. Typed(q) /\ q.state = "HEADER_LINE_START" /\ q.header_count = p.header_count
      BY <2>1 DEF Goto, Typed, Fresh, States
    <2>4. AtRequestLineLf(s, p) BY ZenonT(60), <1>4 DEF Shape
    <2>5. p.header_count = 0 BY Zenon, <2>4 DEF AtRequestLineLf
    <2>6. HeadRead(r, Len(r), 0) BY ZenonT(60), <1>4, <2>4, RequestLineShape
    <2>7. 0 <= HTTP_MAX_HEADERS BY Limits
    <2>8. AtLineStart(r, q) BY ZenonT(60), <2>3, <2>5, <2>6, <2>7 DEF AtLineStart
    <2> QED BY ZenonT(60), <2>2, <2>3, <2>8 DEF Shape
  <1>5. CASE p.state = "HEADER_LINE_START"
    <2>1. Eat(p, c) = at_line_start(p, c) BY <1>5 DEF Eat, Advances, step
    <2>2. AtLineStart(s, p) BY ZenonT(60), <1>5 DEF Shape
    <2> QED BY ZenonT(60), <1>5, <2>1, <2>2, LineStartShape
  <1>6. CASE p.state = "HEADER_NAME"
    <2>1. Eat(p, c) = in_header_name(p, c) BY <1>6 DEF Eat, Advances, step
    <2>2. AtName(s, p) BY ZenonT(60), <1>6 DEF Shape
    <2> QED BY ZenonT(60), <1>6, <2>1, <2>2, NameShape
  <1>7. CASE p.state = "HEADER_VALUE_SP" /\ c \in Blank
    <2>1. Eat(p, c) = p BY <1>7 DEF Eat, Advances, step, in_value_sp, Blank
    <2>2. AtValueSp(s, p) BY ZenonT(60), <1>7 DEF Shape
    <2> QED BY ZenonT(60), <1>7, <2>1, <2>2, BlankShape
  <1>8. CASE p.state = "HEADER_VALUE_SP" /\ c \notin Blank
    <2>1. PICK q : q = Goto(p, "HEADER_VALUE") OBVIOUS
    <2>2. /\ Typed(q) /\ q.state = "HEADER_VALUE" /\ q.header_count = p.header_count
          /\ q.header_line = p.header_line
      BY <2>1 DEF Goto, Typed, Fresh, States
    <2>3. Eat(p, c) = in_header_value(q, c)
      <3>1. step(p, c) = q BY <1>8, <2>1 DEF step, in_value_sp, Advances, Blank
      <3>2. step(q, c) = in_header_value(q, c) BY <2>2 DEF step
      <3>3. ~Advances(p, c) BY <1>8 DEF Advances, Blank
      <3> QED BY ZenonT(60), <3>1, <3>2, <3>3 DEF Eat
    <2>4. AtValueSp(s, p) BY ZenonT(60), <1>8 DEF Shape
    <2>5. PICK h \in Nat, k \in Nat :
            /\ HeadRead(s, h, p.header_count) /\ p.header_count < HTTP_MAX_HEADERS
            /\ NameRead(s, h, k) /\ All(s, k + 1, Len(s), Blank)
            /\ Len(p.header_line) = k - h - 1
      BY ZenonT(60), <2>4 DEF AtValueSp
    <2>6. k \in h + 1 .. Len(s) /\ (k - 1) - (h + 1) + 1 < HTTP_HEADER_LINE_MAX
      BY ZenonT(60), <2>5 DEF NameRead, IsToken
    <2>7. PICK v : v = Len(s) + 1 OBVIOUS
    <2>8. /\ v \in Nat /\ k < v /\ v <= Len(s) + 1 /\ v - 1 = Len(s) /\ ~(v <= Len(s))
          /\ Len(q.header_line) = (k - h - 1) + (Len(s) - v + 1)
          /\ Len(q.header_line) < HTTP_HEADER_LINE_MAX
      BY <2>2, <2>5, <2>6, <2>7, Limits
    <2>9. All(s, v, Len(s), ValueChar) BY <2>7 DEF All
    <2>10. InValue(s, q, h, k, v) BY ZenonT(60), <2>2, <2>5, <2>8, <2>9 DEF InValue
    <2> QED BY ZenonT(60), <1>8, <2>2, <2>3, <2>8, <2>10, ValueShape
  <1>9. CASE p.state = "HEADER_VALUE"
    <2>1. Eat(p, c) = in_header_value(p, c) BY <1>9 DEF Eat, Advances, step
    <2>2. AtValue(s, p) BY ZenonT(60), <1>9 DEF Shape
    <2>3. PICK h \in Nat, k \in Nat, v \in Nat :
            /\ HeadRead(s, h, p.header_count) /\ p.header_count < HTTP_MAX_HEADERS
            /\ NameRead(s, h, k) /\ ValueRead(s, k, v)
            /\ Len(p.header_line) = (k - h - 1) + (Len(s) - v + 1)
            /\ Len(p.header_line) < HTTP_HEADER_LINE_MAX
      BY ZenonT(60), <2>2 DEF AtValue
    <2>4. /\ v \in k + 1 .. Len(s) /\ All(s, k + 1, v - 1, Blank) /\ s[v] \notin Blank
          /\ All(s, v, Len(s), ValueChar)
      BY ZenonT(60), <2>3 DEF ValueRead
    <2>5. k < v /\ v <= Len(s) + 1 /\ v # Len(s) + 1 BY <2>4
    <2>6. InValue(s, p, h, k, v) BY ZenonT(60), <2>3, <2>4, <2>5 DEF InValue
    <2> QED BY ZenonT(60), <1>9, <2>1, <2>5, <2>6, ValueShape
  <1>10. CASE p.state = "HEADER_LF" /\ c = LF
    <2>1. PICK q : q = at_header_lf(p, c) OBVIOUS
    <2>2. Eat(p, c) = q BY <1>10, <2>1 DEF Eat, Advances, step
    <2>3. /\ Typed(q) /\ q.state = "HEADER_LINE_START"
          /\ q.header_count = p.header_count + 1
      BY <1>10, <2>1 DEF at_header_lf, Typed, Fresh, States
    <2>4. AtHeaderLf(s, p) BY ZenonT(60), <1>10 DEF Shape
    <2>5. p.header_count < HTTP_MAX_HEADERS BY ZenonT(60), <2>4 DEF AtHeaderLf
    <2>6. p.header_count + 1 <= HTTP_MAX_HEADERS BY <2>5, Limits DEF Typed
    <2>7. HeadRead(r, Len(r), p.header_count + 1)
      BY ZenonT(60), <1>10, <2>4, HeaderLfShape
    <2>8. AtLineStart(r, q) BY ZenonT(60), <2>3, <2>6, <2>7 DEF AtLineStart
    <2> QED BY ZenonT(60), <2>2, <2>3, <2>8 DEF Shape
  <1>11. CASE p.state = "HEADERS_END_LF" /\ c = LF
    <2>1. PICK q : q = Goto(p, "DONE") OBVIOUS
    <2>2. Eat(p, c) = q BY <1>11, <2>1 DEF Eat, Advances, step
    <2>3. Typed(q) /\ q.state = "DONE" BY <2>1 DEF Goto, Typed, Fresh, States
    <2>4. AtHeadersEnd(s, p) BY ZenonT(60), <1>11 DEF Shape
    <2>5. IsRequest(r) BY ZenonT(60), <1>11, <2>4, EndShape
    <2> QED BY ZenonT(60), <2>2, <2>3, <2>5 DEF Shape
  <1>12. CASE p.state \in {"REQUEST_LINE_LF", "HEADER_LF", "HEADERS_END_LF"} /\ c # LF
    <2>1. Eat(p, c) = Fail(p)
      BY ZenonT(60), <1>12 DEF Eat, Advances, step, at_header_lf, Goto, Fail
    <2>2. s[Len(s)] = CR /\ 0 < Len(s)
      <3>1. CASE p.state = "REQUEST_LINE_LF"
        <4>1. PICK y \in Nat : y < Len(s) /\ s[Len(s)] = CR
          BY ZenonT(60), <3>1 DEF Shape, AtRequestLineLf
        <4> QED BY <4>1
      <3>2. CASE p.state = "HEADER_LF"
        <4>1. PICK h \in Nat : h + 1 < Len(s) /\ s[Len(s)] = CR
          BY ZenonT(60), <3>2 DEF Shape, AtHeaderLf
        <4> QED BY <4>1
      <3>3. CASE p.state = "HEADERS_END_LF"
        <4>1. 1 < Len(s) /\ s[Len(s)] = CR BY ZenonT(60), <3>3 DEF Shape, AtHeadersEnd
        <4> QED BY <4>1
      <3> QED BY ZenonT(60), <1>12, <3>1, <3>2, <3>3
    <2>3. Hopeless(r) BY ZenonT(60), <1>12, <2>2, NoLoneCr
    <2> QED BY ZenonT(60), <2>1, <2>3, Rejected
  <1>13. p.state \in States \ Terminal BY Zenon DEF Typed
  <1> QED BY ZenonT(60), <1>1, <1>2, <1>3, <1>4, <1>5, <1>6, <1>7, <1>8, <1>9, <1>10,
              <1>11, <1>12, <1>13 DEF States, Terminal

(* http_parser_init() sets up the shape of an empty input. *)
LEMMA FreshShape == Typed(Fresh) /\ Shape(<<>>, Fresh)
  <1>1. Typed(Fresh) BY DEF Typed, Fresh, States
  <1>2. /\ Fresh.state = "METHOD" /\ Fresh.header_count = 0 /\ Fresh.path = <<>>
        /\ Fresh.version = <<>> /\ Fresh.method = <<>>
    BY DEF Fresh
  <1>3. Len(<<>>) = 0 /\ 0 < HTTP_METHOD_MAX /\ All(<<>>, 1, 0, MethodChar)
    BY Limits DEF All
  <1>4. AtMethod(<<>>, Fresh) BY ZenonT(60), <1>2, <1>3 DEF AtMethod
  <1> QED BY ZenonT(60), <1>1, <1>2, <1>4 DEF Shape

(* A new parser has the shape of an empty input. *)
LEMMA IInvInit == Init => IInv
  <1> SUFFICES ASSUME Init PROVE IInv OBVIOUS
  <1>1. fed = <<>> /\ parser = Fresh BY Zenon DEF Init
  <1>2. fed \in Seq(Byte) BY <1>1
  <1> QED BY ZenonT(60), <1>1, <1>2, FreshShape DEF IInv

(* Every byte fed to the parser keeps its state in the shape of the input. *)
LEMMA IInvNext == IInv /\ [Next]_vars => IInv'
  <1> SUFFICES ASSUME IInv, [Next]_vars PROVE IInv' OBVIOUS
  <1>1. ASSUME NEW c \in Byte, Feed(c) PROVE IInv'
    <2>1. parser.state \notin Terminal /\ fed' = Append(fed, c) /\ parser' = Eat(parser, c)
      BY ZenonT(60), <1>1 DEF Feed
    <2>2. fed \in Seq(Byte) /\ Typed(parser) /\ Shape(fed, parser) BY Zenon DEF IInv
    <2>3. OneMore(Append(fed, c), fed, c) BY ZenonT(60), <2>2, AppendIs
    <2>4. Append(fed, c) \in Seq(Byte) BY <2>2
    <2>5. /\ Typed(Eat(parser, c)) /\ Shape(Append(fed, c), Eat(parser, c))
      BY ZenonT(60), <2>1, <2>2, <2>3, EatShape
    <2> QED BY ZenonT(60), <2>1, <2>4, <2>5 DEF IInv
  <1>2. CASE Restart
    <2>1. fed' = <<>> /\ parser' = Fresh BY ZenonT(60), <1>2 DEF Restart
    <2>2. <<>> \in Seq(Byte) OBVIOUS
    <2> QED BY ZenonT(60), <2>1, <2>2, FreshShape DEF IInv
  <1>3. CASE UNCHANGED vars
    BY Zenon, <1>3 DEF IInv, vars
  <1> QED BY ZenonT(60), <1>1, <1>2, <1>3 DEF Next

(* The strengthening holds: what the fields of the parser say about the    *)
(* bytes it has eaten.                                                     *)
LEMMA ParserKnowsItsInput == Spec => []IInv
  <1>1. Init => IInv BY IInvInit
  <1>2. IInv /\ [Next]_vars => IInv' BY IInvNext
  <1> QED BY <1>1, <1>2, PTL DEF Spec

(* For every alphabet, every set of words and every limit, the parser      *)
(* reports COMPLETE on exactly the byte strings that are requests: no      *)
(* sooner, no later, for nothing else.                                     *)
THEOREM AcceptsExactlyRequests == Spec => []CompleteIsRequest
  <1>1. ASSUME IInv PROVE CompleteIsRequest
    <2>1. fed \in Seq(Byte) /\ Typed(parser) /\ Shape(fed, parser)
      BY ZenonT(60), <1>1 DEF IInv
    <2>2. parser.state = "DONE" => IsRequest(fed) BY ZenonT(60), <2>1 DEF Shape
    <2>3. parser.state \notin Terminal => ~IsRequest(fed)
      BY ZenonT(60), <2>1, Unfinished
    <2>4. parser.state = "ERROR" => ~IsRequest(fed)
      <3>1. Extends(fed, fed) BY <2>1 DEF Extends
      <3> QED BY ZenonT(60), <2>1, <3>1 DEF Shape, Hopeless
    <2> QED BY ZenonT(60), <2>2, <2>3, <2>4 DEF CompleteIsRequest, Terminal
  <1> QED BY <1>1, ParserKnowsItsInput, PTL

(* What HTTP_STATE_ERROR means: no bytes whatever could have made the      *)
(* input a request, so the 400 is never premature.                         *)
RejectsOnlyLost ==
  parser.state = "ERROR" => \A t \in Seq(Byte) : ~IsRequest(fed \o t)

(* Where the parser is in ERROR, its input is beyond repair. *)
LEMMA LostFromIInv == ASSUME IInv PROVE RejectsOnlyLost
  <1> SUFFICES ASSUME parser.state = "ERROR", NEW t \in Seq(Byte)
               PROVE  ~IsRequest(fed \o t)
    BY ZenonT(60) DEF RejectsOnlyLost
  <1>1. fed \in Seq(Byte) /\ Shape(fed, parser) BY ZenonT(60) DEF IInv
  <1>2. Extends(fed \o t, fed) BY <1>1 DEF Extends
  <1> QED BY ZenonT(60), <1>1, <1>2 DEF Shape, Hopeless

(* The parser gives up only on inputs that no continuation can save.       *)
THEOREM RejectionIsFinal == Spec => []RejectsOnlyLost
  <1>1. IInv => RejectsOnlyLost BY LostFromIInv
  <1> QED BY <1>1, ParserKnowsItsInput, PTL

-----------------------------------------------------------------------------
(* What is left to send. *)

(* A parser in state st may have eaten s. *)
Stands(s, st) == \E p : Typed(p) /\ Shape(s, p) /\ p.state = st

(* It goes on as the parser does. *)
LEMMA StandsOn ==
  ASSUME NEW s \in Seq(Byte), NEW p, Typed(p), Shape(s, p), p.state \notin Terminal,
         NEW c \in Byte, NEW st, Eat(p, c).state = st
  PROVE  Append(s, c) \in Seq(Byte) /\ Stands(Append(s, c), st)
  <1>1. OneMore(Append(s, c), s, c) BY AppendIs
  <1>2. Typed(Eat(p, c)) /\ Shape(Append(s, c), Eat(p, c)) BY ZenonT(60), <1>1, EatShape
  <1>3. Append(s, c) \in Seq(Byte) OBVIOUS
  <1> QED BY ZenonT(60), <1>2, <1>3 DEF Stands

(* The LF of the empty line completes the request. *)
LEMMA LastLf ==
  ASSUME NEW s \in Seq(Byte), Stands(s, "HEADERS_END_LF")
  PROVE  IsRequest(Append(s, LF))
  <1>1. PICK p : Typed(p) /\ Shape(s, p) /\ p.state = "HEADERS_END_LF"
    BY ZenonT(60) DEF Stands
  <1>2. Eat(p, LF).state = "DONE" BY <1>1 DEF Eat, Advances, step, Goto, Typed, Fresh
  <1>3. p.state \notin Terminal /\ LF \in Byte BY <1>1, Classes DEF Terminal
  <1>4. Stands(Append(s, LF), "DONE") BY ZenonT(60), <1>1, <1>2, <1>3, StandsOn
  <1> QED BY ZenonT(60), <1>4 DEF Stands, Shape

(* The empty line does, where a line may begin. *)
LEMMA EmptyLine ==
  ASSUME NEW s \in Seq(Byte), Stands(s, "HEADER_LINE_START")
  PROVE  IsRequest(s \o <<CR, LF>>)
  <1>1. PICK p : Typed(p) /\ Shape(s, p) /\ p.state = "HEADER_LINE_START"
    BY ZenonT(60) DEF Stands
  <1>2. Eat(p, CR).state = "HEADERS_END_LF"
    BY <1>1, Classes DEF Eat, Advances, step, at_line_start, Goto, Typed, Fresh
  <1>3. p.state \notin Terminal /\ CR \in Byte /\ LF \in Byte BY <1>1, Classes DEF Terminal
  <1>4. Append(s, CR) \in Seq(Byte) /\ Stands(Append(s, CR), "HEADERS_END_LF")
    BY ZenonT(60), <1>1, <1>2, <1>3, StandsOn
  <1>5. IsRequest(Append(Append(s, CR), LF)) BY ZenonT(60), <1>4, LastLf
  <1>6. s \o <<CR, LF>> = Append(Append(s, CR), LF) BY <1>3
  <1> QED BY ZenonT(60), <1>5, <1>6

(* A line that has its CR. *)
LEMMA LineThenEmptyLine ==
  ASSUME NEW s \in Seq(Byte), NEW st \in {"REQUEST_LINE_LF", "HEADER_LF"}, Stands(s, st)
  PROVE  IsRequest(s \o <<LF, CR, LF>>)
  <1>1. PICK p : Typed(p) /\ Shape(s, p) /\ p.state = st BY ZenonT(60) DEF Stands
  <1>2. Eat(p, LF).state = "HEADER_LINE_START"
    BY ZenonT(60), <1>1 DEF Eat, Advances, step, at_header_lf, Goto, Typed, Fresh
  <1>3. p.state \notin Terminal /\ CR \in Byte /\ LF \in Byte BY <1>1, Classes DEF Terminal
  <1>4. Append(s, LF) \in Seq(Byte) /\ Stands(Append(s, LF), "HEADER_LINE_START")
    BY ZenonT(60), <1>1, <1>2, <1>3, StandsOn
  <1>5. IsRequest(Append(s, LF) \o <<CR, LF>>) BY ZenonT(60), <1>4, EmptyLine
  <1>6. s \o <<LF, CR, LF>> = Append(s, LF) \o <<CR, LF>> BY <1>3
  <1> QED BY ZenonT(60), <1>5, <1>6

(* A header whose value has begun, or is about to. *)
LEMMA ValueThenEmptyLine ==
  ASSUME NEW s \in Seq(Byte), NEW st \in {"HEADER_VALUE_SP", "HEADER_VALUE"}, Stands(s, st)
  PROVE  IsRequest(s \o <<CR, LF, CR, LF>>)
  <1>1. PICK p : Typed(p) /\ Shape(s, p) /\ p.state = st BY Zenon DEF Stands
  <1>2. Eat(p, CR).state = "HEADER_LF"
    <2>1. CASE st = "HEADER_VALUE"
      BY <1>1, <2>1, Classes DEF Eat, Advances, step, in_header_value, Goto, Typed, Fresh
    <2>2. CASE st = "HEADER_VALUE_SP"
      <3>1. PICK q : q = Goto(p, "HEADER_VALUE") OBVIOUS
      <3>2. Typed(q) /\ q.state = "HEADER_VALUE"
        BY <1>1, <3>1 DEF Goto, Typed, Fresh, States
      <3>3. ~Advances(p, CR) BY <1>1, <2>2, Classes DEF Advances
      <3>4. step(p, CR) = q BY <1>1, <2>2, <3>1, <3>3 DEF step, in_value_sp
      <3>5. step(q, CR).state = "HEADER_LF"
        BY <3>2, Classes DEF step, in_header_value, Goto, Typed, Fresh
      <3> QED BY ZenonT(60), <3>3, <3>4, <3>5 DEF Eat
    <2> QED BY ZenonT(60), <2>1, <2>2
  <1>3. p.state \notin Terminal /\ CR \in Byte /\ LF \in Byte BY <1>1, Classes DEF Terminal
  <1>4. Append(s, CR) \in Seq(Byte) /\ Stands(Append(s, CR), "HEADER_LF")
    BY ZenonT(60), <1>1, <1>2, <1>3, StandsOn
  <1>5. IsRequest(Append(s, CR) \o <<LF, CR, LF>>)
    BY ZenonT(60), <1>4, LineThenEmptyLine
  <1>6. s \o <<CR, LF, CR, LF>> = Append(s, CR) \o <<LF, CR, LF>> BY <1>3
  <1> QED BY ZenonT(60), <1>5, <1>6

(* A header whose name has begun. *)
LEMMA NameThenEmptyLine ==
  ASSUME NEW s \in Seq(Byte), Stands(s, "HEADER_NAME")
  PROVE  IsRequest(s \o <<Colon, CR, LF, CR, LF>>)
  <1>1. PICK p : Typed(p) /\ Shape(s, p) /\ p.state = "HEADER_NAME"
    BY ZenonT(60) DEF Stands
  <1>2. Eat(p, Colon).state = "HEADER_VALUE_SP"
    BY <1>1, Classes DEF Eat, Advances, step, in_header_name, Goto, Typed, Fresh
  <1>3. /\ p.state \notin Terminal /\ Colon \in Byte /\ CR \in Byte /\ LF \in Byte
    BY <1>1, Classes DEF Terminal
  <1>4. Append(s, Colon) \in Seq(Byte) /\ Stands(Append(s, Colon), "HEADER_VALUE_SP")
    BY ZenonT(60), <1>1, <1>2, <1>3, StandsOn
  <1>5. IsRequest(Append(s, Colon) \o <<CR, LF, CR, LF>>)
    BY ZenonT(60), <1>4, ValueThenEmptyLine
  <1>6. s \o <<Colon, CR, LF, CR, LF>> = Append(s, Colon) \o <<CR, LF, CR, LF>> BY <1>3
  <1> QED BY ZenonT(60), <1>5, <1>6

(* A request line up to the version. *)
LEMMA VersionThenEmptyLine ==
  ASSUME NEW s \in Seq(Byte), NEW x \in Nat, MethodRead(s, x), PathRead(s, x, Len(s)),
         NEW v \in DOMAIN Versions
  PROVE  IsRequest(s \o (v \o <<CR, LF, CR, LF>>))
  <1>1. v \in Seq(VersionChar) BY GrammarAssumption
  <1>2. v \in Seq(Byte) /\ CR \in Byte /\ LF \in Byte BY <1>1, Classes
  <1>3. PICK u : u = (s \o v) \o <<CR>> BY ZenonT(60)
  <1>4. /\ u \in Seq(Byte) /\ Len(u) = Len(s) + Len(v) + 1 /\ u[Len(u)] = CR
        /\ \A i \in 1 .. Len(s) : u[i] = s[i]
        /\ \A i \in 1 .. Len(v) : u[Len(s) + i] = v[i]
    BY <1>2, <1>3
  <1>5. Len(s) \in Nat /\ Len(v) \in Nat BY <1>2
  <1>6. Extends(u, s) BY <1>4, <1>5 DEF Extends
  <1>7. MethodRead(u, x) /\ PathRead(u, x, Len(s)) BY <1>5, <1>6, MethodKept, PathKept
  <1>8. All(u, Len(s) + 1, Len(u) - 1, VersionChar)
    <2> SUFFICES ASSUME NEW i \in Len(s) + 1 .. Len(u) - 1 PROVE u[i] \in VersionChar
      BY DEF All
    <2>1. i - Len(s) \in 1 .. Len(v) /\ i = Len(s) + (i - Len(s)) BY <1>4, <1>5
    <2>2. u[i] = v[i - Len(s)] BY <1>4, <2>1
    <2> QED BY <1>1, <2>1, <2>2
  <1>9. SubSeq(u, Len(s) + 1, Len(u) - 1) = v BY <1>2, <1>4, <1>5
  <1>10. Len(s) < Len(u) BY <1>4, <1>5
  <1>11. PICK q : q = [Fresh EXCEPT !.state = "REQUEST_LINE_LF"] BY ZenonT(60)
  <1>12. Typed(q) /\ q.state = "REQUEST_LINE_LF" /\ q.header_count = 0
    BY <1>11 DEF Typed, Fresh, States
  <1>13. AtRequestLineLf(u, q)
    BY Zenon, <1>4, <1>5, <1>7, <1>8, <1>9, <1>10, <1>12 DEF AtRequestLineLf
  <1>14. Stands(u, "REQUEST_LINE_LF") BY Zenon, <1>12, <1>13 DEF Stands, Shape
  <1>15. IsRequest(u \o <<LF, CR, LF>>) BY Zenon, <1>4, <1>14, LineThenEmptyLine
  <1>16. s \o (v \o <<CR, LF, CR, LF>>) = u \o <<LF, CR, LF>>
    <2>1. <<CR>> \in Seq(Byte) /\ <<LF, CR, LF>> \in Seq(Byte) BY <1>2
    <2>2. PICK z : z = <<CR, LF, CR, LF>> BY ZenonT(60)
    <2>3. z \in Seq(Byte) /\ z = <<CR>> \o <<LF, CR, LF>> BY <1>2, <2>2, BreaksJoined
    <2>4. s \o v \in Seq(Byte) BY <1>2
    <2>5. s \o (v \o z) = (s \o v) \o z BY ZenonT(60), <1>2, <2>3, JoinedOn
    <2>6. (s \o v) \o z = ((s \o v) \o <<CR>>) \o <<LF, CR, LF>>
      BY ZenonT(60), <2>1, <2>3, <2>4, JoinedOn
    <2> QED BY Zenon, <1>3, <2>2, <2>5, <2>6
  <1> QED BY Zenon, <1>15, <1>16

(* The rest of a shortest request, from its i-th byte on. *)
Rest(i) == SubSeq(Shortest, i, Len(Shortest))

(* Where its first bytes are missing, they are those of a request line.    *)
LEMMA Rests ==
  \E m \in MethodChar, p \in PathChar, v \in DOMAIN Versions :
    /\ Shortest \in Seq(Byte) /\ Len(Shortest) \in Nat /\ Len(Shortest) > 4
    /\ Rest(1) = <<m, SP, p, SP>> \o (v \o <<CR, LF, CR, LF>>)
    /\ Rest(2) = <<SP, p, SP>> \o (v \o <<CR, LF, CR, LF>>)
    /\ Rest(3) = <<p, SP>> \o (v \o <<CR, LF, CR, LF>>)
    /\ Rest(4) = <<SP>> \o (v \o <<CR, LF, CR, LF>>)
  <1>1. PICK m : m = (CHOOSE c \in MethodChar : TRUE) OBVIOUS
  <1>2. PICK p : p = (CHOOSE c \in PathChar : TRUE) OBVIOUS
  <1>3. PICK v : v = (CHOOSE w \in DOMAIN Versions : TRUE) OBVIOUS
  <1>4. m \in MethodChar /\ p \in PathChar /\ v \in DOMAIN Versions
    BY ZenonT(60), <1>1, <1>2, <1>3, GrammarAssumption
  <1>5. m \in Byte /\ p \in Byte /\ SP \in Byte /\ CR \in Byte /\ LF \in Byte
    BY <1>4, Classes
  <1>6. v \in Seq(Byte)
    <2>1. v \in Seq(VersionChar) BY <1>4, GrammarAssumption
    <2> QED BY <2>1, Classes
  <1>7. PICK w : w = v \o <<CR, LF, CR, LF>> BY ZenonT(60)
  <1>8. w \in Seq(Byte) /\ Len(w) \in Nat /\ Len(w) > 0 BY <1>5, <1>6, <1>7
  <1>9. Shortest = <<m, SP, p, SP>> \o w
    <2>1. Shortest = (<<m, SP, p, SP>> \o v) \o <<CR, LF, CR, LF>>
      BY Zenon, <1>1, <1>2, <1>3 DEF Shortest
    <2> QED BY <1>5, <1>6, <1>7, <2>1
  <1>10. Shortest \in Seq(Byte) /\ Len(Shortest) = 4 + Len(w) BY <1>5, <1>8, <1>9
  <1>11. Rest(1) = <<m, SP, p, SP>> \o w BY <1>5, <1>8, <1>9 DEF Rest
  <1>12. Rest(2) = <<SP, p, SP>> \o w BY <1>5, <1>8, <1>9 DEF Rest
  <1>13. Rest(3) = <<p, SP>> \o w BY <1>5, <1>8, <1>9 DEF Rest
  <1>14. Rest(4) = <<SP>> \o w BY <1>5, <1>8, <1>9 DEF Rest
  <1>15. Len(Shortest) \in Nat /\ Len(Shortest) > 4 BY <1>8, <1>10
  <1> QED BY Zenon, <1>4, <1>7, <1>10, <1>11, <1>12, <1>13, <1>14, <1>15

(* An input in its method or its path can still become a request. *)
LEMMA FirstLineGoesOn ==
  ASSUME NEW s \in Seq(Byte), NEW q, AtMethod(s, q) \/ AtPath(s, q)
  PROVE  CanBecomeRequest(s)
  <1>1. PICK m \in MethodChar, p \in PathChar, v \in DOMAIN Versions :
          /\ Shortest \in Seq(Byte) /\ Len(Shortest) \in Nat /\ Len(Shortest) > 4
          /\ Rest(1) = <<m, SP, p, SP>> \o (v \o <<CR, LF, CR, LF>>)
          /\ Rest(2) = <<SP, p, SP>> \o (v \o <<CR, LF, CR, LF>>)
          /\ Rest(3) = <<p, SP>> \o (v \o <<CR, LF, CR, LF>>)
          /\ Rest(4) = <<SP>> \o (v \o <<CR, LF, CR, LF>>)
    BY ZenonT(60), Rests
  <1>2. m \in Byte /\ p \in Byte /\ SP \in Byte /\ CR \in Byte /\ LF \in Byte
    BY Classes
  <1>3. PICK w : w = v \o <<CR, LF, CR, LF>> BY ZenonT(60)
  <1>4. w \in Seq(Byte)
    <2>1. v \in Seq(VersionChar) BY GrammarAssumption
    <2>2. v \in Seq(Byte) BY <2>1, Classes
    <2> QED BY <1>2, <1>3, <2>2
  <1>5. ASSUME NEW i \in 1 .. 4, NEW u \in Seq(Byte), NEW x \in Nat,
               MethodRead(u, x), PathRead(u, x, Len(u)), s \o Rest(i) = u \o w,
               \A j \in 1 .. Len(s) : s[j] # CR
        PROVE  CanBecomeRequest(s)
    <2>1. IsRequest(s \o Rest(i)) BY Zenon, <1>3, <1>5, VersionThenEmptyLine
    <2>2. i \in 1 .. Len(Shortest) BY <1>1
    <2>3. Endings(s) = {SubSeq(Shortest, j, Len(Shortest)) : j \in 1 .. Len(Shortest)}
      BY <1>5 DEF Endings
    <2>4. Rest(i) \in Endings(s) BY Zenon, <2>2, <2>3 DEF Rest
    <2> QED BY Zenon, <2>1, <2>4 DEF CanBecomeRequest
  <1>6. CASE AtMethod(s, q) /\ s = <<>>
    <2>1. PICK u : u = <<m, SP, p, SP>> BY ZenonT(60)
    <2>2. /\ u \in Seq(Byte) /\ Len(u) = 4
          /\ u[1] = m /\ u[2] = SP /\ u[3] = p /\ u[4] = SP
      BY <1>2, <2>1
    <2>3. MethodRead(u, 2) BY <2>2, Limits DEF MethodRead, IsToken, All
    <2>4. PathRead(u, 2, Len(u)) BY <2>2, Limits DEF PathRead, IsToken, All
    <2>5. s \o Rest(1) = u \o w
      <3>1. Rest(1) = u \o w BY Zenon, <1>1, <1>3, <2>1
      <3>2. u \o w \in Seq(Byte) BY <1>4, <2>2
      <3> QED BY <1>6, <3>1, <3>2
    <2>6. \A j \in 1 .. Len(s) : s[j] # CR BY <1>6
    <2>7. 1 \in 1 .. 4 /\ 2 \in Nat OBVIOUS
    <2> QED BY ZenonT(60), <1>5, <2>2, <2>3, <2>4, <2>5, <2>6, <2>7
  <1>7. CASE AtMethod(s, q) /\ s # <<>>
    <2>1. PICK u : u = s \o <<SP, p, SP>> BY ZenonT(60)
    <2>2. PICK x : x = Len(s) + 1 OBVIOUS
    <2>3. /\ All(s, 1, x - 1, MethodChar) /\ x - 1 < HTTP_METHOD_MAX
          /\ x \in Nat /\ x > 1 /\ Len(s) = x - 1
      BY <1>7, <2>2 DEF AtMethod
    <2>4. /\ u \in Seq(Byte) /\ Len(u) = x + 2
          /\ u[x] = SP /\ u[x + 1] = p /\ u[x + 2] = SP
          /\ \A j \in 1 .. x - 1 : u[j] = s[j]
      BY <1>2, <2>1, <2>2
    <2>5. MethodRead(u, x) BY <2>3, <2>4, Limits DEF MethodRead, IsToken, All
    <2>6. PathRead(u, x, Len(u)) BY <2>3, <2>4, Limits DEF PathRead, IsToken, All
    <2>7. s \o Rest(2) = u \o w
      <3>1. Rest(2) = <<SP, p, SP>> \o w BY ZenonT(60), <1>1, <1>3
      <3>2. <<SP, p, SP>> \in Seq(Byte) BY <1>2
      <3>3. s \o (<<SP, p, SP>> \o w) = (s \o <<SP, p, SP>>) \o w
        BY ZenonT(60), <1>4, <3>2, JoinedOn
      <3> QED BY ZenonT(60), <2>1, <3>1, <3>3
    <2>8. \A j \in 1 .. Len(s) : s[j] # CR BY <2>3, Classes DEF All
    <2>9. 2 \in 1 .. 4 OBVIOUS
    <2> QED BY ZenonT(60), <1>5, <2>3, <2>4, <2>5, <2>6, <2>7, <2>8, <2>9
  <1>8. CASE AtPath(s, q)
    <2>1. PICK x \in Nat :
            /\ MethodRead(s, x) /\ All(s, x + 1, Len(s), PathChar)
            /\ Len(s) - x < HTTP_PATH_MAX
      BY ZenonT(60), <1>8 DEF AtPath
    <2>2. /\ x \in 1 .. Len(s) /\ s[x] = SP /\ Len(s) \in Nat
          /\ All(s, 1, x - 1, MethodChar)
      BY <2>1 DEF MethodRead, IsToken
    <2>3. \A j \in 1 .. Len(s) : s[j] # CR BY <2>1, <2>2, Classes DEF All
    <2>4. CASE Len(s) = x
      <3>1. PICK u : u = s \o <<p, SP>> BY ZenonT(60)
      <3>2. /\ u \in Seq(Byte) /\ Len(u) = x + 2 /\ u[x + 1] = p /\ u[x + 2] = SP
            /\ \A j \in 1 .. Len(s) : u[j] = s[j]
        <4>1. /\ Len(u) = Len(s) + 2 /\ u[Len(s) + 1] = p /\ u[Len(s) + 2] = SP
              /\ u \in Seq(Byte) /\ \A j \in 1 .. Len(s) : u[j] = s[j]
          BY <1>2, <3>1
        <4> QED BY Zenon, <2>4, <4>1
      <3>3. Extends(u, s) BY <2>2, <2>4, <3>2 DEF Extends
      <3>4. MethodRead(u, x) BY <2>1, <3>3, MethodKept
      <3>5. PathRead(u, x, Len(u)) BY <2>2, <3>2, Limits DEF PathRead, IsToken, All
      <3>6. s \o Rest(3) = u \o w
        <4>1. Rest(3) = <<p, SP>> \o w BY ZenonT(60), <1>1, <1>3
        <4>2. <<p, SP>> \in Seq(Byte) BY <1>2
        <4>3. s \o (<<p, SP>> \o w) = (s \o <<p, SP>>) \o w
          BY ZenonT(60), <1>4, <4>2, JoinedOn
        <4> QED BY ZenonT(60), <3>1, <4>1, <4>3
      <3>7. 3 \in 1 .. 4 OBVIOUS
      <3> QED BY ZenonT(60), <1>5, <2>3, <3>2, <3>4, <3>5, <3>6, <3>7
    <2>5. CASE Len(s) # x
      <3>1. PICK u : u = s \o <<SP>> BY ZenonT(60)
      <3>2. /\ u \in Seq(Byte) /\ Len(u) = Len(s) + 1 /\ u[Len(s) + 1] = SP
            /\ \A j \in 1 .. Len(s) : u[j] = s[j]
        BY <1>2, <3>1
      <3>3. Extends(u, s) BY <2>2, <3>2 DEF Extends
      <3>4. MethodRead(u, x) BY <2>1, <3>3, MethodKept
      <3>5. PathRead(u, x, Len(u))
        BY <2>1, <2>2, <2>5, <3>2, Limits DEF PathRead, IsToken, All
      <3>6. s \o Rest(4) = u \o w
        <4>1. Rest(4) = <<SP>> \o w BY ZenonT(60), <1>1, <1>3
        <4>2. <<SP>> \in Seq(Byte) BY <1>2
        <4>3. s \o (<<SP>> \o w) = (s \o <<SP>>) \o w
          BY ZenonT(60), <1>4, <4>2, JoinedOn
        <4> QED BY ZenonT(60), <3>1, <4>1, <4>3
      <3>7. 4 \in 1 .. 4 OBVIOUS
      <3> QED BY ZenonT(60), <1>5, <2>3, <3>2, <3>4, <3>5, <3>6, <3>7
    <2> QED BY ZenonT(60), <2>4, <2>5
  <1> QED BY ZenonT(60), <1>6, <1>7, <1>8

(* Where the parser has not given up, and the version is not half read,    *)
(* one of the Endings makes a request.                                     *)
LEMMA GoesOn ==
  ASSUME NEW s \in Seq(Byte), NEW p, Typed(p), Shape(s, p),
         p.state \notin {"ERROR", "VERSION"}
  PROVE  CanBecomeRequest(s)
  <1>1. CASE p.state \in {"METHOD", "PATH"}
    <2>1. AtMethod(s, p) \/ AtPath(s, p) BY ZenonT(60), <1>1 DEF Shape
    <2> QED BY ZenonT(60), <2>1, FirstLineGoesOn
  <1>2. CASE p.state \in {"REQUEST_LINE_LF", "HEADER_LF", "HEADERS_END_LF"}
    <2>1. s[Len(s)] = CR /\ Len(s) > 0 /\ Len(s) \in 1 .. Len(s)
      <3>1. s[Len(s)] = CR
        BY ZenonT(60), <1>2 DEF Shape, AtRequestLineLf, AtHeaderLf, AtHeadersEnd
      <3>2. Len(s) # 0
        <4> SUFFICES ASSUME Len(s) = 0 PROVE FALSE OBVIOUS
        <4>1. \E y \in Nat : y < Len(s) \/ y + 1 < Len(s) \/ 1 < Len(s)
          <5>1. CASE p.state = "REQUEST_LINE_LF"
            BY ZenonT(60), <5>1 DEF Shape, AtRequestLineLf
          <5>2. CASE p.state = "HEADER_LF" BY ZenonT(60), <5>2 DEF Shape, AtHeaderLf
          <5>3. CASE p.state = "HEADERS_END_LF"
            <6>1. 1 < Len(s) /\ 0 \in Nat BY Zenon, <5>3 DEF Shape, AtHeadersEnd
            <6> QED BY <6>1
          <5> QED BY ZenonT(60), <1>2, <5>1, <5>2, <5>3
        <4> QED BY <4>1
      <3> QED BY <3>1, <3>2
    <2>2. Endings(s) = {<<LF>>, <<LF, CR, LF>>} BY <2>1 DEF Endings
    <2>3. CASE p.state = "HEADERS_END_LF"
      <3>1. IsRequest(Append(s, LF)) BY ZenonT(60), <2>3, LastLf DEF Stands
      <3>2. s \o <<LF>> = Append(s, LF) BY Classes
      <3> QED BY ZenonT(60), <2>2, <3>1, <3>2 DEF CanBecomeRequest
    <2>4. CASE p.state \in {"REQUEST_LINE_LF", "HEADER_LF"}
      <3>1. IsRequest(s \o <<LF, CR, LF>>)
        BY ZenonT(60), <2>4, LineThenEmptyLine DEF Stands
      <3> QED BY ZenonT(60), <2>2, <3>1 DEF CanBecomeRequest
    <2> QED BY ZenonT(60), <1>2, <2>3, <2>4
  <1>3. CASE p.state \in {"HEADER_LINE_START", "HEADER_NAME", "HEADER_VALUE_SP",
                          "HEADER_VALUE", "DONE"}
    <2>1. \E h \in 1 .. Len(s) : h > 1 /\ s[h - 1] = CR
      <3>1. CASE p.state = "DONE"
        <4>1. Len(s) > 0 /\ s[Len(s)] = LF
              /\ \A i \in 1 .. Len(s) : s[i] = LF <=> i > 1 /\ s[i - 1] = CR
          BY ZenonT(60), <3>1 DEF Shape, IsRequest, Terminated
        <4>2. Len(s) \in 1 .. Len(s) BY <4>1
        <4> QED BY ZenonT(60), <4>1, <4>2
      <3>2. CASE p.state # "DONE"
        <4>1. PICK h \in Nat : HeadRead(s, h, p.header_count)
          <5>1. Len(s) \in Nat OBVIOUS
          <5> QED BY ZenonT(60), <1>3, <3>2, <5>1
               DEF Shape, AtLineStart, AtName, AtValueSp, AtValue
        <4>2. /\ h \in 1 .. Len(s) /\ s[h] = LF
              /\ \A i \in 1 .. h : s[i] = LF <=> i > 1 /\ s[i - 1] = CR
          BY ZenonT(60), <4>1 DEF HeadRead
        <4>3. h \in 1 .. h BY <4>2
        <4> QED BY ZenonT(60), <4>2, <4>3
      <3> QED BY ZenonT(60), <3>1, <3>2
    <2>2. ~(\A i \in 1 .. Len(s) : s[i] # CR)
      <3>1. PICK h \in 1 .. Len(s) : h > 1 /\ s[h - 1] = CR BY Zenon, <2>1
      <3>2. h - 1 \in 1 .. Len(s) BY <3>1
      <3> QED BY ZenonT(60), <3>1, <3>2
    <2>3. s[Len(s)] # CR
      <3>1. Len(s) \in Nat OBVIOUS
      <3>2. CASE p.state = "DONE" BY <3>2, Classes DEF Shape, IsRequest, Terminated
      <3>3. CASE p.state = "HEADER_LINE_START"
        BY <3>3, Classes DEF Shape, AtLineStart, HeadRead
      <3>4. CASE p.state = "HEADER_NAME"
        <4>1. PICK h \in Nat : h < Len(s) /\ All(s, h + 1, Len(s), NameChar)
          BY ZenonT(60), <3>4 DEF Shape, AtName
        <4> QED BY <3>1, <4>1, Classes DEF All
      <3>5. CASE p.state = "HEADER_VALUE_SP"
        <4>1. PICK h \in Nat, k \in Nat : NameRead(s, h, k) /\ All(s, k + 1, Len(s), Blank)
          BY ZenonT(60), <3>5 DEF Shape, AtValueSp
        <4>2. k \in h + 1 .. Len(s) /\ s[k] = Colon BY ZenonT(60), <4>1 DEF NameRead
        <4>3. s[Len(s)] \in Blank \cup {Colon} BY <3>1, <4>1, <4>2 DEF All
        <4> QED BY <4>3, Classes DEF Blank
      <3>6. CASE p.state = "HEADER_VALUE"
        <4>1. PICK k \in Nat, v \in Nat : ValueRead(s, k, v)
          BY ZenonT(60), <3>6 DEF Shape, AtValue
        <4>2. v \in k + 1 .. Len(s) /\ All(s, v, Len(s), ValueChar)
          BY ZenonT(60), <4>1 DEF ValueRead
        <4> QED BY <3>1, <4>2, Classes DEF All
      <3> QED BY ZenonT(60), <1>3, <3>2, <3>3, <3>4, <3>5, <3>6
    <2>4. Endings(s) = {<<>>, <<CR, LF>>, <<CR, LF, CR, LF>>, <<Colon, CR, LF, CR, LF>>}
      BY <2>2, <2>3 DEF Endings
    <2>5. \E e \in Endings(s) : IsRequest(s \o e)
      <3>1. CASE p.state = "DONE"
        <4>1. s \o <<>> = s OBVIOUS
        <4>2. IsRequest(s) BY ZenonT(60), <3>1 DEF Shape
        <4> QED BY ZenonT(60), <2>4, <4>1, <4>2
      <3>2. CASE p.state = "HEADER_LINE_START"
        <4>1. IsRequest(s \o <<CR, LF>>) BY ZenonT(60), <3>2, EmptyLine DEF Stands
        <4> QED BY ZenonT(60), <2>4, <4>1
      <3>3. CASE p.state = "HEADER_NAME"
        <4>1. IsRequest(s \o <<Colon, CR, LF, CR, LF>>)
          BY ZenonT(60), <3>3, NameThenEmptyLine DEF Stands
        <4> QED BY ZenonT(60), <2>4, <4>1
      <3>4. CASE p.state \in {"HEADER_VALUE_SP", "HEADER_VALUE"}
        <4>1. IsRequest(s \o <<CR, LF, CR, LF>>)
          BY ZenonT(60), <3>4, ValueThenEmptyLine DEF Stands
        <4> QED BY ZenonT(60), <2>4, <4>1
      <3> QED BY ZenonT(60), <1>3, <3>1, <3>2, <3>3, <3>4
    <2> QED BY Zenon, <2>5 DEF CanBecomeRequest
  <1>4. p.state \in States BY Zenon DEF Typed
  <1> QED BY ZenonT(60), <1>1, <1>2, <1>3, <1>4 DEF States

(* What the Endings are made of. *)
LEMMA EndingsAreBytes == \A s \in Seq(Byte) : Endings(s) \subseteq Seq(Byte)
  <1> SUFFICES ASSUME NEW s \in Seq(Byte), NEW e \in Endings(s) PROVE e \in Seq(Byte)
    BY ZenonT(60)
  <1>1. Colon \in Byte /\ CR \in Byte /\ LF \in Byte BY Classes
  <1>2. Shortest \in Seq(Byte) /\ Len(Shortest) \in Nat BY ZenonT(60), Rests
  <1>3. /\ <<>> \in Seq(Byte) /\ <<LF>> \in Seq(Byte) /\ <<LF, CR, LF>> \in Seq(Byte)
        /\ <<CR, LF>> \in Seq(Byte) /\ <<CR, LF, CR, LF>> \in Seq(Byte)
        /\ <<Colon, CR, LF, CR, LF>> \in Seq(Byte)
    BY <1>1
  <1>4. \A i \in 1 .. Len(Shortest) : SubSeq(Shortest, i, Len(Shortest)) \in Seq(Byte)
    BY <1>2
  <1>5. CASE \A i \in 1 .. Len(s) : s[i] # CR
    <2>1. Endings(s) = {SubSeq(Shortest, i, Len(Shortest)) : i \in 1 .. Len(Shortest)}
      <3>1. Len(s) \in Nat OBVIOUS
      <3>2. ~(Len(s) > 0 /\ s[Len(s)] = CR) BY <1>5, <3>1
      <3> QED BY ZenonT(60), <1>5, <3>2 DEF Endings
    <2>2. PICK i \in 1 .. Len(Shortest) : e = SubSeq(Shortest, i, Len(Shortest))
      BY <2>1
    <2> QED BY ZenonT(60), <1>4, <2>2
  <1>6. CASE (\E i \in 1 .. Len(s) : s[i] = CR) /\ Len(s) > 0 /\ s[Len(s)] = CR
    BY ZenonT(60), <1>3, <1>6 DEF Endings
  <1>7. CASE (\E i \in 1 .. Len(s) : s[i] = CR) /\ ~(Len(s) > 0 /\ s[Len(s)] = CR)
    BY ZenonT(60), <1>3, <1>7 DEF Endings
  <1> QED BY ZenonT(60), <1>5, <1>6, <1>7

(* The parser answers 400 exactly when the input is lost: not on the byte  *)
(* before, not on a later one, the version of the request line apart,      *)
(* which in_version() looks at when its line ends.                         *)
THEOREM RejectsInTime == Spec => []GivesUpInTime
  <1>1. IInv => GivesUpInTime
    <2> SUFFICES ASSUME IInv PROVE GivesUpInTime OBVIOUS
    <2>1. fed \in Seq(Byte) /\ Typed(parser) /\ Shape(fed, parser) BY Zenon DEF IInv
    <2>2. parser.state = "ERROR" => ~CanBecomeRequest(fed)
      BY ZenonT(60), <2>1, LostFromIInv, EndingsAreBytes
      DEF RejectsOnlyLost, CanBecomeRequest
    <2>3. parser.state \notin {"ERROR", "VERSION"} => CanBecomeRequest(fed)
      BY Zenon, <2>1, GoesOn
    <2> QED BY ZenonT(60), <2>2, <2>3 DEF GivesUpInTime
  <1> QED BY <1>1, ParserKnowsItsInput, PTL
=============================================================================
