------------------------- MODULE PersistenceProofs -------------------------
(***************************************************************************)
(* A connection persists as its request asks, for every alphabet, every    *)
(* spelling, every limit and every request: the scan of a Connection value *)
(* finds the tokens between its commas, and the parser remembers the last  *)
(* one it knows over all headers.                                          *)
(***************************************************************************)
EXTENDS RequestGrammar, WellFoundedInduction, TLAPS

(* The time, in seconds, that a step gives each prover. *)
USE SMTT(30), ZenonT(60)

(* A set of naturals has a least element. *)
LEMMA LeastNatural ==
  ASSUME NEW T, T \subseteq Nat, T # {}
  PROVE  \E n \in T : \A m \in T : n <= m
  <1> DEFINE R == {ss \in Nat \X Nat : ss[1] < ss[2]}
  <1>1. IsWellFoundedOn(R, Nat)
    BY Zenon, NatLessThanWellFounded DEF OpToRel
  <1> HIDE DEF R
  <1>2. PICK n \in T : \A m \in T : <<m, n>> \notin R
    BY Zenon, <1>1, WFMin
  <1>3. ASSUME NEW m \in T PROVE n <= m
    <2>1. ~(m < n) BY Zenon, <1>2 DEF R
    <2>2. m \in Nat /\ n \in Nat BY Zenon
    <2> QED BY <2>1, <2>2
  <1> QED BY <1>3

(* A bounded one has a greatest. *)
LEMMA GreatestNatural ==
  ASSUME NEW m \in Nat, NEW T, T \subseteq 0 .. m, T # {}
  PROVE  \E n \in T : \A k \in T : k <= n
  <1> DEFINE U == {m - k : k \in T}
  <1>1. U \subseteq Nat /\ U # {}
    <2>1. \A k \in T : m - k \in Nat
      <3> SUFFICES ASSUME NEW k \in T PROVE m - k \in Nat BY Zenon
      <3>1. k \in 0 .. m BY Zenon
      <3> QED BY <3>1
    <2> QED BY Zenon, <2>1
  <1>2. PICK u \in U : \A v \in U : u <= v BY Zenon, <1>1, LeastNatural
  <1>3. PICK n \in T : u = m - n BY Zenon
  <1>4. ASSUME NEW k \in T PROVE k <= n
    <2>1. m - n <= m - k BY Zenon, <1>2, <1>3
    <2>2. n \in 0 .. m /\ k \in 0 .. m BY Zenon
    <2> HIDE DEF U
    <2> QED BY <2>1, <2>2
  <1> QED BY Zenon, <1>4

(* What the classes of characters have in common and what not. *)
LEMMA Classes ==
  /\ CR # LF /\ SP # CR /\ SP # LF /\ HT # CR /\ HT # LF
  /\ Comma \notin {SP, HT, CR, LF} /\ Colon \notin {SP, HT, CR, LF}
  /\ \A c \in MethodChar \cup PathChar \cup VersionChar : c \notin {SP, CR, LF}
  /\ \A c \in NameChar : c \notin {SP, HT, Colon, CR, LF}
  /\ \A c \in ValueChar : c \notin {CR, LF}
  BY Zenon, HttpParserAssumption, GrammarAssumption DEF Blank

-----------------------------------------------------------------------------
(* The last token that is known. *)

Part(s, a, z) == SubSeq(s, a, z)

Known == CloseTokens \cup KeepAliveTokens

(* K is a set of known tokens of s. *)
AreKnown(s, K) ==
  \A t \in K : /\ t \in Nat \X Nat
               /\ Part(s, t[1], t[2]) \in Known

(* d is what the last of the tokens K of s says. *)
Last(s, K, d) ==
  \/ K = {} /\ d = "UNSPECIFIED"
  \/ \E t \in K : /\ \A u \in K : u[1] <= t[1]
                  /\ d = Meaning(Part(s, t[1], t[2]))

(* No two tokens of K begin at the same place. *)
Apart(K) == \A t, u \in K : t[1] = u[1] => t = u

(* A known token says something. *)
LEMMA KnownMeans ==
  ASSUME NEW x \in Known
  PROVE  /\ Meaning(x) \in {"CLOSE", "KEEPALIVE"}
         /\ Meaning(x) = "KEEPALIVE" <=> x \in KeepAliveTokens
  BY GrammarAssumption DEF Known, Meaning

(* Tokens after tokens: the later ones win, TokenWins. *)
LEMMA LaterWins ==
  ASSUME NEW s, NEW K, NEW L, AreKnown(s, K), AreKnown(s, L),
         \A t \in K, u \in L : t[1] < u[1],
         NEW d, NEW e, Last(s, K, d), Last(s, L, e)
  PROVE  Last(s, K \cup L, TokenWins(d, e))
  <1>1. CASE L = {}
    <2>1. e = "UNSPECIFIED" BY Zenon, <1>1 DEF Last
    <2>2. TokenWins(d, e) = d BY <2>1 DEF TokenWins
    <2>3. K \cup L = K BY <1>1
    <2> QED BY Zenon, <2>2, <2>3
  <1>2. CASE L # {}
    <2>1. PICK t \in L : /\ \A u \in L : u[1] <= t[1]
                         /\ e = Meaning(Part(s, t[1], t[2]))
      BY Zenon, <1>2 DEF Last
    <2>2. Part(s, t[1], t[2]) \in Known BY Zenon DEF AreKnown
    <2>3. e \in {"CLOSE", "KEEPALIVE"} BY Zenon, <2>1, <2>2, KnownMeans
    <2>4. TokenWins(d, e) = e BY Zenon, <2>3 DEF TokenWins
    <2>5. ASSUME NEW u \in K PROVE u[1] <= t[1]
      <3>1. u[1] \in Nat /\ t[1] \in Nat BY DEF AreKnown
      <3>2. u[1] < t[1] OBVIOUS
      <3> QED BY <3>1, <3>2
    <2> QED BY Zenon, <2>1, <2>4, <2>5 DEF Last
  <1> QED BY Zenon, <1>1, <1>2

(* There is one answer. *)
LEMMA LastIsUnique ==
  ASSUME NEW s, NEW K, AreKnown(s, K), Apart(K),
         NEW d, NEW e, Last(s, K, d), Last(s, K, e)
  PROVE  d = e
  <1>1. CASE K = {} BY Zenon, <1>1 DEF Last
  <1>2. CASE K # {}
    <2>1. PICK t \in K : /\ \A u \in K : u[1] <= t[1]
                         /\ d = Meaning(Part(s, t[1], t[2]))
      BY Zenon, <1>2 DEF Last
    <2>2. PICK x \in K : /\ \A u \in K : u[1] <= x[1]
                         /\ e = Meaning(Part(s, x[1], x[2]))
      BY Zenon, <1>2 DEF Last
    <2>3. t[1] \in Nat /\ x[1] \in Nat BY DEF AreKnown
    <2>4. t[1] <= x[1] /\ x[1] <= t[1] BY Zenon, <2>1, <2>2
    <2>5. t[1] = x[1] BY <2>3, <2>4
    <2>6. t = x BY Zenon, <2>5 DEF Apart
    <2> QED BY Zenon, <2>1, <2>2, <2>6
  <1> QED BY Zenon, <1>1, <1>2

(* Tokens of a string of n bytes have a last one. *)
LEMMA LastExists ==
  ASSUME NEW s, NEW K, NEW n \in Nat, \A t \in K : t[1] \in 0 .. n
  PROVE  \E d : Last(s, K, d)
  <1>1. CASE K = {} BY Zenon, <1>1 DEF Last
  <1>2. CASE K # {}
    <2> DEFINE T == {t[1] : t \in K}
    <2>1. T \subseteq 0 .. n /\ T # {} BY <1>2
    <2>2. PICK m \in T : \A k \in T : k <= m BY Zenon, <2>1, GreatestNatural
    <2>3. PICK t \in K : m = t[1] OBVIOUS
    <2>4. \A u \in K : u[1] <= t[1] BY <2>2, <2>3
    <2> QED BY Zenon, <2>4 DEF Last
  <1> QED BY Zenon, <1>1, <1>2

-----------------------------------------------------------------------------
(* The loops of note_connection_header(). *)

Separators == {SP, HT, Comma}

(* while (class) cursor++: it stops. *)
LEMMA PastStops ==
  ASSUME NEW v \in Seq(Byte), NEW k \in 1 .. Len(v) + 1, NEW class
  PROVE  /\ Past(v, k, class) \in k .. Len(v) + 1
         /\ Past(v, k, class) <= Len(v) => v[Past(v, k, class)] \notin class
         /\ \A i \in k .. Past(v, k, class) - 1 : v[i] \in class
  <1> DEFINE T == {m \in k .. Len(v) + 1 : m <= Len(v) => v[m] \notin class}
  <1>1. Len(v) \in Nat OBVIOUS
  <1>2. T \subseteq Nat /\ Len(v) + 1 \in T BY <1>1
  <1>3. PICK n \in T : \A m \in T : n <= m BY Zenon, <1>2, LeastNatural
  <1>4. ASSUME NEW i \in k .. n - 1 PROVE v[i] \in class
    <2>1. i \in k .. Len(v) + 1 /\ i <= Len(v) /\ ~(n <= i) BY <1>1, <1>3
    <2> QED BY <1>3, <2>1
  <1>5. \E m \in k .. Len(v) + 1 : /\ m <= Len(v) => v[m] \notin class
                                   /\ \A i \in k .. m - 1 : v[i] \in class
    BY Zenon, <1>3, <1>4
  <1> QED BY Zenon, <1>5 DEF Past

(* while (tok_end > tok_start && blank) tok_end--: it stops at the last    *)
(* byte that is none, when the first is none.                              *)
LEMMA TrimmedStops ==
  ASSUME NEW v \in Seq(Byte), NEW a \in 1 .. Len(v), v[a] \notin Blank,
         NEW b \in a + 1 .. Len(v) + 1
  PROVE  \E z \in a .. b - 1 :
           /\ Trimmed(v, a, b) = Part(v, a, z)
           /\ v[z] \notin Blank /\ \A i \in z + 1 .. b - 1 : v[i] \in Blank
  <1> DEFINE T == {m \in a .. b - 1 : v[m] \notin Blank}
             Ends(m) == /\ a <= m => v[m] \notin {SP, HT}
                        /\ \A i \in m + 1 .. b - 1 : v[i] \in {SP, HT}
  <1>1. Len(v) \in Nat /\ a \in Nat /\ b \in Nat OBVIOUS
  <1>2. T \subseteq 0 .. b /\ a \in T BY <1>1
  <1>3. PICK n \in T : \A m \in T : m <= n BY Zenon, <1>1, <1>2, GreatestNatural
  <1>4. ASSUME NEW i \in n + 1 .. b - 1 PROVE v[i] \in {SP, HT}
    <2>1. i \in a .. b - 1 /\ ~(i <= n) BY <1>1, <1>3
    <2> QED BY <1>3, <2>1 DEF Blank
  <1>5. n \in a - 1 .. b - 1 BY <1>1, <1>3
  <1>6. \E m \in a - 1 .. b - 1 : Ends(m)
    BY Zenon, <1>3, <1>4, <1>5 DEF Blank
  <1> HIDE DEF Ends
  <1>7. PICK z : z = CHOOSE m \in a - 1 .. b - 1 : Ends(m) OBVIOUS
  <1>8. z \in a - 1 .. b - 1 /\ Ends(z) BY Zenon, <1>6, <1>7
  <1>9. Trimmed(v, a, b) = Part(v, a, z) BY Zenon, <1>7 DEF Trimmed, Ends, Part
  <1>10. z # a - 1
    <2>1. a \in (a - 1) + 1 .. b - 1 BY <1>1
    <2> QED BY Zenon, <1>8, <2>1 DEF Ends, Blank
  <1>11. z \in a .. b - 1 /\ a <= z BY <1>1, <1>8, <1>10
  <1> QED BY Zenon, <1>8, <1>9, <1>11 DEF Ends, Blank

-----------------------------------------------------------------------------
(* The pieces between commas. *)

(* A piece is known by where it begins. *)
LEMMA PieceEnds ==
  ASSUME NEW s, NEW k \in Int, NEW e \in Int, NEW a \in Int, NEW z \in Int,
         NEW y \in Int, a <= z, a <= y, IsPiece(s, k, e, a, z), IsPiece(s, k, e, a, y)
  PROVE  z = y
  <1>1. PICK l \in k .. a - 1, r \in z + 1 .. e + 1 :
          /\ r = e + 1 \/ s[r] = Comma
          /\ \A i \in l + 1 .. r - 1 : s[i] # Comma
          /\ All(s, z + 1, r - 1, Blank) /\ s[z] \notin Blank
    BY Zenon DEF IsPiece
  <1>2. PICK m \in k .. a - 1, x \in y + 1 .. e + 1 :
          /\ x = e + 1 \/ s[x] = Comma
          /\ \A i \in m + 1 .. x - 1 : s[i] # Comma
          /\ All(s, y + 1, x - 1, Blank) /\ s[y] \notin Blank
    BY Zenon DEF IsPiece
  <1>3. r = x
    <2>1. ~(r < x) BY <1>1, <1>2
    <2>2. ~(x < r) BY <1>1, <1>2
    <2> QED BY <1>1, <1>2, <2>1, <2>2
  <1>4. ~(z < y) BY <1>1, <1>2, <1>3 DEF All
  <1>5. ~(y < z) BY <1>1, <1>2, <1>3 DEF All
  <1> QED BY <1>4, <1>5

(* The known tokens of a value, and those from k on. *)
Tokens(v) ==
  {t \in (1 .. Len(v)) \X (1 .. Len(v)) :
     /\ t[1] <= t[2] /\ Part(v, t[1], t[2]) \in Known
     /\ IsPiece(v, 0, Len(v), t[1], t[2])}

From(v, k) == {t \in Tokens(v) : k <= t[1]}

(* They are known, no two begin together, and they lie in the value. *)
LEMMA TokensOf ==
  ASSUME NEW v \in Seq(Byte), NEW k
  PROVE  /\ AreKnown(v, From(v, k)) /\ Apart(From(v, k))
         /\ \A t \in From(v, k) : t[1] \in 0 .. Len(v)
  <1>1. Len(v) \in Nat OBVIOUS
  <1>2. AreKnown(v, From(v, k)) BY <1>1 DEF AreKnown, From, Tokens
  <1>3. ASSUME NEW t \in From(v, k), NEW u \in From(v, k), t[1] = u[1] PROVE t = u
    <2>1. PICK a, z \in 1 .. Len(v) : t = <<a, z>> BY DEF From, Tokens
    <2>2. PICK b, y \in 1 .. Len(v) : u = <<b, y>> BY DEF From, Tokens
    <2>3. a = b BY <1>3, <2>1, <2>2
    <2>4. a <= z /\ a <= y BY <2>1, <2>2, <2>3 DEF From, Tokens
    <2>5. IsPiece(v, 0, Len(v), t[1], t[2]) /\ IsPiece(v, 0, Len(v), u[1], u[2])
      BY Zenon DEF From, Tokens
    <2>6. IsPiece(v, 0, Len(v), a, z) /\ IsPiece(v, 0, Len(v), a, y)
      <3>1. t[1] = a /\ t[2] = z /\ u[1] = a /\ u[2] = y BY <2>1, <2>2, <2>3
      <3> QED BY Zenon, <2>5, <3>1
    <2>7. /\ 0 \in Int /\ Len(v) \in Int /\ a \in Int /\ z \in Int /\ y \in Int
      BY <1>1
    <2>8. z = y BY Zenon, <2>4, <2>6, <2>7, PieceEnds
    <2> QED BY Zenon, <2>1, <2>2, <2>3, <2>8
  <1>4. \A t \in From(v, k) : t[1] \in 0 .. Len(v) BY <1>1 DEF From, Tokens
  <1> QED BY Zenon, <1>2, <1>3, <1>4 DEF Apart

-----------------------------------------------------------------------------
(* The scan finds the pieces, one after the other. *)

(* One turn of the outer loop at k: the token it finds, the comma or the   *)
(* NUL it stops at, and what is said when the rest says d.                 *)
TokenAt(v, k) == Past(v, k, Separators)
CommaAt(v, k) == Past(v, TokenAt(v, k), Byte \ {Comma})
Turn(v, k, d) ==
  IF TokenAt(v, k) > Len(v) THEN "UNSPECIFIED"
  ELSE TokenWins(Meaning(Trimmed(v, TokenAt(v, k), CommaAt(v, k))), d)

(* Where a turn may begin. *)
AtBreak(v, k) == k = 1 \/ k = Len(v) + 1 \/ v[k] = Comma

(* The token of a turn begins after separators and ends before a comma.    *)
LEMMA TurnGoesOn ==
  ASSUME NEW v \in Seq(Byte), NEW k \in 1 .. Len(v) + 1, TokenAt(v, k) <= Len(v)
  PROVE  /\ TokenAt(v, k) \in k .. Len(v) /\ v[TokenAt(v, k)] \notin Separators
         /\ \A i \in k .. TokenAt(v, k) - 1 : v[i] \in Separators
         /\ CommaAt(v, k) \in TokenAt(v, k) + 1 .. Len(v) + 1
         /\ CommaAt(v, k) = Len(v) + 1 \/ v[CommaAt(v, k)] = Comma
         /\ \A i \in TokenAt(v, k) .. CommaAt(v, k) - 1 : v[i] # Comma
  <1>1. PICK a : a = TokenAt(v, k) OBVIOUS
  <1>2. PICK b : b = CommaAt(v, k) OBVIOUS
  <1>3. Len(v) \in Nat /\ \A i \in 1 .. Len(v) : v[i] \in Byte OBVIOUS
  <1>4. /\ a \in k .. Len(v) + 1
        /\ a <= Len(v) => v[a] \notin Separators
        /\ \A i \in k .. a - 1 : v[i] \in Separators
    BY Zenon, <1>1, PastStops DEF TokenAt
  <1>5. a \in k .. Len(v) /\ a \in 1 .. Len(v) + 1 BY <1>1, <1>3, <1>4
  <1>6. /\ b \in a .. Len(v) + 1
        /\ b <= Len(v) => v[b] \notin Byte \ {Comma}
        /\ \A i \in a .. b - 1 : v[i] \in Byte \ {Comma}
    BY Zenon, <1>1, <1>2, <1>5, PastStops DEF CommaAt
  <1>7. b = Len(v) + 1 \/ v[b] = Comma BY <1>3, <1>5, <1>6
  <1>8. v[a] # Comma BY <1>4, <1>5 DEF Separators
  <1>9. b # a BY <1>3, <1>5, <1>7, <1>8
  <1>10. b \in a + 1 .. Len(v) + 1 BY <1>3, <1>5, <1>6, <1>9
  <1> QED BY Zenon, <1>1, <1>2, <1>4, <1>5, <1>6, <1>7, <1>10

(* That token, trimmed, is a piece. *)
LEMMA TurnFindsPiece ==
  ASSUME NEW v \in Seq(Byte), NEW k \in 1 .. Len(v) + 1, AtBreak(v, k),
         TokenAt(v, k) <= Len(v),
         NEW z \in TokenAt(v, k) .. CommaAt(v, k) - 1, v[z] \notin Blank,
         \A i \in z + 1 .. CommaAt(v, k) - 1 : v[i] \in Blank
  PROVE  IsPiece(v, 0, Len(v), TokenAt(v, k), z)
  <1>1. PICK a : a = TokenAt(v, k) OBVIOUS
  <1>2. PICK b : b = CommaAt(v, k) OBVIOUS
  <1>3. /\ a \in k .. Len(v) /\ v[a] \notin Separators
        /\ \A i \in k .. a - 1 : v[i] \in Separators
        /\ b \in a + 1 .. Len(v) + 1
        /\ b = Len(v) + 1 \/ v[b] = Comma
        /\ \A i \in a .. b - 1 : v[i] # Comma
    BY Zenon, <1>1, <1>2, TurnGoesOn
  <1>4. Len(v) \in Nat /\ a \in Nat /\ b \in Nat /\ k \in Nat /\ 1 <= k BY <1>3
  <1> DEFINE T == {j \in 0 .. a - 1 : j = 0 \/ v[j] = Comma}
  <1>5. T \subseteq 0 .. a /\ 0 \in T BY <1>3, <1>4
  <1>6. PICK l \in T : \A j \in T : j <= l BY Zenon, <1>4, <1>5, GreatestNatural
  <1>7. k - 1 <= l
    <2>1. CASE k = 1 BY <1>6, <2>1
    <2>2. CASE k # 1
      <3>1. v[k] = Comma BY <1>3, <1>4, <2>2 DEF AtBreak
      <3>2. k # a BY <1>3, <3>1 DEF Separators
      <3>3. k \in T BY <1>3, <1>4, <3>1, <3>2
      <3> QED BY <1>4, <1>6, <3>3
    <2> QED BY <2>1, <2>2
  <1>8. ASSUME NEW i \in l + 1 .. a - 1 PROVE v[i] \in Blank /\ v[i] # Comma
    <2>1. i \in k .. a - 1 /\ i \in 0 .. a - 1 /\ ~(i <= l) BY <1>4, <1>6, <1>7
    <2>2. v[i] \in Separators /\ i \notin T BY <1>3, <1>6, <2>1
    <2>3. v[i] # Comma BY <2>1, <2>2
    <2> QED BY <2>2, <2>3 DEF Separators, Blank
  <1>9. l \in 0 .. a - 1 /\ b \in z + 1 .. Len(v) + 1 BY <1>2, <1>3, <1>4, <1>6
  <1>10. \A i \in l + 1 .. b - 1 : v[i] # Comma BY <1>3, <1>4, <1>8, <1>9
  <1>11. v[a] \notin Blank BY <1>3 DEF Separators, Blank
  <1>12. l = 0 \/ v[l] = Comma BY <1>6
  <1> QED BY Zenon, <1>1, <1>2, <1>3, <1>8, <1>9, <1>10, <1>11, <1>12 DEF IsPiece, All

(* And no token begins in it, or in the separators before it. *)
LEMMA TurnMissesNone ==
  ASSUME NEW v \in Seq(Byte), NEW k \in 1 .. Len(v) + 1, NEW t \in From(v, k)
  PROVE  /\ TokenAt(v, k) <= Len(v)
         /\ t[1] = TokenAt(v, k) \/ CommaAt(v, k) <= t[1]
  <1>1. PICK x, y \in 1 .. Len(v) : t = <<x, y>> BY DEF From, Tokens
  <1>2. Len(v) \in Nat /\ k <= x /\ x <= y /\ IsPiece(v, 0, Len(v), x, y)
    BY <1>1 DEF From, Tokens
  <1>3. PICK l \in 0 .. x - 1, r \in y + 1 .. Len(v) + 1 :
          /\ l = 0 \/ v[l] = Comma
          /\ \A i \in l + 1 .. r - 1 : v[i] # Comma
          /\ All(v, l + 1, x - 1, Blank) /\ v[x] \notin Blank
    BY Zenon, <1>2 DEF IsPiece
  <1>4. v[x] \notin Separators BY <1>2, <1>3 DEF Separators, Blank
  <1>5. PICK a : a = TokenAt(v, k) OBVIOUS
  <1>6. /\ a \in k .. Len(v) + 1 /\ \A i \in k .. a - 1 : v[i] \in Separators
    BY Zenon, <1>5, PastStops DEF TokenAt
  <1>7. a <= x BY <1>2, <1>4, <1>6
  <1>8. a <= Len(v) BY <1>2, <1>6, <1>7
  <1>9. PICK b : b = CommaAt(v, k) OBVIOUS
  <1>10. /\ a \in k .. Len(v) /\ v[a] \notin Separators
         /\ b \in a + 1 .. Len(v) + 1 /\ \A i \in a .. b - 1 : v[i] # Comma
    BY Zenon, <1>5, <1>8, <1>9, TurnGoesOn
  <1>11. ASSUME a < x, x < b PROVE FALSE
    <2>1. v[a] \notin Blank BY <1>10 DEF Separators, Blank
    <2>2. ~(l < a) BY <1>3, <1>10, <1>11, <2>1 DEF All
    <2>3. l \in a .. b - 1 /\ l # 0 BY <1>2, <1>3, <1>10, <1>11, <2>2
    <2> QED BY <1>3, <1>10, <2>3
  <1>12. x = a \/ b <= x BY <1>2, <1>7, <1>10, <1>11
  <1>13. t[1] = x BY <1>1
  <1> QED BY Zenon, <1>5, <1>8, <1>9, <1>12, <1>13

(* So a turn adds the token it finds to what the rest of the value says. *)
LEMMA TurnIsRight ==
  ASSUME NEW v \in Seq(Byte), NEW k \in 1 .. Len(v) + 1, AtBreak(v, k), NEW d,
         TokenAt(v, k) <= Len(v) => Last(v, From(v, CommaAt(v, k)), d)
  PROVE  Last(v, From(v, k), Turn(v, k, d))
  <1>0. Len(v) \in Nat /\ TokenAt(v, k) \in Int
    <2>1. TokenAt(v, k) \in k .. Len(v) + 1 BY Zenon, PastStops DEF TokenAt
    <2> QED BY <2>1
  <1>1. CASE TokenAt(v, k) > Len(v)
    <2>1. ~(TokenAt(v, k) <= Len(v)) BY <1>0, <1>1
    <2>2. From(v, k) = {} BY Zenon, <2>1, TurnMissesNone
    <2> QED BY Zenon, <1>1, <2>2 DEF Turn, Last
  <1>2. CASE TokenAt(v, k) <= Len(v)
    <2>1. PICK a : a = TokenAt(v, k) OBVIOUS
    <2>2. PICK b : b = CommaAt(v, k) OBVIOUS
    <2>3. a \in k .. Len(v) /\ v[a] \notin Separators /\ b \in a + 1 .. Len(v) + 1
      BY Zenon, <1>2, <2>1, <2>2, TurnGoesOn
    <2>4. a \in 1 .. Len(v) /\ v[a] \notin Blank BY <1>0, <2>3 DEF Separators, Blank
    <2>5. PICK z \in a .. b - 1 :
            /\ Trimmed(v, a, b) = Part(v, a, z)
            /\ v[z] \notin Blank /\ \A i \in z + 1 .. b - 1 : v[i] \in Blank
      BY Zenon, <2>3, <2>4, TrimmedStops
    <2>6. IsPiece(v, 0, Len(v), a, z)
      BY Zenon, <1>2, <2>1, <2>2, <2>5, TurnFindsPiece
    <2>7. z \in 1 .. Len(v) /\ a <= z /\ a < b /\ k <= a /\ a \in Nat /\ b \in Nat
      BY <1>0, <2>3, <2>5
    <2> DEFINE K == {t \in {<<a, z>>} : Part(v, a, z) \in Known}
               L == From(v, b)
    <2>8. K \subseteq From(v, k)
      BY <2>4, <2>6, <2>7 DEF From, Tokens
    <2>9. L \subseteq From(v, k)
      <3> SUFFICES ASSUME NEW t \in L PROVE t \in From(v, k) OBVIOUS
      <3>1. t \in Tokens(v) /\ b <= t[1] /\ t[1] \in 1 .. Len(v) BY DEF From, Tokens
      <3>2. k <= t[1] BY <2>7, <3>1
      <3> QED BY Zenon, <3>1, <3>2 DEF From
    <2>10. ASSUME NEW t \in From(v, k) PROVE t \in K \cup L
      <3>1. t[1] = a \/ b <= t[1] BY Zenon, <2>1, <2>2, TurnMissesNone
      <3>2. CASE b <= t[1] BY Zenon, <3>2 DEF From
      <3>3. CASE t[1] = a
        <4>1. PICK x, y \in 1 .. Len(v) : t = <<x, y>> BY DEF From, Tokens
        <4>2. /\ x = a /\ a <= y /\ Part(v, a, y) \in Known
              /\ IsPiece(v, 0, Len(v), a, y)
          BY <3>3, <4>1 DEF From, Tokens
        <4>3. /\ 0 \in Int /\ Len(v) \in Int /\ a \in Int /\ z \in Int /\ y \in Int
          BY <1>0, <2>7
        <4>4. y = z BY Zenon, <2>6, <2>7, <4>2, <4>3, PieceEnds
        <4> QED BY Zenon, <4>1, <4>2, <4>4
      <3> QED BY Zenon, <3>1, <3>2, <3>3
    <2>11. From(v, k) = K \cup L BY Zenon, <2>8, <2>9, <2>10
    <2>12. AreKnown(v, K) BY <2>7 DEF AreKnown
    <2>13. AreKnown(v, L) BY Zenon, TokensOf
    <2>14. \A t \in K, u \in L : t[1] < u[1]
      BY <2>7 DEF From, Tokens
    <2>15. Last(v, K, Meaning(Part(v, a, z)))
      <3>1. CASE Part(v, a, z) \in Known
        <4>1. <<a, z>> \in K /\ <<a, z>>[1] = a /\ <<a, z>>[2] = z BY <3>1
        <4>2. \A u \in K : u[1] <= <<a, z>>[1] BY <2>7
        <4> QED BY Zenon, <4>1, <4>2 DEF Last
      <3>2. CASE Part(v, a, z) \notin Known
        <4>1. K = {} BY <3>2
        <4>2. Meaning(Part(v, a, z)) = "UNSPECIFIED"
          BY <3>2 DEF Meaning, Known
        <4> QED BY Zenon, <4>1, <4>2 DEF Last
      <3> QED BY Zenon, <3>1, <3>2
    <2>16. Last(v, L, d) BY Zenon, <1>2, <2>2
    <2> HIDE DEF K, L
    <2>17. PICK m : m = Meaning(Part(v, a, z)) OBVIOUS
    <2>18. Last(v, K, m) BY Zenon, <2>15, <2>17
    <2>19. Last(v, K \cup L, TokenWins(m, d))
      BY Zenon, <2>12, <2>13, <2>14, <2>16, <2>18, LaterWins
    <2>20. ~(TokenAt(v, k) > Len(v)) BY <1>0, <1>2
    <2>21. Turn(v, k, d) = TokenWins(m, d)
      BY Zenon, <2>1, <2>2, <2>5, <2>17, <2>20 DEF Turn
    <2> QED BY Zenon, <2>11, <2>19, <2>21
  <1>3. TokenAt(v, k) > Len(v) \/ TokenAt(v, k) <= Len(v) BY <1>0
  <1> QED BY Zenon, <1>1, <1>2, <1>3

(* f is what the loop computes from every position. *)
IsScan(v, f) == f = [k \in 1 .. Len(v) + 1 |-> Turn(v, k, f[CommaAt(v, k)])]

(* The scan is defined by its recursion. *)
LEMMA ScanDef ==
  ASSUME NEW v
  PROVE  Scan(v) = CHOOSE f : IsScan(v, f)
  BY Zenon DEF Scan, IsScan, Turn, TokenAt, CommaAt, Separators

(* The recursion has a solution: what the rest says, at a break, is what   *)
(* the last of the tokens from there on says.                              *)
LEMMA ScanExists ==
  ASSUME NEW v \in Seq(Byte)
  PROVE  \E f : IsScan(v, f)
  <1> DEFINE R(k) == CHOOSE d : Last(v, From(v, k), d)
             f == [k \in 1 .. Len(v) + 1 |-> Turn(v, k, R(CommaAt(v, k)))]
  <1>0. Len(v) \in Nat OBVIOUS
  <1>1. \A k : Last(v, From(v, k), R(k))
    BY Zenon, <1>0, TokensOf, LastExists
  <1> HIDE DEF R
  <1>2. ASSUME NEW k \in 1 .. Len(v) + 1
        PROVE  Turn(v, k, R(CommaAt(v, k))) = Turn(v, k, f[CommaAt(v, k)])
    <2>1. CASE TokenAt(v, k) > Len(v) BY Zenon, <2>1 DEF Turn
    <2>2. CASE ~(TokenAt(v, k) > Len(v))
      <3>0. TokenAt(v, k) <= Len(v)
        <4>1. TokenAt(v, k) \in k .. Len(v) + 1 BY Zenon, PastStops DEF TokenAt
        <4> QED BY <1>0, <2>2, <4>1
      <3>1. PICK b : b = CommaAt(v, k) OBVIOUS
      <3>2. /\ TokenAt(v, k) \in k .. Len(v)
            /\ b \in TokenAt(v, k) + 1 .. Len(v) + 1
            /\ b = Len(v) + 1 \/ v[b] = Comma
        BY Zenon, <3>0, <3>1, TurnGoesOn
      <3>3. b \in 1 .. Len(v) + 1 BY <1>0, <3>2
      <3>4. AtBreak(v, b) BY Zenon, <3>2 DEF AtBreak
      <3>5. f[b] = Turn(v, b, R(CommaAt(v, b))) BY Zenon, <3>3
      <3> HIDE DEF f
      <3>6. Last(v, From(v, b), f[b]) BY Zenon, <1>1, <3>3, <3>4, <3>5, TurnIsRight
      <3>7. f[b] = R(b) BY Zenon, <1>1, <3>6, TokensOf, LastIsUnique
      <3> QED BY Zenon, <3>1, <3>7
    <2> QED BY Zenon, <2>1, <2>2
  <1>3. IsScan(v, f) BY Zenon, <1>2 DEF IsScan
  <1> QED BY Zenon, <1>3

(* The scan of a value from a break on finds the last of its known tokens: *)
(* the outer loop of note_connection_header().                             *)
LEMMA ScanFindsLast ==
  ASSUME NEW v \in Seq(Byte), NEW n \in 1 .. Len(v) + 1, AtBreak(v, n)
  PROVE  Last(v, From(v, n), Scan(v)[n])
  <1> DEFINE T == {k \in 1 .. Len(v) + 1 :
                     AtBreak(v, k) /\ ~Last(v, From(v, k), Scan(v)[k])}
  <1>0. Len(v) \in Nat /\ Len(v) + 1 \in Nat OBVIOUS
  <1>1. IsScan(v, Scan(v)) BY Zenon, ScanDef, ScanExists
  <1>2. ASSUME T # {} PROVE FALSE
    <2>1. T \subseteq 0 .. Len(v) + 1 BY <1>0
    <2>2. PICK k \in T : \A j \in T : j <= k
      BY Zenon, <1>0, <1>2, <2>1, GreatestNatural
    <2>3. /\ k \in 1 .. Len(v) + 1 /\ AtBreak(v, k)
          /\ ~Last(v, From(v, k), Scan(v)[k])
      BY Zenon, <2>2
    <2>4. Scan(v)[k] = Turn(v, k, Scan(v)[CommaAt(v, k)])
      BY Zenon, <1>1, <2>3 DEF IsScan
    <2>5. ASSUME TokenAt(v, k) <= Len(v)
          PROVE  Last(v, From(v, CommaAt(v, k)), Scan(v)[CommaAt(v, k)])
      <3>1. PICK b : b = CommaAt(v, k) OBVIOUS
      <3>2. /\ TokenAt(v, k) \in k .. Len(v)
            /\ b \in TokenAt(v, k) + 1 .. Len(v) + 1
            /\ b = Len(v) + 1 \/ v[b] = Comma
        BY Zenon, <2>3, <2>5, <3>1, TurnGoesOn
      <3>3. b \in 1 .. Len(v) + 1 /\ ~(b <= k) BY <1>0, <2>3, <3>2
      <3>4. AtBreak(v, b) BY Zenon, <3>2 DEF AtBreak
      <3>5. b \notin T BY Zenon, <2>2, <3>3
      <3> QED BY Zenon, <3>1, <3>3, <3>4, <3>5
    <2> QED BY Zenon, <2>3, <2>4, <2>5, TurnIsRight
  <1> QED BY Zenon, <1>2

-----------------------------------------------------------------------------
(* The Connection tokens of the lines of a request. *)

Plain(s, b, e) == \A i \in b .. e : s[i] \notin {CR, LF}

(* The bytes from m to n of s are those of r, o places further on. *)
Shifted(s, r, m, n, o) ==
  /\ m \in Int /\ n \in Int /\ o \in Int
  /\ 1 <= m /\ n <= Len(s) /\ 1 <= m + o /\ n + o <= Len(r)
  /\ \A i \in m .. n : s[i] = r[i + o]

SameText(s, r, m, n, o) == Part(s, m, n) = Part(r, m + o, n + o)

(* What is between two positions. *)
IsPart(x, s, m, n) ==
  /\ x \in Seq(Byte) /\ Len(x) = IF m <= n THEN n - m + 1 ELSE 0
  /\ \A i \in 1 .. n - m + 1 : x[i] = s[m + i - 1]

(* SubSeq has it. *)
LEMMA PartIs ==
  ASSUME NEW s \in Seq(Byte), NEW m \in Int, NEW n \in Int, 1 <= m, n <= Len(s)
  PROVE  IsPart(SubSeq(s, m, n), s, m, n)
  <1>1. SubSeq(s, m, n) \in Seq(Byte) OBVIOUS
  <1>2. Len(SubSeq(s, m, n)) = IF m <= n THEN n - m + 1 ELSE 0 OBVIOUS
  <1>3. \A i \in 1 .. n - m + 1 : SubSeq(s, m, n)[i] = s[m + i - 1] OBVIOUS
  <1> QED BY Zenon, <1>1, <1>2, <1>3 DEF IsPart

(* Then they spell the same. *)
LEMMA SameSpelling ==
  ASSUME NEW s \in Seq(Byte), NEW r \in Seq(Byte), NEW m, NEW n, NEW o,
         Shifted(s, r, m, n, o)
  PROVE  SameText(s, r, m, n, o)
  <1>1. /\ m \in Int /\ n \in Int /\ o \in Int /\ Len(s) \in Nat /\ Len(r) \in Nat
        /\ 1 <= m /\ n <= Len(s) /\ 1 <= m + o /\ n + o <= Len(r)
        /\ \A i \in m .. n : s[i] = r[i + o]
    BY DEF Shifted
  <1> DEFINE x == SubSeq(s, m, n)
             y == SubSeq(r, m + o, n + o)
  <1>2. /\ x \in Seq(Byte) /\ Len(x) = IF m <= n THEN n - m + 1 ELSE 0
        /\ \A i \in 1 .. n - m + 1 : x[i] = s[m + i - 1]
    <2>1. IsPart(x, s, m, n) BY Zenon, <1>1, PartIs
    <2> QED BY Zenon, <2>1 DEF IsPart
  <1>3. /\ y \in Seq(Byte) /\ Len(y) = IF m <= n THEN n - m + 1 ELSE 0
        /\ \A i \in 1 .. n - m + 1 : y[i] = r[m + o + i - 1]
    <2>1. PICK a, b : a = m + o /\ b = n + o BY Zenon
    <2>2. /\ a \in Int /\ b \in Int /\ 1 <= a /\ b <= Len(r)
          /\ (a <= b <=> m <= n) /\ b - a + 1 = n - m + 1
      BY <1>1, <2>1
    <2>3. IsPart(SubSeq(r, a, b), r, a, b) BY Zenon, <2>2, PartIs
    <2>4. IsPart(y, r, a, b) BY Zenon, <2>1, <2>3
    <2> HIDE DEF y
    <2>5. /\ y \in Seq(Byte) /\ Len(y) = IF a <= b THEN b - a + 1 ELSE 0
          /\ \A i \in 1 .. b - a + 1 : y[i] = r[a + i - 1]
      BY Zenon, <2>4 DEF IsPart
    <2>6. (IF a <= b THEN b - a + 1 ELSE 0) = IF m <= n THEN n - m + 1 ELSE 0
      BY Zenon, <2>2
    <2> QED BY Zenon, <2>1, <2>2, <2>5, <2>6
  <1>4. ASSUME NEW i \in 1 .. n - m + 1 PROVE s[m + i - 1] = r[m + o + i - 1]
    <2>1. m + i - 1 \in m .. n /\ (m + i - 1) + o = m + o + i - 1 BY <1>1
    <2> QED BY <1>1, <2>1
  <1> HIDE DEF x, y
  <1>5. Len(x) = Len(y) /\ \A i \in 1 .. Len(x) : x[i] = y[i]
    BY <1>1, <1>2, <1>3, <1>4
  <1>6. x = y BY <1>2, <1>3, <1>5
  <1> QED BY Zenon, <1>6 DEF x, y, Part, SameText

(* [x, y] is a known token of the Connection line [b, e] with its colon at *)
(* k.                                                                      *)
TokenIn(s, x, y, b, k, e) ==
  /\ x \in Nat /\ y \in Nat /\ b \in Nat /\ k \in Nat /\ e \in Nat
  /\ 2 <= b /\ b <= k /\ k < x /\ x <= y /\ y <= e /\ e < Len(s)
  /\ s[b - 1] = LF /\ s[e + 1] = CR /\ Plain(s, b, e)
  /\ s[k] = Colon /\ \A i \in b .. k - 1 : s[i] # Colon
  /\ Part(s, b, k - 1) \in ConnectionNames
  /\ Part(s, x, y) \in Known
  /\ IsPiece(s, k, e, x, y)

(* A known token is in a line. *)
LEMMA TokenHasLine ==
  ASSUME NEW s \in Seq(Byte), NEW t \in KnownTokens(s)
  PROVE  \E x, y, b, k, e : t = <<x, y>> /\ TokenIn(s, x, y, b, k, e)
  <1>1. PICK x, y \in 1 .. Len(s) : t = <<x, y>> BY DEF KnownTokens
  <1>2. /\ t[1] <= t[2] /\ Part(s, t[1], t[2]) \in CloseTokens \cup KeepAliveTokens
        /\ \E v \in ConnectionValues(s) : IsPiece(s, v[1], v[2], t[1], t[2])
    BY Zenon DEF KnownTokens, Part
  <1>3. PICK v \in ConnectionValues(s) : IsPiece(s, v[1], v[2], t[1], t[2])
    BY Zenon, <1>2
  <1>4. PICK k, e \in 1 .. Len(s) - 1 : v = <<k, e>> BY DEF ConnectionValues
  <1>5. v[1] = k /\ v[2] = e /\ t[1] = x /\ t[2] = y BY <1>1, <1>4
  <1>6. /\ v[1] <= v[2] /\ s[v[1]] = Colon
        /\ \E b \in 2 .. v[1] :
             /\ IsLine(s, b, v[2]) /\ Colon \notin {s[i] : i \in b .. v[1] - 1}
             /\ Part(s, b, v[1] - 1) \in ConnectionNames
    BY Zenon DEF ConnectionValues, Part
  <1>7. PICK b \in 2 .. k :
          /\ IsLine(s, b, e) /\ Colon \notin {s[i] : i \in b .. k - 1}
          /\ Part(s, b, k - 1) \in ConnectionNames
    BY Zenon, <1>5, <1>6
  <1>8. IsPiece(s, k, e, x, y) /\ Part(s, x, y) \in Known
    BY Zenon, <1>2, <1>3, <1>5 DEF Known
  <1>9. (\E l \in k .. x - 1 : TRUE) /\ (\E r \in y + 1 .. e + 1 : TRUE)
    BY ZenonT(60), <1>8 DEF IsPiece
  <1>10. k < x /\ y <= e /\ x <= y /\ e < Len(s) /\ 2 <= b /\ b <= k
    BY <1>2, <1>4, <1>5, <1>7, <1>9
  <1>11. s[k] = Colon /\ \A i \in b .. k - 1 : s[i] # Colon BY Zenon, <1>5, <1>6, <1>7
  <1>12. s[b - 1] = LF /\ s[e + 1] = CR /\ Plain(s, b, e)
    <2>1. b # 1 OBVIOUS
    <2> QED BY Zenon, <1>7, <2>1 DEF IsLine, StartsLine, Plain
  <1>13. x \in Nat /\ y \in Nat /\ b \in Nat /\ k \in Nat /\ e \in Nat OBVIOUS
  <1>14. TokenIn(s, x, y, b, k, e)
    BY Zenon, <1>7, <1>8, <1>10, <1>11, <1>12, <1>13 DEF TokenIn
  <1> QED BY Zenon, <1>1, <1>14

(* And what is a known token of a line is one. *)
LEMMA LineHasToken ==
  ASSUME NEW s \in Seq(Byte), NEW x, NEW y, NEW b, NEW k, NEW e,
         TokenIn(s, x, y, b, k, e)
  PROVE  <<x, y>> \in KnownTokens(s)
  <1>1. /\ Len(s) \in Nat
        /\ x \in Nat /\ y \in Nat /\ b \in Nat /\ k \in Nat /\ e \in Nat
        /\ 2 <= b /\ b <= k /\ k < x /\ x <= y /\ y <= e /\ e < Len(s)
    BY DEF TokenIn
  <1>2. IsLine(s, b, e) BY Zenon DEF TokenIn, IsLine, StartsLine, Plain
  <1>3. /\ k \in 1 .. Len(s) - 1 /\ e \in 1 .. Len(s) - 1 /\ k <= e /\ b \in 2 .. k
        /\ x \in 1 .. Len(s) /\ y \in 1 .. Len(s)
    BY <1>1
  <1>4. PICK v : v = <<k, e>> BY Zenon
  <1>5. v \in (1 .. Len(s) - 1) \X (1 .. Len(s) - 1) /\ v[1] = k /\ v[2] = e
    BY <1>3, <1>4
  <1>6. Colon \notin {s[i] : i \in b .. k - 1} BY Zenon DEF TokenIn
  <1>7. s[k] = Colon /\ Part(s, b, k - 1) \in ConnectionNames BY Zenon DEF TokenIn
  <1>8. v \in ConnectionValues(s)
    BY Zenon, <1>2, <1>3, <1>5, <1>6, <1>7 DEF ConnectionValues, Part
  <1>9. PICK t : t = <<x, y>> BY Zenon
  <1>10. t \in (1 .. Len(s)) \X (1 .. Len(s)) /\ t[1] = x /\ t[2] = y BY <1>3, <1>9
  <1>11. x <= y /\ Part(s, x, y) \in CloseTokens \cup KeepAliveTokens
    BY Zenon DEF TokenIn, Known
  <1>12. IsPiece(s, v[1], v[2], t[1], t[2]) BY Zenon, <1>5, <1>10 DEF TokenIn
  <1>13. t \in KnownTokens(s)
    BY Zenon, <1>8, <1>10, <1>11, <1>12 DEF KnownTokens, Part
  <1> QED BY Zenon, <1>9, <1>13

(* A byte is in one line, a token begins in one place. *)
LEMMA OneLine ==
  ASSUME NEW s, NEW x, NEW y, NEW b, NEW k, NEW e, TokenIn(s, x, y, b, k, e),
         NEW z, NEW c, NEW j, NEW f, TokenIn(s, x, z, c, j, f)
  PROVE  y = z
  <1>1. /\ x \in Nat /\ y \in Nat /\ b \in Nat /\ k \in Nat /\ e \in Nat
        /\ b <= k /\ k < x /\ x <= y /\ y <= e
        /\ s[b - 1] = LF /\ s[e + 1] = CR /\ Plain(s, b, e)
        /\ s[k] = Colon /\ \A i \in b .. k - 1 : s[i] # Colon
    BY Zenon DEF TokenIn
  <1>2. /\ z \in Nat /\ c \in Nat /\ j \in Nat /\ f \in Nat
        /\ c <= j /\ j < x /\ x <= z /\ z <= f
        /\ s[c - 1] = LF /\ s[f + 1] = CR /\ Plain(s, c, f)
        /\ s[j] = Colon /\ \A i \in c .. j - 1 : s[i] # Colon
    BY Zenon DEF TokenIn
  <1>3. ~(b < c) BY <1>1, <1>2 DEF Plain
  <1>4. ~(c < b) BY <1>1, <1>2 DEF Plain
  <1>5. ~(e < f) BY <1>1, <1>2 DEF Plain
  <1>6. ~(f < e) BY <1>1, <1>2 DEF Plain
  <1>7. b = c /\ e = f BY <1>1, <1>2, <1>3, <1>4, <1>5, <1>6
  <1>8. ~(k < j) BY <1>1, <1>2, <1>7
  <1>9. ~(j < k) BY <1>1, <1>2, <1>7
  <1>10. k = j BY <1>1, <1>2, <1>8, <1>9
  <1>11. IsPiece(s, k, e, x, y) /\ IsPiece(s, k, e, x, z)
    BY Zenon, <1>7, <1>10 DEF TokenIn
  <1>12. k \in Int /\ e \in Int /\ x \in Int /\ y \in Int /\ z \in Int BY <1>1, <1>2
  <1> QED BY Zenon, <1>1, <1>2, <1>11, <1>12, PieceEnds

(* The tokens of the lines among the first h bytes, and what they say. *)
KnownUpTo(s, h) == {t \in KnownTokens(s) : t[2] <= h}
Noted(s, h, d) == Last(s, KnownUpTo(s, h), d)

(* They are known and no two begin together. *)
LEMMA KnownApart ==
  ASSUME NEW s \in Seq(Byte), NEW K \in SUBSET KnownTokens(s)
  PROVE  AreKnown(s, K) /\ Apart(K)
  <1>1. ASSUME NEW t \in K
        PROVE  t \in Nat \X Nat /\ Part(s, t[1], t[2]) \in Known
    <2>1. t \in KnownTokens(s) OBVIOUS
    <2>2. t \in (1 .. Len(s)) \X (1 .. Len(s)) BY Zenon, <2>1 DEF KnownTokens
    <2>3. Part(s, t[1], t[2]) \in Known BY Zenon, <2>1 DEF KnownTokens, Known, Part
    <2> QED BY <2>2, <2>3
  <1>2. ASSUME NEW t \in K, NEW u \in K, t[1] = u[1] PROVE t = u
    <2>1. t \in KnownTokens(s) /\ u \in KnownTokens(s) OBVIOUS
    <2>2. PICK x, y, b, k, e : t = <<x, y>> /\ TokenIn(s, x, y, b, k, e)
      BY Zenon, <2>1, TokenHasLine
    <2>3. PICK a, z, c, j, f : u = <<a, z>> /\ TokenIn(s, a, z, c, j, f)
      BY Zenon, <2>1, TokenHasLine
    <2>4. x = a BY <1>2, <2>2, <2>3
    <2>5. y = z BY Zenon, <2>2, <2>3, <2>4, OneLine
    <2> QED BY Zenon, <2>2, <2>3, <2>4, <2>5
  <1> QED BY Zenon, <1>1, <1>2 DEF AreKnown, Apart

(* The first h bytes of s and r are the same and end a line. *)
Agree(s, r, h) ==
  /\ s \in Seq(Byte) /\ r \in Seq(Byte)
  /\ h \in Nat /\ 1 <= h /\ h <= Len(s) /\ h <= Len(r) /\ s[h] = LF
  /\ \A i \in 1 .. h : s[i] = r[i]

(* Then a token of the one among them is a token of the other. *)
LEMMA TokenKept ==
  ASSUME NEW s, NEW r, NEW h, Agree(s, r, h),
         NEW x, NEW y, NEW b, NEW k, NEW e, TokenIn(s, x, y, b, k, e), y <= h
  PROVE  TokenIn(r, x, y, b, k, e)
  <1>1. /\ x \in Nat /\ y \in Nat /\ b \in Nat /\ k \in Nat /\ e \in Nat
        /\ 2 <= b /\ b <= k /\ k < x /\ x <= y /\ y <= e
        /\ s[b - 1] = LF /\ s[e + 1] = CR /\ Plain(s, b, e)
        /\ s[k] = Colon /\ \A i \in b .. k - 1 : s[i] # Colon
    BY Zenon DEF TokenIn
  <1>2. /\ s \in Seq(Byte) /\ r \in Seq(Byte) /\ Len(s) \in Nat /\ Len(r) \in Nat
        /\ h \in Nat /\ h <= Len(s) /\ h <= Len(r) /\ s[h] = LF
        /\ \A i \in 1 .. h : s[i] = r[i]
    BY DEF Agree
  <1>3. e < h
    <2>1. ~(h <= e) BY <1>1, <1>2 DEF Plain
    <2> QED BY <1>1, <1>2, <2>1
  <1>4. \A i \in b - 1 .. e + 1 : s[i] = r[i] BY <1>1, <1>2, <1>3
  <1>5. r[b - 1] = LF /\ r[e + 1] = CR /\ r[k] = Colon /\ e < Len(r)
    BY <1>1, <1>2, <1>3, <1>4
  <1>6. Plain(r, b, e) /\ \A i \in b .. k - 1 : r[i] # Colon
    BY <1>1, <1>4 DEF Plain
  <1>7. Shifted(s, r, b, k - 1, 0) /\ Shifted(s, r, x, y, 0)
    BY <1>1, <1>2, <1>3, <1>4 DEF Shifted
  <1>8. Part(r, b, k - 1) = Part(s, b, k - 1)
    <2>1. SameText(s, r, b, k - 1, 0) BY Zenon, <1>2, <1>7, SameSpelling
    <2>2. b + 0 = b /\ k - 1 + 0 = k - 1 BY <1>1
    <2> QED BY Zenon, <2>1, <2>2 DEF SameText
  <1>9. Part(r, x, y) = Part(s, x, y)
    <2>1. SameText(s, r, x, y, 0) BY Zenon, <1>2, <1>7, SameSpelling
    <2>2. x + 0 = x /\ y + 0 = y BY <1>1
    <2> QED BY Zenon, <2>1, <2>2 DEF SameText
  <1>10. IsPiece(r, k, e, x, y)
    <2>1. PICK l \in k .. x - 1, m \in y + 1 .. e + 1 :
            /\ l = k \/ s[l] = Comma
            /\ m = e + 1 \/ s[m] = Comma
            /\ \A i \in l + 1 .. m - 1 : s[i] # Comma
            /\ All(s, l + 1, x - 1, Blank) /\ All(s, y + 1, m - 1, Blank)
            /\ s[x] \notin Blank /\ s[y] \notin Blank
      BY Zenon DEF TokenIn, IsPiece
    <2>2. s[l] = r[l] /\ s[m] = r[m] /\ s[x] = r[x] /\ s[y] = r[y]
      BY <1>1, <1>4, <2>1
    <2>3. \A i \in l + 1 .. m - 1 : r[i] # Comma BY <1>1, <1>4, <2>1
    <2>4. All(r, l + 1, x - 1, Blank) /\ All(r, y + 1, m - 1, Blank)
      BY <1>1, <1>4, <2>1 DEF All
    <2> QED BY Zenon, <2>1, <2>2, <2>3, <2>4 DEF IsPiece
  <1> QED BY Zenon, <1>1, <1>5, <1>6, <1>8, <1>9, <1>10 DEF TokenIn

(* So what was noted stays right when more bytes come. *)
LEMMA NotedKept ==
  ASSUME NEW s, NEW r, NEW h, Agree(s, r, h), NEW d, Noted(s, h, d)
  PROVE  Noted(r, h, d)
  <1>1. Agree(r, s, h)
    <2>1. s[h] = r[h] /\ \A i \in 1 .. h : r[i] = s[i] BY DEF Agree
    <2> QED BY Zenon, <2>1 DEF Agree
  <1>2. s \in Seq(Byte) /\ r \in Seq(Byte) BY DEF Agree
  <1>3. ASSUME NEW a, NEW c, Agree(a, c, h), NEW t \in KnownUpTo(a, h)
        PROVE  t \in KnownUpTo(c, h) /\ Part(a, t[1], t[2]) = Part(c, t[1], t[2])
    <2>0. a \in Seq(Byte) /\ c \in Seq(Byte) BY Zenon, <1>3 DEF Agree
    <2>1. t \in KnownTokens(a) /\ t[2] <= h BY Zenon DEF KnownUpTo
    <2>2. PICK x, y, b, k, e : t = <<x, y>> /\ TokenIn(a, x, y, b, k, e)
      BY Zenon, <2>0, <2>1, TokenHasLine
    <2>3. t[1] = x /\ t[2] = y /\ y <= h BY <2>1, <2>2
    <2>4. TokenIn(c, x, y, b, k, e) BY Zenon, <1>3, <2>2, <2>3, TokenKept
    <2>5. t \in KnownTokens(c) BY Zenon, <2>0, <2>2, <2>4, LineHasToken
    <2>6. Shifted(a, c, x, y, 0)
      <3>1. /\ x \in Nat /\ y \in Nat /\ 2 <= b /\ b <= k /\ k < x /\ b \in Nat
            /\ k \in Nat
        BY Zenon, <2>2 DEF TokenIn
      <3>2. h \in Nat /\ h <= Len(a) /\ h <= Len(c) /\ \A i \in 1 .. h : a[i] = c[i]
        BY Zenon, <1>3 DEF Agree
      <3>3. Len(a) \in Nat /\ Len(c) \in Nat BY <2>0
      <3> QED BY <2>3, <3>1, <3>2, <3>3 DEF Shifted
    <2>7. Part(a, x, y) = Part(c, x, y)
      <3>1. SameText(a, c, x, y, 0) BY Zenon, <2>0, <2>6, SameSpelling
      <3>2. x + 0 = x /\ y + 0 = y BY <2>2 DEF TokenIn
      <3> QED BY Zenon, <3>1, <3>2 DEF SameText
    <2> QED BY Zenon, <2>1, <2>3, <2>5, <2>7 DEF KnownUpTo
  <1>4. KnownUpTo(s, h) = KnownUpTo(r, h)
    <2>1. \A t : t \in KnownUpTo(s, h) => t \in KnownUpTo(r, h) BY <1>3
    <2>2. \A t : t \in KnownUpTo(r, h) => t \in KnownUpTo(s, h) BY <1>1, <1>3
    <2> QED BY Zenon, <2>1, <2>2
  <1>5. CASE KnownUpTo(s, h) = {} BY Zenon, <1>4, <1>5 DEF Noted, Last
  <1>6. CASE KnownUpTo(s, h) # {}
    <2>1. PICK t \in KnownUpTo(s, h) : /\ \A u \in KnownUpTo(s, h) : u[1] <= t[1]
                                       /\ d = Meaning(Part(s, t[1], t[2]))
      BY Zenon, <1>6 DEF Noted, Last
    <2>2. \A u \in KnownUpTo(s, h) : Part(s, u[1], u[2]) = Part(r, u[1], u[2])
      BY <1>3
    <2>3. d = Meaning(Part(r, t[1], t[2])) BY Zenon, <2>1, <2>2
    <2> QED BY Zenon, <1>4, <2>1, <2>3 DEF Noted, Last
  <1> QED BY Zenon, <1>5, <1>6

-----------------------------------------------------------------------------
(* A header that has just ended. *)

(* The last line of r is the header [h + 1, e], its colon is at k and the  *)
(* value begins at w.                                                      *)
HeaderAt(r, h, k, w, e) ==
  /\ h \in Nat /\ k \in Nat /\ w \in Nat /\ e \in Nat
  /\ 1 <= h /\ h < k /\ k < w /\ k <= e /\ w <= e + 1 /\ Len(r) = e + 2
  /\ r[h] = LF /\ r[e + 1] = CR /\ Plain(r, h + 1, e)
  /\ r[k] = Colon /\ \A i \in h + 1 .. k - 1 : r[i] # Colon
  /\ \A i \in k + 1 .. w - 1 : r[i] \in Blank

(* A token after h is in that line. *)
LEMMA InLastLine ==
  ASSUME NEW r, NEW h, NEW k, NEW w, NEW e, HeaderAt(r, h, k, w, e),
         NEW x, NEW y, NEW b, NEW j, NEW f, TokenIn(r, x, y, b, j, f), h < x
  PROVE  b = h + 1 /\ j = k /\ f = e
  <1>1. /\ h \in Nat /\ k \in Nat /\ e \in Nat /\ h < k /\ k <= e /\ Len(r) = e + 2
        /\ r[h] = LF /\ r[e + 1] = CR /\ Plain(r, h + 1, e)
        /\ r[k] = Colon /\ \A i \in h + 1 .. k - 1 : r[i] # Colon
    BY Zenon DEF HeaderAt
  <1>2. /\ x \in Nat /\ y \in Nat /\ b \in Nat /\ j \in Nat /\ f \in Nat
        /\ 2 <= b /\ b <= j /\ j < x /\ x <= y /\ y <= f /\ f < Len(r)
        /\ r[b - 1] = LF /\ r[f + 1] = CR /\ Plain(r, b, f)
        /\ r[j] = Colon /\ \A i \in b .. j - 1 : r[i] # Colon
    BY Zenon DEF TokenIn
  <1>3. ~(h + 1 < b) BY <1>1, <1>2 DEF Plain
  <1>4. ~(b < h + 1) BY <1>1, <1>2 DEF Plain
  <1>5. b = h + 1 BY <1>1, <1>2, <1>3, <1>4
  <1>6. ~(f < e) BY <1>1, <1>2, <1>5 DEF Plain
  <1>7. ~(e < f) BY <1>1, <1>2, <1>5 DEF Plain
  <1>8. f = e BY <1>1, <1>2, <1>6, <1>7
  <1>9. ~(j < k) BY <1>1, <1>2, <1>5
  <1>10. ~(k < j) BY <1>1, <1>2, <1>5
  <1> QED BY <1>1, <1>2, <1>5, <1>8, <1>9, <1>10

(* v is the value of that header. *)
ValueOf(v, r, w, e) ==
  /\ v \in Seq(Byte) /\ Len(v) = e - w + 1
  /\ \A i \in 1 .. e - w + 1 : v[i] = r[w - 1 + i]

(* A piece of the value is one of the line. *)
LEMMA PieceOut ==
  ASSUME NEW r, NEW h, NEW k, NEW w, NEW e, HeaderAt(r, h, k, w, e),
         NEW v, ValueOf(v, r, w, e), NEW a \in Nat, NEW z \in Nat,
         1 <= a, a <= z, IsPiece(v, 0, Len(v), a, z)
  PROVE  IsPiece(r, k, e, a + w - 1, z + w - 1) /\ z + w - 1 <= e
  <1>1. /\ k \in Nat /\ w \in Nat /\ e \in Nat /\ k < w /\ w <= e + 1
        /\ \A i \in k + 1 .. w - 1 : r[i] \in Blank
    BY Zenon DEF HeaderAt
  <1>2. Len(v) = e - w + 1 /\ \A i \in 1 .. e - w + 1 : v[i] = r[w - 1 + i]
    BY Zenon DEF ValueOf
  <1>3. PICK l \in 0 .. a - 1, m \in z + 1 .. Len(v) + 1 :
          /\ l = 0 \/ v[l] = Comma
          /\ m = Len(v) + 1 \/ v[m] = Comma
          /\ \A i \in l + 1 .. m - 1 : v[i] # Comma
          /\ All(v, l + 1, a - 1, Blank) /\ All(v, z + 1, m - 1, Blank)
          /\ v[a] \notin Blank /\ v[z] \notin Blank
    BY ZenonT(60) DEF IsPiece
  <1>4. ASSUME NEW i \in w .. e
        PROVE  r[i] = v[i - w + 1]
    <2>1. i - w + 1 \in 1 .. e - w + 1 /\ w - 1 + (i - w + 1) = i BY <1>1
    <2> QED BY <1>2, <2>1
  <1>5. PICK n : n = IF l = 0 THEN k ELSE l + w - 1 OBVIOUS
  <1>6. PICK q : q = m + w - 1 OBVIOUS
  <1>7. /\ n \in k .. (a + w - 1) - 1 /\ q \in (z + w - 1) + 1 .. e + 1
        /\ n \in Int /\ q \in Int /\ l \in Int /\ m \in Int /\ z + w - 1 <= e
    BY <1>1, <1>2, <1>3, <1>5, <1>6
  <1>8. n = k \/ r[n] = Comma
    <2>1. CASE l = 0 BY <1>5, <2>1
    <2>2. CASE l # 0
      <3>1. n = l + w - 1 /\ n \in w .. e /\ n - w + 1 = l BY <1>1, <1>2, <1>3, <1>5, <2>2
      <3> QED BY <1>3, <1>4, <2>2, <3>1
    <2> QED BY <2>1, <2>2
  <1>9. q = e + 1 \/ r[q] = Comma
    <2>1. CASE m = Len(v) + 1 BY <1>1, <1>2, <1>6, <2>1
    <2>2. CASE m # Len(v) + 1
      <3>1. q \in w .. e /\ q - w + 1 = m BY <1>1, <1>2, <1>3, <1>6, <2>2
      <3> QED BY <1>3, <1>4, <2>2, <3>1
    <2> QED BY <2>1, <2>2
  <1>10. ASSUME NEW i \in n + 1 .. q - 1
         PROVE  \/ i \in k + 1 .. w - 1
                \/ /\ i \in w .. e /\ i - w + 1 \in l + 1 .. m - 1
                   /\ r[i] = v[i - w + 1]
    <2>1. i \in Int /\ i <= e /\ i - w + 1 <= m - 1 BY <1>1, <1>6, <1>7
    <2>2. CASE i < w
      <3>1. k + 1 <= i BY <1>1, <1>7
      <3> QED BY <1>1, <2>1, <2>2, <3>1
    <2>3. CASE w <= i
      <3>1. l + 1 <= i - w + 1 BY <1>1, <1>3, <1>5, <1>7, <2>3
      <3>2. i \in w .. e /\ i - w + 1 \in l + 1 .. m - 1 BY <1>1, <1>7, <2>1, <2>3, <3>1
      <3> QED BY ZenonT(60), <1>4, <3>2
    <2> QED BY <1>1, <2>1, <2>2, <2>3
  <1>11. ASSUME NEW i \in n + 1 .. q - 1
         PROVE  r[i] # Comma
    <2>1. CASE i \in k + 1 .. w - 1 BY <1>1, <2>1, Classes DEF Blank
    <2>2. CASE i \in w .. e /\ i - w + 1 \in l + 1 .. m - 1 /\ r[i] = v[i - w + 1]
      BY Zenon, <1>3, <2>2
    <2> QED BY Zenon, <1>10, <2>1, <2>2
  <1>12. All(r, n + 1, (a + w - 1) - 1, Blank)
    <2> SUFFICES ASSUME NEW i \in n + 1 .. (a + w - 1) - 1 PROVE r[i] \in Blank
      BY ZenonT(60) DEF All
    <2>1. i \in n + 1 .. q - 1 /\ i - w + 1 <= a - 1 BY <1>1, <1>3, <1>6, <1>7
    <2>2. CASE i \in k + 1 .. w - 1 BY Zenon, <1>1, <2>2
    <2>3. CASE i \in w .. e /\ i - w + 1 \in l + 1 .. m - 1 /\ r[i] = v[i - w + 1]
      <3>1. i - w + 1 \in l + 1 .. a - 1 BY <1>1, <1>7, <2>1, <2>3
      <3> QED BY ZenonT(60), <1>3, <2>3, <3>1 DEF All
    <2> QED BY Zenon, <1>10, <2>1, <2>2, <2>3
  <1>13. All(r, (z + w - 1) + 1, q - 1, Blank)
    <2> SUFFICES ASSUME NEW i \in (z + w - 1) + 1 .. q - 1 PROVE r[i] \in Blank
      BY ZenonT(60) DEF All
    <2>1. i \in w .. e /\ i - w + 1 \in z + 1 .. m - 1 BY <1>1, <1>2, <1>3, <1>6, <1>7
    <2> QED BY Zenon, <1>3, <1>4, <2>1 DEF All
  <1>14. r[a + w - 1] \notin Blank /\ r[z + w - 1] \notin Blank
    <2>1. a + w - 1 \in w .. e /\ z + w - 1 \in w .. e BY <1>1, <1>7
    <2>2. (a + w - 1) - w + 1 = a /\ (z + w - 1) - w + 1 = z BY <1>1
    <2> QED BY ZenonT(60), <1>3, <1>4, <2>1, <2>2
  <1> QED BY ZenonT(60), <1>7, <1>8, <1>9, <1>11, <1>12, <1>13, <1>14 DEF IsPiece

(* And a piece of the line is one of the value. *)
LEMMA PieceIn ==
  ASSUME NEW r, NEW h, NEW k, NEW w, NEW e, HeaderAt(r, h, k, w, e),
         NEW v, ValueOf(v, r, w, e), NEW x \in Nat, NEW y \in Nat,
         x <= y, IsPiece(r, k, e, x, y)
  PROVE  /\ w <= x /\ y <= e
         /\ IsPiece(v, 0, Len(v), x - w + 1, y - w + 1)
  <1>1. /\ k \in Nat /\ w \in Nat /\ e \in Nat /\ k < w /\ w <= e + 1
        /\ \A i \in k + 1 .. w - 1 : r[i] \in Blank
    BY Zenon DEF HeaderAt
  <1>2. Len(v) = e - w + 1 /\ \A i \in 1 .. e - w + 1 : v[i] = r[w - 1 + i]
    BY Zenon DEF ValueOf
  <1>3. PICK l \in k .. x - 1, m \in y + 1 .. e + 1 :
          /\ l = k \/ r[l] = Comma
          /\ m = e + 1 \/ r[m] = Comma
          /\ \A i \in l + 1 .. m - 1 : r[i] # Comma
          /\ All(r, l + 1, x - 1, Blank) /\ All(r, y + 1, m - 1, Blank)
          /\ r[x] \notin Blank /\ r[y] \notin Blank
    BY Zenon DEF IsPiece
  <1>4. w <= x /\ y <= e /\ l \in Int /\ m \in Int BY <1>1, <1>3
  <1>5. l = k \/ w <= l BY <1>1, <1>3, <1>4, Classes DEF Blank
  <1>6. PICK n : n = IF l = k THEN 0 ELSE l - w + 1 OBVIOUS
  <1>7. PICK q : q = m - w + 1 OBVIOUS
  <1>8. /\ n \in 0 .. (x - w + 1) - 1 /\ q \in (y - w + 1) + 1 .. Len(v) + 1
        /\ n \in Int /\ q \in Int /\ l <= n + w - 1
    BY <1>1, <1>2, <1>3, <1>4, <1>5, <1>6, <1>7
  <1>9. n = 0 \/ v[n] = Comma
    <2>1. CASE l = k BY <1>6, <2>1
    <2>2. CASE l # k
      <3>1. n \in 1 .. e - w + 1 /\ w - 1 + n = l BY <1>1, <1>3, <1>4, <1>5, <1>6, <2>2
      <3> QED BY <1>2, <1>3, <2>2, <3>1
    <2> QED BY <2>1, <2>2
  <1>10. q = Len(v) + 1 \/ v[q] = Comma
    <2>1. CASE m = e + 1 BY <1>1, <1>2, <1>7, <2>1
    <2>2. CASE m # e + 1
      <3>1. q \in 1 .. e - w + 1 /\ w - 1 + q = m BY <1>1, <1>3, <1>4, <1>7, <2>2
      <3> QED BY <1>2, <1>3, <2>2, <3>1
    <2> QED BY <2>1, <2>2
  <1>11. ASSUME NEW i \in n + 1 .. q - 1
         PROVE  v[i] = r[w - 1 + i] /\ w - 1 + i \in l + 1 .. m - 1
    <2>1. i \in 1 .. e - w + 1 /\ w - 1 + i \in l + 1 .. m - 1
      BY <1>1, <1>2, <1>3, <1>4, <1>7, <1>8
    <2> QED BY ZenonT(60), <1>2, <2>1
  <1>12. \A i \in n + 1 .. q - 1 : v[i] # Comma BY Zenon, <1>3, <1>11
  <1>13. All(v, n + 1, (x - w + 1) - 1, Blank)
    <2> SUFFICES ASSUME NEW i \in n + 1 .. (x - w + 1) - 1 PROVE v[i] \in Blank
      BY ZenonT(60) DEF All
    <2>1. i \in n + 1 .. q - 1 BY <1>1, <1>3, <1>7, <1>8
    <2>2. v[i] = r[w - 1 + i] /\ w - 1 + i \in l + 1 .. m - 1 BY ZenonT(60), <1>11, <2>1
    <2>3. w - 1 + i \in l + 1 .. x - 1 BY <1>1, <1>8, <2>2
    <2> QED BY Zenon, <1>3, <2>2, <2>3 DEF All
  <1>14. All(v, (y - w + 1) + 1, q - 1, Blank)
    <2> SUFFICES ASSUME NEW i \in (y - w + 1) + 1 .. q - 1 PROVE v[i] \in Blank
      BY ZenonT(60) DEF All
    <2>1. i \in n + 1 .. q - 1 BY <1>1, <1>3, <1>7, <1>8
    <2>2. v[i] = r[w - 1 + i] /\ w - 1 + i \in l + 1 .. m - 1 BY ZenonT(60), <1>11, <2>1
    <2>3. y + 1 <= w - 1 + i BY <1>1, <1>8
    <2>4. w - 1 + i \in y + 1 .. m - 1 BY <1>1, <1>4, <2>2, <2>3
    <2> QED BY Zenon, <1>3, <2>2, <2>4 DEF All
  <1>15. v[x - w + 1] \notin Blank /\ v[y - w + 1] \notin Blank
    <2>1. /\ x - w + 1 \in 1 .. e - w + 1 /\ w - 1 + (x - w + 1) = x
          /\ y - w + 1 \in 1 .. e - w + 1 /\ w - 1 + (y - w + 1) = y
      BY <1>1, <1>4
    <2> QED BY <1>2, <1>3, <2>1
  <1> QED BY ZenonT(60), <1>4, <1>8, <1>9, <1>10, <1>12, <1>13, <1>14, <1>15 DEF IsPiece

(* The known tokens after h. *)
KnownAfter(r, h) == {t \in KnownTokens(r) : h < t[1]}

(* The token t of the value v is one of r, after h. *)
Found(r, h, w, v, t) ==
  /\ <<t[1] + w - 1, t[2] + w - 1>> \in KnownAfter(r, h)
  /\ Part(r, t[1] + w - 1, t[2] + w - 1) = Part(v, t[1], t[2])

(* A known token of the value is one of the request. *)
LEMMA TokenOut ==
  ASSUME NEW r \in Seq(Byte), NEW h, NEW k, NEW w, NEW e, HeaderAt(r, h, k, w, e),
         NEW v, ValueOf(v, r, w, e), Part(r, h + 1, k - 1) \in ConnectionNames,
         NEW t \in From(v, 1)
  PROVE  Found(r, h, w, v, t)
  <1>1. /\ h \in Nat /\ k \in Nat /\ w \in Nat /\ e \in Nat
        /\ 1 <= h /\ h < k /\ k < w /\ k <= e /\ w <= e + 1 /\ Len(r) = e + 2
        /\ r[h] = LF /\ r[e + 1] = CR /\ Plain(r, h + 1, e)
        /\ r[k] = Colon /\ \A i \in h + 1 .. k - 1 : r[i] # Colon
    BY Zenon DEF HeaderAt
  <1>2. /\ v \in Seq(Byte) /\ Len(v) = e - w + 1
        /\ \A i \in 1 .. e - w + 1 : v[i] = r[w - 1 + i]
    BY Zenon DEF ValueOf
  <1>3. PICK a, z \in 1 .. Len(v) : t = <<a, z>> BY DEF From, Tokens
  <1>4. t[1] = a /\ t[2] = z BY <1>3
  <1>5. a <= z /\ Part(v, a, z) \in Known /\ IsPiece(v, 0, Len(v), a, z)
    BY ZenonT(60), <1>4 DEF From, Tokens
  <1>6. a \in Nat /\ z \in Nat /\ 1 <= a /\ z <= e - w + 1 BY <1>1, <1>2, <1>3
  <1>7. IsPiece(r, k, e, a + w - 1, z + w - 1) /\ z + w - 1 <= e
    BY Zenon, <1>5, <1>6, PieceOut
  <1>8. Part(v, a, z) = Part(r, a + w - 1, z + w - 1)
    <2>1. Shifted(v, r, a, z, w - 1)
      BY <1>1, <1>2, <1>6 DEF Shifted
    <2>2. SameText(v, r, a, z, w - 1) BY Zenon, <1>2, <2>1, SameSpelling
    <2>3. a + (w - 1) = a + w - 1 /\ z + (w - 1) = z + w - 1 BY <1>1, <1>6
    <2> QED BY ZenonT(60), <2>2, <2>3 DEF SameText
  <1>9. PICK x, y : x = a + w - 1 /\ y = z + w - 1 OBVIOUS
  <1>10. /\ x \in Nat /\ y \in Nat /\ h + 1 \in Nat /\ 2 <= h + 1 /\ h + 1 <= k
         /\ k < x /\ x <= y /\ y <= e /\ e < Len(r) /\ h + 1 - 1 = h /\ h < x
    BY <1>1, <1>5, <1>6, <1>7, <1>9
  <1>11. TokenIn(r, x, y, h + 1, k, e)
    <2>1. r[h + 1 - 1] = LF BY Zenon, <1>1, <1>10
    <2>2. Part(r, x, y) \in Known BY Zenon, <1>5, <1>8, <1>9
    <2>3. IsPiece(r, k, e, x, y) BY Zenon, <1>7, <1>9
    <2> QED BY <1>1, <1>10, <2>1, <2>2, <2>3 DEF TokenIn
  <1>12. <<x, y>> \in KnownTokens(r) BY Zenon, <1>11, LineHasToken
  <1>13. <<x, y>>[1] = x OBVIOUS
  <1>14. <<x, y>> \in KnownAfter(r, h) BY Zenon, <1>10, <1>12, <1>13 DEF KnownAfter
  <1> QED BY Zenon, <1>4, <1>8, <1>9, <1>14 DEF Found

(* A known token after h is one of the value, and the header is a          *)
(* Connection header.                                                      *)
LEMMA TokenBack ==
  ASSUME NEW r \in Seq(Byte), NEW h, NEW k, NEW w, NEW e, HeaderAt(r, h, k, w, e),
         NEW v, ValueOf(v, r, w, e), NEW u \in KnownAfter(r, h)
  PROVE  /\ Part(r, h + 1, k - 1) \in ConnectionNames
         /\ <<u[1] - w + 1, u[2] - w + 1>> \in From(v, 1)
  <1>1. /\ h \in Nat /\ k \in Nat /\ w \in Nat /\ e \in Nat
        /\ h < k /\ k < w /\ k <= e /\ w <= e + 1 /\ Len(r) = e + 2
    BY Zenon DEF HeaderAt
  <1>2. /\ v \in Seq(Byte) /\ Len(v) = e - w + 1
        /\ \A i \in 1 .. e - w + 1 : v[i] = r[w - 1 + i]
    BY Zenon DEF ValueOf
  <1>3. u \in KnownTokens(r) /\ h < u[1] BY Zenon DEF KnownAfter
  <1>4. PICK x, y, b, j, f : u = <<x, y>> /\ TokenIn(r, x, y, b, j, f)
    BY Zenon, <1>3, TokenHasLine
  <1>5. u[1] = x /\ u[2] = y /\ h < x BY <1>3, <1>4
  <1>6. b = h + 1 /\ j = k /\ f = e BY Zenon, <1>4, <1>5, InLastLine
  <1>7. /\ x \in Nat /\ y \in Nat /\ x <= y /\ IsPiece(r, k, e, x, y)
        /\ Part(r, x, y) \in Known /\ Part(r, h + 1, k - 1) \in ConnectionNames
    BY Zenon, <1>4, <1>6 DEF TokenIn
  <1>8. w <= x /\ y <= e /\ IsPiece(v, 0, Len(v), x - w + 1, y - w + 1)
    BY Zenon, <1>7, PieceIn
  <1>9. Part(v, x - w + 1, y - w + 1) = Part(r, x, y)
    <2>1. Shifted(v, r, x - w + 1, y - w + 1, w - 1)
      <3>1. ASSUME NEW i \in x - w + 1 .. y - w + 1
            PROVE  v[i] = r[i + (w - 1)]
        <4>1. i \in 1 .. e - w + 1 /\ w - 1 + i = i + (w - 1) BY <1>1, <1>7, <1>8
        <4> QED BY <1>2, <4>1
      <3> QED BY <1>1, <1>2, <1>7, <1>8, <3>1 DEF Shifted
    <2>2. SameText(v, r, x - w + 1, y - w + 1, w - 1)
      BY ZenonT(60), <1>2, <2>1, SameSpelling
    <2>3. (x - w + 1) + (w - 1) = x /\ (y - w + 1) + (w - 1) = y BY <1>1, <1>7
    <2> QED BY ZenonT(60), <2>2, <2>3 DEF SameText
  <1>10. PICK a, z : a = x - w + 1 /\ z = y - w + 1 OBVIOUS
  <1>11. a \in 1 .. Len(v) /\ z \in 1 .. Len(v) /\ a <= z /\ 1 <= a
    BY <1>1, <1>2, <1>7, <1>8, <1>10
  <1>12. PICK t : t = <<a, z>> BY Zenon
  <1>13. t \in (1 .. Len(v)) \X (1 .. Len(v)) /\ t[1] = a /\ t[2] = z
    BY <1>11, <1>12
  <1>14. t \in From(v, 1)
    BY ZenonT(60), <1>7, <1>8, <1>9, <1>10, <1>11, <1>13 DEF From, Tokens
  <1> QED BY ZenonT(60), <1>5, <1>7, <1>10, <1>12, <1>14

(* So the scan of the value says what the last known token of the line     *)
(* says.                                                                   *)
LEMMA ScanOfLine ==
  ASSUME NEW r \in Seq(Byte), NEW h, NEW k, NEW w, NEW e, HeaderAt(r, h, k, w, e),
         NEW v, ValueOf(v, r, w, e), Part(r, h + 1, k - 1) \in ConnectionNames
  PROVE  Last(r, KnownAfter(r, h), Scan(v)[1])
  <1>1. v \in Seq(Byte) /\ w \in Nat BY Zenon DEF ValueOf, HeaderAt
  <1>2. 1 \in 1 .. Len(v) + 1 BY <1>1
  <1>3. PICK d : d = Scan(v)[1] OBVIOUS
  <1>4. Last(v, From(v, 1), d)
    BY Zenon, <1>1, <1>2, <1>3, ScanFindsLast DEF AtBreak
  <1>5. CASE From(v, 1) = {}
    <2>1. KnownAfter(r, h) = {} BY Zenon, <1>5, TokenBack
    <2>2. d = "UNSPECIFIED" BY Zenon, <1>4, <1>5 DEF Last
    <2> QED BY Zenon, <1>3, <2>1, <2>2 DEF Last
  <1>6. CASE From(v, 1) # {}
    <2>1. PICK t \in From(v, 1) : /\ \A u \in From(v, 1) : u[1] <= t[1]
                                  /\ d = Meaning(Part(v, t[1], t[2]))
      BY Zenon, <1>4, <1>6 DEF Last
    <2>2. PICK x, y : x = t[1] + w - 1 /\ y = t[2] + w - 1 OBVIOUS
    <2>3. <<x, y>> \in KnownAfter(r, h) /\ Part(r, x, y) = Part(v, t[1], t[2])
      <3>1. Found(r, h, w, v, t) BY Zenon, TokenOut
      <3> QED BY Zenon, <2>2, <3>1 DEF Found
    <2>4. <<x, y>>[1] = x /\ <<x, y>>[2] = y OBVIOUS
    <2>5. ASSUME NEW u \in KnownAfter(r, h) PROVE u[1] <= <<x, y>>[1]
      <3>1. <<u[1] - w + 1, u[2] - w + 1>> \in From(v, 1) BY Zenon, TokenBack
      <3>2. <<u[1] - w + 1, u[2] - w + 1>>[1] = u[1] - w + 1 OBVIOUS
      <3>3. u[1] - w + 1 <= t[1] BY ZenonT(60), <2>1, <3>1, <3>2
      <3>4. u[1] \in 1 .. Len(r) BY DEF KnownAfter, KnownTokens
      <3>5. t[1] \in 1 .. Len(v) BY DEF From, Tokens
      <3>6. Len(r) \in Nat /\ Len(v) \in Nat BY <1>1
      <3>7. u[1] <= x BY <1>1, <2>2, <3>3, <3>4, <3>5, <3>6
      <3> QED BY Zenon, <2>4, <3>7
    <2>6. d = Meaning(Part(r, <<x, y>>[1], <<x, y>>[2])) BY Zenon, <2>1, <2>3, <2>4
    <2> QED BY Zenon, <1>3, <2>3, <2>5, <2>6 DEF Last
  <1> QED BY Zenon, <1>5, <1>6

(* The directive after a header: at_header_lf() and TokenWins. *)
LEMMA HeaderNoted ==
  ASSUME NEW r \in Seq(Byte), NEW h, NEW k, NEW w, NEW e, HeaderAt(r, h, k, w, e),
         NEW v, ValueOf(v, r, w, e), NEW d, Noted(r, h, d)
  PROVE  Noted(r, Len(r), IF Part(r, h + 1, k - 1) \in ConnectionNames
                          THEN TokenWins(d, Scan(v)[1]) ELSE d)
  <1>1. h \in Nat /\ r[h] = LF /\ Len(r) \in Nat BY DEF HeaderAt
  <1>2. ASSUME NEW t \in KnownTokens(r)
        PROVE  /\ t[1] \in Nat /\ t[2] \in Nat /\ t[1] <= t[2] /\ t[2] <= Len(r)
               /\ t[2] <= h \/ h < t[1]
    <2>1. PICK x, y, b, k1, e1 : t = <<x, y>> /\ TokenIn(r, x, y, b, k1, e1)
      BY Zenon, TokenHasLine
    <2>2. t[1] = x /\ t[2] = y BY <2>1
    <2>3. /\ x \in Nat /\ y \in Nat /\ b \in Nat /\ k1 \in Nat /\ e1 \in Nat
          /\ b <= k1 /\ k1 < x /\ x <= y /\ y <= e1 /\ e1 < Len(r) /\ Plain(r, b, e1)
      BY Zenon, <2>1 DEF TokenIn
    <2>4. y <= h \/ h < x BY <1>1, <2>3 DEF Plain
    <2>5. y <= Len(r) BY <1>1, <2>3
    <2> QED BY Zenon, <2>2, <2>3, <2>4, <2>5
  <1>3. KnownUpTo(r, Len(r)) = KnownUpTo(r, h) \cup KnownAfter(r, h)
    BY Zenon, <1>2 DEF KnownUpTo, KnownAfter
  <1>4. AreKnown(r, KnownUpTo(r, h)) /\ AreKnown(r, KnownAfter(r, h))
    <2>1. /\ KnownUpTo(r, h) \in SUBSET KnownTokens(r)
          /\ KnownAfter(r, h) \in SUBSET KnownTokens(r)
      BY Zenon DEF KnownUpTo, KnownAfter
    <2> QED BY Zenon, <2>1, KnownApart
  <1>5. \A t \in KnownUpTo(r, h), u \in KnownAfter(r, h) : t[1] < u[1]
    <2> TAKE t \in KnownUpTo(r, h), u \in KnownAfter(r, h)
    <2>1. t \in KnownTokens(r) /\ t[2] <= h /\ u \in KnownTokens(r) /\ h < u[1]
      BY Zenon DEF KnownUpTo, KnownAfter
    <2>2. t[1] \in Nat /\ t[2] \in Nat /\ t[1] <= t[2] /\ u[1] \in Nat
      BY Zenon, <1>2, <2>1
    <2> QED BY <1>1, <2>1, <2>2
  <1>6. CASE Part(r, h + 1, k - 1) \in ConnectionNames
    <2>1. PICK c : c = Scan(v)[1] OBVIOUS
    <2>2. Last(r, KnownAfter(r, h), c) BY Zenon, <1>6, <2>1, ScanOfLine
    <2>3. Last(r, KnownUpTo(r, h), d) BY Zenon DEF Noted
    <2>4. Last(r, KnownUpTo(r, h) \cup KnownAfter(r, h), TokenWins(d, c))
      BY Zenon, <1>4, <1>5, <2>2, <2>3, LaterWins
    <2> QED BY ZenonT(60), <1>3, <1>6, <2>1, <2>4 DEF Noted
  <1>7. CASE Part(r, h + 1, k - 1) \notin ConnectionNames
    <2>1. KnownAfter(r, h) = {} BY Zenon, <1>7, TokenBack
    <2>2. KnownUpTo(r, Len(r)) = KnownUpTo(r, h) BY Zenon, <1>3, <2>1
    <2> QED BY Zenon, <1>7, <2>2 DEF Noted
  <1> QED BY Zenon, <1>6, <1>7

-----------------------------------------------------------------------------
(* What the parser remembers of its input in each of its states. *)

VersionNoted(s, p) ==
  \E y, e \in 1 .. Len(s) :
    /\ y <= e /\ e < Len(s) /\ s[e + 1] = CR /\ Plain(s, 1, e)
    /\ s[y] = SP /\ All(s, y + 1, e, VersionChar)
    /\ Part(s, y + 1, e) \in DOMAIN Versions
    /\ p.http = Versions[Part(s, y + 1, e)]

(* The lines among the first h bytes are dealt with. *)
HeadNoted(s, h, p) ==
  /\ h \in 1 .. Len(s) /\ s[h] = LF
  /\ VersionNoted(s, p) /\ Noted(s, h, p.connection_directive)

NoneNoted(s, e, p) == Plain(s, 1, e) /\ p.connection_directive = "UNSPECIFIED"

VersionCopied(s, p) ==
  \E y \in 1 .. Len(s) :
    s[y] = SP /\ All(s, y + 1, Len(s), VersionChar) /\ p.version = Part(s, y + 1, Len(s))

NameCopied(s, h, p) ==
  /\ HeadNoted(s, h, p) /\ h < Len(s) /\ All(s, h + 1, Len(s), NameChar)
  /\ Len(p.header_line) = Len(s) - h
  /\ \A i \in 1 .. Len(s) - h : p.header_line[i] = s[h + i]

(* header_line holds the name and the value of the line up to e, without   *)
(* the colon at k and the blanks up to w.                                  *)
HeaderCopied(s, h, k, w, e, p) ==
  /\ HeadNoted(s, h, p) /\ e \in Nat
  /\ h < k /\ k < w /\ k <= e /\ w <= e + 1 /\ e <= Len(s) /\ Plain(s, h + 1, e)
  /\ s[k] = Colon /\ \A i \in h + 1 .. k - 1 : s[i] # Colon
  /\ \A i \in k + 1 .. w - 1 : s[i] \in Blank
  /\ p.header_name_len = k - h - 1
  /\ Len(p.header_line) = (k - h - 1) + (e - w + 1)
  /\ \A i \in 1 .. k - h - 1 : p.header_line[i] = s[h + i]
  /\ \A i \in 1 .. e - w + 1 : p.header_line[(k - h - 1) + i] = s[w - 1 + i]

Remembers(s, p) ==
  /\ p.state = "METHOD" => NoneNoted(s, Len(s), p) /\ p.version = <<>>
  /\ p.state = "PATH"   => NoneNoted(s, Len(s), p) /\ p.version = <<>>
  /\ p.state = "VERSION" => NoneNoted(s, Len(s), p) /\ VersionCopied(s, p)
  /\ p.state = "REQUEST_LINE_LF" =>
       /\ 1 <= Len(s) /\ s[Len(s)] = CR
       /\ NoneNoted(s, Len(s) - 1, p) /\ VersionNoted(s, p)
  /\ p.state = "HEADER_LINE_START" => HeadNoted(s, Len(s), p)
  /\ p.state = "HEADER_NAME" => \E h \in 1 .. Len(s) : NameCopied(s, h, p)
  /\ p.state = "HEADER_VALUE_SP" =>
       \E h, k \in 1 .. Len(s) : HeaderCopied(s, h, k, Len(s) + 1, Len(s), p)
  /\ p.state = "HEADER_VALUE" =>
       \E h, k \in 1 .. Len(s) : \E w \in 1 .. Len(s) + 1 :
         HeaderCopied(s, h, k, w, Len(s), p)
  /\ p.state = "HEADER_LF" =>
       /\ 1 <= Len(s) /\ s[Len(s)] = CR
       /\ \E h, k \in 1 .. Len(s) : \E w \in 1 .. Len(s) + 1 :
            HeaderCopied(s, h, k, w, Len(s) - 1, p)
  /\ p.state = "HEADERS_END_LF" =>
       1 < Len(s) /\ s[Len(s)] = CR /\ HeadNoted(s, Len(s) - 1, p)
  /\ p.state = "DONE" =>
       /\ 2 < Len(s) /\ s[Len(s)] = LF /\ s[Len(s) - 1] = CR
       /\ HeadNoted(s, Len(s) - 2, p)

Typed(p) ==
  /\ DOMAIN p = DOMAIN Fresh /\ p.state \in States
  /\ p.version \in Seq(Byte) /\ p.header_line \in Seq(Byte)
  /\ p.header_name_len \in Nat

IInv == fed \in Seq(Byte) /\ Typed(parser) /\ Remembers(fed, parser)

-----------------------------------------------------------------------------
(* One byte more changes nothing of what was noted. *)

(* r is s and one more byte. *)
OneMore(r, s, c) ==
  /\ r \in Seq(Byte) /\ s \in Seq(Byte) /\ Len(r) = Len(s) + 1
  /\ r[Len(s) + 1] = c /\ \A i \in 1 .. Len(s) : r[i] = s[i]

(* q knows of the finished lines what p does; of the header too. *)
SameHead(q, p) ==
  q.http = p.http /\ q.connection_directive = p.connection_directive
SameLine(q, p) ==
  SameHead(q, p) /\ q.header_line = p.header_line
    /\ q.header_name_len = p.header_name_len

(* The version, in_version(), is that of the first line of all there is. *)
LEMMA VersionKept ==
  ASSUME NEW s, NEW r, NEW c, OneMore(r, s, c), NEW p, NEW q, SameHead(q, p),
         VersionNoted(s, p)
  PROVE  VersionNoted(r, q)
  <1>1. /\ r \in Seq(Byte) /\ s \in Seq(Byte) /\ Len(s) \in Nat
        /\ Len(r) = Len(s) + 1 /\ \A i \in 1 .. Len(s) : r[i] = s[i]
    BY DEF OneMore
  <1>2. PICK y, e \in 1 .. Len(s) :
          /\ y <= e /\ e < Len(s) /\ s[e + 1] = CR /\ Plain(s, 1, e)
          /\ s[y] = SP /\ All(s, y + 1, e, VersionChar)
          /\ Part(s, y + 1, e) \in DOMAIN Versions
          /\ p.http = Versions[Part(s, y + 1, e)]
    BY ZenonT(60) DEF VersionNoted
  <1>3. /\ y \in 1 .. Len(r) /\ e \in 1 .. Len(r) /\ e < Len(r)
        /\ r[e + 1] = CR /\ r[y] = SP
    BY <1>1, <1>2
  <1>4. Plain(r, 1, e) /\ All(r, y + 1, e, VersionChar)
    <2>1. \A i \in 1 .. e : r[i] = s[i] BY <1>1, <1>2
    <2>2. Plain(r, 1, e) BY ZenonT(60), <1>2, <2>1 DEF Plain
    <2>3. \A i \in y + 1 .. e : r[i] = s[i] BY <1>2, <2>1
    <2> QED BY Zenon, <1>2, <2>2, <2>3 DEF All
  <1>5. Part(s, y + 1, e) = Part(r, y + 1, e)
    <2>1. Shifted(s, r, y + 1, e, 0) BY <1>1, <1>2 DEF Shifted
    <2>2. SameText(s, r, y + 1, e, 0) BY Zenon, <1>1, <2>1, SameSpelling
    <2>3. y + 1 + 0 = y + 1 /\ e + 0 = e BY <1>2
    <2> QED BY ZenonT(60), <2>2, <2>3 DEF SameText
  <1>6. q.http = p.http BY DEF SameHead
  <1> QED BY ZenonT(60), <1>2, <1>3, <1>4, <1>5, <1>6 DEF VersionNoted

(* And what the finished lines say stays. *)
LEMMA HeadKept ==
  ASSUME NEW s, NEW r, NEW c, OneMore(r, s, c), NEW p, NEW q, SameHead(q, p),
         NEW h, HeadNoted(s, h, p)
  PROVE  HeadNoted(r, h, q)
  <1>1. /\ r \in Seq(Byte) /\ s \in Seq(Byte) /\ Len(s) \in Nat
        /\ Len(r) = Len(s) + 1 /\ \A i \in 1 .. Len(s) : r[i] = s[i]
    BY DEF OneMore
  <1>2. h \in 1 .. Len(s) /\ s[h] = LF BY DEF HeadNoted
  <1>3. h \in 1 .. Len(r) /\ r[h] = LF /\ Agree(s, r, h) BY <1>1, <1>2 DEF Agree
  <1>4. VersionNoted(r, q) BY Zenon, VersionKept DEF HeadNoted
  <1>5. Noted(r, h, p.connection_directive) BY Zenon, <1>3, NotedKept DEF HeadNoted
  <1> QED BY ZenonT(60), <1>3, <1>4, <1>5 DEF HeadNoted, SameHead

(* The copy of a header stays a copy. *)
LEMMA CopyKept ==
  ASSUME NEW s, NEW r, NEW c, OneMore(r, s, c), NEW p, NEW q, SameLine(q, p),
         NEW h \in Nat, NEW k \in Nat, NEW w \in Nat, NEW e,
         HeaderCopied(s, h, k, w, e, p)
  PROVE  HeaderCopied(r, h, k, w, e, q)
  <1>1. /\ Len(s) \in Nat /\ Len(r) = Len(s) + 1
        /\ \A i \in 1 .. Len(s) : r[i] = s[i]
    BY DEF OneMore
  <1>2. /\ HeadNoted(s, h, p) /\ e \in Nat
        /\ h < k /\ k < w /\ k <= e /\ w <= e + 1 /\ e <= Len(s) /\ Plain(s, h + 1, e)
        /\ s[k] = Colon /\ \A i \in h + 1 .. k - 1 : s[i] # Colon
        /\ \A i \in k + 1 .. w - 1 : s[i] \in Blank
    BY Zenon DEF HeaderCopied
  <1>3. HeadNoted(r, h, q) BY ZenonT(60), <1>2, HeadKept DEF SameLine
  <1>4. \A i \in h + 1 .. e : r[i] = s[i] BY <1>1, <1>2
  <1>5. e <= Len(r) /\ r[k] = Colon BY <1>1, <1>2, <1>4
  <1>6. Plain(r, h + 1, e) BY <1>2, <1>4 DEF Plain
  <1>7. \A i \in h + 1 .. k - 1 : r[i] # Colon BY <1>2, <1>4
  <1>8. \A i \in k + 1 .. w - 1 : r[i] \in Blank BY <1>2, <1>4
  <1>9. /\ q.header_line = p.header_line /\ q.header_name_len = p.header_name_len
    BY Zenon DEF SameLine
  <1>10. ASSUME NEW i \in 1 .. k - h - 1
         PROVE  q.header_line[i] = r[h + i]
    <2>1. p.header_line[i] = s[h + i] BY Zenon DEF HeaderCopied
    <2>2. h + i \in h + 1 .. e BY <1>2
    <2> QED BY ZenonT(60), <1>4, <1>9, <2>1, <2>2
  <1>11. ASSUME NEW i \in 1 .. e - w + 1
         PROVE  q.header_line[(k - h - 1) + i] = r[w - 1 + i]
    <2>1. p.header_line[(k - h - 1) + i] = s[w - 1 + i] BY ZenonT(60) DEF HeaderCopied
    <2>2. w - 1 + i \in h + 1 .. e BY <1>2
    <2> QED BY ZenonT(60), <1>4, <1>9, <2>1, <2>2
  <1>12. /\ q.header_name_len = k - h - 1
         /\ Len(q.header_line) = (k - h - 1) + (e - w + 1)
    BY Zenon, <1>9 DEF HeaderCopied
  <1> QED
    BY ZenonT(60), <1>2, <1>3, <1>5, <1>6, <1>7, <1>8, <1>10, <1>11, <1>12 DEF HeaderCopied

-----------------------------------------------------------------------------
(* Every state of the switch. *)

(* Nothing is owed for a request that is no request. *)
LEMMA Rejected ==
  ASSUME NEW p, Typed(p), NEW r
  PROVE  Typed(Fail(p)) /\ Remembers(r, Fail(p))
  <1>1. Typed(Fail(p)) /\ Fail(p).state = "ERROR" BY DEF Typed, Fail, Fresh, States
  <1> QED BY Zenon, <1>1 DEF Remembers

(* A byte of the first line that does not end it. *)
LEMMA NothingNoted ==
  ASSUME NEW s, NEW r, NEW c, OneMore(r, s, c), c \notin {CR, LF},
         NEW p, NEW q, NoneNoted(s, Len(s), p),
         q.connection_directive = p.connection_directive
  PROVE  NoneNoted(r, Len(r), q)
  <1>1. /\ Len(s) \in Nat /\ Len(r) = Len(s) + 1
        /\ r[Len(s) + 1] = c /\ \A i \in 1 .. Len(s) : r[i] = s[i]
    BY DEF OneMore
  <1>2. Plain(s, 1, Len(s)) BY DEF NoneNoted
  <1>3. Plain(r, 1, Len(r)) BY <1>1, <1>2 DEF Plain
  <1> QED BY ZenonT(60), <1>3 DEF NoneNoted

(* HTTP_STATE_METHOD *)
LEMMA MethodStep ==
  ASSUME NEW p, Typed(p), p.state = "METHOD", NEW s, Remembers(s, p),
         NEW c, NEW r, OneMore(r, s, c)
  PROVE  Typed(in_method(p, c)) /\ Remembers(r, in_method(p, c))
  <1>0. NoneNoted(s, Len(s), p) /\ p.version = <<>> BY DEF Remembers
  <1>1. CASE c = SP /\ p.method # <<>>
    <2>1. PICK q : q = [p EXCEPT !.method_id = classify_method(p.method),
                                 !.state = "PATH"]
      OBVIOUS
    <2>2. in_method(p, c) = q BY <1>1, <2>1, Classes DEF in_method
    <2>3. /\ Typed(q) /\ q.state = "PATH" /\ q.version = p.version
          /\ q.connection_directive = p.connection_directive
      BY <2>1 DEF Typed, Fresh, States
    <2>4. NoneNoted(r, Len(r), q)
      <3>1. c \notin {CR, LF} BY <1>1, Classes
      <3> QED BY ZenonT(60), <1>0, <2>3, <3>1, NothingNoted
    <2> QED BY ZenonT(60), <1>0, <2>2, <2>3, <2>4 DEF Remembers
  <1>2. CASE /\ c \in MethodChar /\ Holds(p.method, HTTP_METHOD_MAX)
             /\ ~(c = SP /\ p.method # <<>>)
    <2>1. PICK q : q = [p EXCEPT !.method = Append(@, c)] BY Zenon
    <2>2. in_method(p, c) = q BY <1>2, <2>1, Classes DEF in_method
    <2>3. /\ Typed(q) /\ q.state = "METHOD" /\ q.version = p.version
          /\ q.connection_directive = p.connection_directive
      BY <2>1 DEF Typed, Fresh, States
    <2>4. NoneNoted(r, Len(r), q)
      <3>1. c \notin {CR, LF} BY <1>2, Classes
      <3> QED BY ZenonT(60), <1>0, <2>3, <3>1, NothingNoted
    <2> QED BY ZenonT(60), <1>0, <2>2, <2>3, <2>4 DEF Remembers
  <1>3. CASE /\ ~(c = SP /\ p.method # <<>>)
             /\ ~(c \in MethodChar /\ Holds(p.method, HTTP_METHOD_MAX))
    <2>1. in_method(p, c) = Fail(p) BY <1>3 DEF in_method
    <2> QED BY Zenon, <2>1, Rejected
  <1> QED BY ZenonT(60), <1>1, <1>2, <1>3

(* HTTP_STATE_PATH *)
LEMMA PathStep ==
  ASSUME NEW p, Typed(p), p.state = "PATH", NEW s, Remembers(s, p),
         NEW c, NEW r, OneMore(r, s, c)
  PROVE  Typed(in_path(p, c)) /\ Remembers(r, in_path(p, c))
  <1>0. NoneNoted(s, Len(s), p) /\ p.version = <<>> BY DEF Remembers
  <1>1. CASE c = SP /\ p.path # <<>>
    <2>1. PICK q : q = Goto(p, "VERSION") OBVIOUS
    <2>2. in_path(p, c) = q BY <1>1, <2>1, Classes DEF in_path
    <2>3. /\ Typed(q) /\ q.state = "VERSION" /\ q.version = <<>>
          /\ q.connection_directive = p.connection_directive
      BY Zenon, <1>0, <2>1 DEF Goto, Typed, Fresh, States
    <2>4. NoneNoted(r, Len(r), q)
      <3>1. c \notin {CR, LF} BY <1>1, Classes
      <3> QED BY ZenonT(60), <1>0, <2>3, <3>1, NothingNoted
    <2>5. VersionCopied(r, q)
      <3>1. /\ r \in Seq(Byte) /\ Len(s) \in Nat /\ Len(r) = Len(s) + 1
            /\ r[Len(s) + 1] = c
        BY DEF OneMore
      <3>2. Len(r) \in 1 .. Len(r) /\ r[Len(r)] = SP BY <1>1, <3>1
      <3>3. All(r, Len(r) + 1, Len(r), VersionChar) BY <3>1 DEF All
      <3>4. Part(r, Len(r) + 1, Len(r)) = <<>> BY <3>1 DEF Part
      <3> QED BY ZenonT(60), <2>3, <3>2, <3>3, <3>4 DEF VersionCopied
    <2> QED BY ZenonT(60), <2>2, <2>3, <2>4, <2>5 DEF Remembers
  <1>2. CASE /\ c \in PathChar /\ Holds(p.path, HTTP_PATH_MAX)
             /\ ~(c = SP /\ p.path # <<>>)
    <2>1. PICK q : q = [p EXCEPT !.path = Append(@, c)] BY Zenon
    <2>2. in_path(p, c) = q BY <1>2, <2>1, Classes DEF in_path
    <2>3. /\ Typed(q) /\ q.state = "PATH" /\ q.version = p.version
          /\ q.connection_directive = p.connection_directive
      BY <2>1 DEF Typed, Fresh, States
    <2>4. NoneNoted(r, Len(r), q)
      <3>1. c \notin {CR, LF} BY <1>2, Classes
      <3> QED BY ZenonT(60), <1>0, <2>3, <3>1, NothingNoted
    <2> QED BY Zenon, <1>0, <2>2, <2>3, <2>4 DEF Remembers
  <1>3. CASE /\ ~(c = SP /\ p.path # <<>>)
             /\ ~(c \in PathChar /\ Holds(p.path, HTTP_PATH_MAX))
    <2>1. in_path(p, c) = Fail(p) BY <1>3 DEF in_path
    <2> QED BY Zenon, <2>1, Rejected
  <1> QED BY ZenonT(60), <1>1, <1>2, <1>3

(* The version with one more character. *)
LEMMA PartMore ==
  ASSUME NEW s, NEW r, NEW c, OneMore(r, s, c), NEW y \in 1 .. Len(s)
  PROVE  Part(r, y + 1, Len(r)) = Append(Part(s, y + 1, Len(s)), c)
  <1>1. /\ r \in Seq(Byte) /\ s \in Seq(Byte) /\ Len(s) \in Nat /\ Len(r) = Len(s) + 1
        /\ r[Len(s) + 1] = c /\ \A i \in 1 .. Len(s) : r[i] = s[i]
    BY DEF OneMore
  <1>0. c \in Byte BY <1>1
  <1> DEFINE x == SubSeq(s, y + 1, Len(s))
             z == SubSeq(r, y + 1, Len(r))
  <1>2. /\ x \in Seq(Byte) /\ Len(x) = Len(s) - y
        /\ \A i \in 1 .. Len(s) - y : x[i] = s[y + i]
    BY <1>1
  <1>3. /\ z \in Seq(Byte) /\ Len(z) = Len(s) + 1 - y
        /\ \A i \in 1 .. Len(s) + 1 - y : z[i] = r[y + i]
    BY <1>1
  <1> HIDE DEF x, z
  <1>4. /\ Append(x, c) \in Seq(Byte) /\ Len(Append(x, c)) = Len(x) + 1
        /\ Append(x, c)[Len(x) + 1] = c
        /\ \A i \in 1 .. Len(x) : Append(x, c)[i] = x[i]
    BY <1>0, <1>2
  <1>5. ASSUME NEW i \in 1 .. Len(z) PROVE z[i] = Append(x, c)[i]
    <2>0. i \in 1 .. Len(s) + 1 - y BY Zenon, <1>3
    <2>1. CASE i <= Len(s) - y
      <3>1. i \in 1 .. Len(x) /\ i \in 1 .. Len(s) - y /\ y + i \in 1 .. Len(s)
        BY <1>1, <1>2, <2>0, <2>1
      <3> QED BY ZenonT(60), <1>1, <1>2, <1>3, <1>4, <2>0, <3>1
    <2>2. CASE i = Len(s) + 1 - y
      <3>1. y + i = Len(s) + 1 /\ i = Len(x) + 1 BY <1>1, <1>2, <2>2
      <3> QED BY ZenonT(60), <1>1, <1>3, <1>4, <2>0, <3>1
    <2>3. i <= Len(s) - y \/ i = Len(s) + 1 - y BY <1>1, <2>0
    <2> QED BY Zenon, <2>1, <2>2, <2>3
  <1>6. Len(z) = Len(Append(x, c)) BY <1>1, <1>2, <1>3, <1>4
  <1>7. z = Append(x, c)
    <2>1. PICK a : a = Append(x, c) BY Zenon
    <2>2. a \in Seq(Byte) /\ Len(z) = Len(a) /\ \A i \in 1 .. Len(z) : z[i] = a[i]
      BY ZenonT(60), <1>4, <1>5, <1>6, <2>1
    <2>3. z = a BY <1>3, <2>2
    <2> QED BY Zenon, <2>1, <2>3
  <1> QED BY Zenon, <1>7 DEF x, z, Part

(* HTTP_STATE_VERSION *)
LEMMA VersionStep ==
  ASSUME NEW p, Typed(p), p.state = "VERSION", NEW s, Remembers(s, p),
         NEW c, NEW r, OneMore(r, s, c)
  PROVE  Typed(in_version(p, c)) /\ Remembers(r, in_version(p, c))
  <1>0. NoneNoted(s, Len(s), p) /\ VersionCopied(s, p) BY ZenonT(60) DEF Remembers
  <1>1. /\ r \in Seq(Byte) /\ s \in Seq(Byte) /\ Len(s) \in Nat /\ Len(r) = Len(s) + 1
        /\ r[Len(s) + 1] = c /\ \A i \in 1 .. Len(s) : r[i] = s[i] /\ c \in Byte
    BY DEF OneMore
  <1>2. PICK y \in 1 .. Len(s) :
          /\ s[y] = SP /\ All(s, y + 1, Len(s), VersionChar)
          /\ p.version = Part(s, y + 1, Len(s))
    BY ZenonT(60), <1>0 DEF VersionCopied
  <1>3. y \in 1 .. Len(r) /\ r[y] = SP /\ y <= Len(s) BY <1>1, <1>2
  <1>4. CASE c = CR /\ p.version \in DOMAIN Versions
    <2>1. PICK q : q = [p EXCEPT !.http = Versions[p.version],
                                 !.state = "REQUEST_LINE_LF"]
      OBVIOUS
    <2>2. in_version(p, c) = q BY <1>4, <2>1, Classes DEF in_version
    <2>3. /\ Typed(q) /\ q.state = "REQUEST_LINE_LF" /\ q.http = Versions[p.version]
          /\ q.connection_directive = p.connection_directive
      BY <2>1 DEF Typed, Fresh, States
    <2>4. 1 <= Len(r) /\ r[Len(r)] = CR /\ Len(r) - 1 = Len(s) BY <1>1, <1>4
    <2>5. Plain(r, 1, Len(s))
      <3>1. Plain(s, 1, Len(s)) BY Zenon, <1>0 DEF NoneNoted
      <3> QED BY Zenon, <1>1, <3>1 DEF Plain
    <2>6. NoneNoted(r, Len(r) - 1, q)
      BY ZenonT(60), <1>0, <2>3, <2>4, <2>5 DEF NoneNoted
    <2>7. VersionNoted(r, q)
      <3>1. Part(s, y + 1, Len(s)) = Part(r, y + 1, Len(s))
        <4>1. Shifted(s, r, y + 1, Len(s), 0) BY <1>1, <1>2 DEF Shifted
        <4>2. SameText(s, r, y + 1, Len(s), 0) BY ZenonT(60), <1>1, <4>1, SameSpelling
        <4>3. y + 1 + 0 = y + 1 /\ Len(s) + 0 = Len(s) BY <1>1
        <4> QED BY ZenonT(60), <4>2, <4>3 DEF SameText
      <3>2. All(r, y + 1, Len(s), VersionChar) BY <1>1, <1>2 DEF All
      <3>3. /\ Len(s) \in 1 .. Len(r) /\ y <= Len(s) /\ Len(s) < Len(r)
            /\ r[Len(s) + 1] = CR
        BY <1>1, <1>3, <1>4
      <3>4. /\ Part(r, y + 1, Len(s)) \in DOMAIN Versions
            /\ q.http = Versions[Part(r, y + 1, Len(s))]
        BY ZenonT(60), <1>2, <1>4, <2>3, <3>1
      <3> QED BY ZenonT(60), <1>3, <2>5, <3>2, <3>3, <3>4 DEF VersionNoted
    <2> QED BY ZenonT(60), <2>2, <2>3, <2>4, <2>6, <2>7 DEF Remembers
  <1>5. CASE /\ c \in VersionChar /\ Holds(p.version, VERSION_MAX)
             /\ ~(c = CR /\ p.version \in DOMAIN Versions)
    <2>1. PICK q : q = [p EXCEPT !.version = Append(@, c)] BY Zenon
    <2>2. in_version(p, c) = q BY <1>5, <2>1, Classes DEF in_version
    <2>3. /\ Typed(q) /\ q.state = "VERSION" /\ q.version = Append(p.version, c)
          /\ q.connection_directive = p.connection_directive
      BY <1>1, <2>1 DEF Typed, Fresh, States
    <2>4. NoneNoted(r, Len(r), q)
      <3>1. c \notin {CR, LF} BY <1>5, Classes
      <3> QED BY ZenonT(60), <1>0, <2>3, <3>1, NothingNoted
    <2>5. VersionCopied(r, q)
      <3>1. Part(r, y + 1, Len(r)) = Append(Part(s, y + 1, Len(s)), c)
        BY PartMore
      <3>2. \A i \in y + 1 .. Len(s) : r[i] \in VersionChar BY <1>1, <1>2 DEF All
      <3>3. All(r, y + 1, Len(r), VersionChar) BY <1>1, <1>5, <3>2 DEF All
      <3>4. q.version = Part(r, y + 1, Len(r)) BY ZenonT(60), <1>2, <2>3, <3>1
      <3> QED BY ZenonT(60), <1>3, <3>3, <3>4 DEF VersionCopied
    <2> QED BY ZenonT(60), <2>2, <2>3, <2>4, <2>5 DEF Remembers
  <1>6. CASE /\ ~(c = CR /\ p.version \in DOMAIN Versions)
             /\ ~(c \in VersionChar /\ Holds(p.version, VERSION_MAX))
    <2>1. in_version(p, c) = Fail(p) BY <1>6 DEF in_version
    <2> QED BY ZenonT(60), <2>1, Rejected
  <1> QED BY ZenonT(60), <1>4, <1>5, <1>6

(* Leaving for another state changes nothing else. *)
LEMMA GotoKeeps ==
  ASSUME NEW p, Typed(p), NEW t \in States
  PROVE  Typed(Goto(p, t)) /\ Goto(p, t).state = t /\ SameLine(Goto(p, t), p)
  BY DEF Typed, Goto, Fresh, SameLine, SameHead

(* HTTP_STATE_REQUEST_LINE_LF *)
LEMMA RequestLineLfStep ==
  ASSUME NEW p, Typed(p), p.state = "REQUEST_LINE_LF", NEW s, Remembers(s, p),
         NEW r, OneMore(r, s, LF)
  PROVE  /\ Typed(Goto(p, "HEADER_LINE_START"))
         /\ Remembers(r, Goto(p, "HEADER_LINE_START"))
  <1>0. /\ 1 <= Len(s) /\ s[Len(s)] = CR
        /\ NoneNoted(s, Len(s) - 1, p) /\ VersionNoted(s, p)
    BY DEF Remembers
  <1>1. /\ r \in Seq(Byte) /\ Len(s) \in Nat /\ Len(r) = Len(s) + 1
        /\ r[Len(s) + 1] = LF /\ \A i \in 1 .. Len(s) : r[i] = s[i]
    BY DEF OneMore
  <1>2. PICK q : q = Goto(p, "HEADER_LINE_START") OBVIOUS
  <1>3. Typed(q) /\ q.state = "HEADER_LINE_START" /\ SameHead(q, p)
    BY ZenonT(60), <1>2, GotoKeeps DEF States, SameLine
  <1>4. VersionNoted(r, q) BY Zenon, <1>0, <1>3, VersionKept
  <1>5. KnownUpTo(r, Len(r)) = {}
    <2> SUFFICES ASSUME NEW t \in KnownTokens(r) PROVE FALSE BY Zenon DEF KnownUpTo
    <2>1. PICK x, y, b, k, e : t = <<x, y>> /\ TokenIn(r, x, y, b, k, e)
      BY Zenon, <1>1, TokenHasLine
    <2>2. /\ x \in Nat /\ y \in Nat /\ b \in Nat /\ k \in Nat /\ e \in Nat
          /\ 2 <= b /\ b <= k /\ k < x /\ x <= y /\ y <= e /\ e < Len(r)
          /\ r[b - 1] = LF
      BY ZenonT(60), <2>1 DEF TokenIn
    <2>3. b - 1 \in 1 .. Len(s) - 1 BY <1>1, <2>2
    <2>4. s[b - 1] = LF BY <1>1, <2>2, <2>3
    <2> QED BY ZenonT(60), <1>0, <2>3, <2>4 DEF NoneNoted, Plain
  <1>6. Noted(r, Len(r), q.connection_directive)
    BY ZenonT(60), <1>0, <1>3, <1>5 DEF Noted, Last, NoneNoted, SameHead
  <1>7. Len(r) \in 1 .. Len(r) /\ r[Len(r)] = LF BY <1>1
  <1>8. HeadNoted(r, Len(r), q) BY ZenonT(60), <1>4, <1>6, <1>7 DEF HeadNoted
  <1>9. Remembers(r, q) BY Zenon, <1>3, <1>8 DEF Remembers
  <1> QED BY ZenonT(60), <1>2, <1>3, <1>9

(* HTTP_STATE_HEADER_LINE_START *)
LEMMA LineStartStep ==
  ASSUME NEW p, Typed(p), p.state = "HEADER_LINE_START", NEW s, Remembers(s, p),
         NEW c, NEW r, OneMore(r, s, c)
  PROVE  Typed(at_line_start(p, c)) /\ Remembers(r, at_line_start(p, c))
  <1>0. HeadNoted(s, Len(s), p) BY ZenonT(60) DEF Remembers
  <1>1. /\ Len(s) \in Nat /\ Len(r) = Len(s) + 1 /\ r[Len(s) + 1] = c /\ c \in Byte
        /\ Len(s) \in 1 .. Len(s)
    <2>1. Len(s) \in 1 .. Len(s) BY Zenon, <1>0 DEF HeadNoted
    <2> QED BY <2>1 DEF OneMore
  <1>2. CASE c = CR
    <2>1. PICK q : q = Goto(p, "HEADERS_END_LF") OBVIOUS
    <2>2. at_line_start(p, c) = q BY <1>2, <2>1, Classes DEF at_line_start
    <2>3. Typed(q) /\ q.state = "HEADERS_END_LF" /\ SameHead(q, p)
      BY Zenon, <2>1, GotoKeeps DEF States, SameLine
    <2>4. HeadNoted(r, Len(s), q) BY ZenonT(60), <1>0, <2>3, HeadKept
    <2>5. 1 < Len(r) /\ r[Len(r)] = CR /\ Len(r) - 1 = Len(s) BY <1>1, <1>2
    <2> QED BY ZenonT(60), <2>2, <2>3, <2>4, <2>5 DEF Remembers
  <1>3. CASE c \in NameChar /\ MoreHeaders(p) /\ c # CR
    <2>1. PICK q : q = [p EXCEPT !.header_line = <<c>>, !.state = "HEADER_NAME"]
      OBVIOUS
    <2>2. at_line_start(p, c) = q BY <1>3, <2>1, Classes DEF at_line_start
    <2>3. /\ Typed(q) /\ q.state = "HEADER_NAME" /\ SameHead(q, p)
          /\ q.header_line = <<c>>
      BY <1>1, <2>1 DEF Typed, Fresh, States, SameHead
    <2>4. HeadNoted(r, Len(s), q) BY ZenonT(60), <1>0, <2>3, HeadKept
    <2>5. /\ Len(s) < Len(r) /\ Len(q.header_line) = Len(r) - Len(s)
          /\ Len(s) \in 1 .. Len(r)
      BY <1>1, <2>3
    <2>6. All(r, Len(s) + 1, Len(r), NameChar) BY <1>1, <1>3 DEF All
    <2>7. \A i \in 1 .. Len(r) - Len(s) : q.header_line[i] = r[Len(s) + i]
      BY <1>1, <2>3
    <2>8. NameCopied(r, Len(s), q) BY ZenonT(60), <2>4, <2>5, <2>6, <2>7 DEF NameCopied
    <2> QED BY ZenonT(60), <2>2, <2>3, <2>5, <2>8 DEF Remembers
  <1>4. CASE c # CR /\ ~(c \in NameChar /\ MoreHeaders(p))
    <2>1. at_line_start(p, c) = Fail(p) BY <1>4 DEF at_line_start
    <2> QED BY Zenon, <2>1, Rejected
  <1> QED BY ZenonT(60), <1>2, <1>3, <1>4

(* HTTP_STATE_HEADER_NAME *)
LEMMA NameStep ==
  ASSUME NEW p, Typed(p), p.state = "HEADER_NAME", NEW s, Remembers(s, p),
         NEW c, NEW r, OneMore(r, s, c)
  PROVE  Typed(in_header_name(p, c)) /\ Remembers(r, in_header_name(p, c))
  <1>0. PICK h \in 1 .. Len(s) : NameCopied(s, h, p) BY Zenon DEF Remembers
  <1>1. /\ Len(s) \in Nat /\ Len(r) = Len(s) + 1 /\ r[Len(s) + 1] = c /\ c \in Byte
        /\ \A i \in 1 .. Len(s) : r[i] = s[i]
    BY DEF OneMore
  <1>2. /\ HeadNoted(s, h, p) /\ h < Len(s) /\ Len(p.header_line) = Len(s) - h
    BY ZenonT(60), <1>0 DEF NameCopied
  <1>3. \A i \in h + 1 .. Len(s) : r[i] \in NameChar
    BY <1>0, <1>1 DEF NameCopied, All
  <1>4. ASSUME NEW i \in 1 .. Len(s) - h
        PROVE  p.header_line[i] = r[h + i]
    <2>1. p.header_line[i] = s[h + i] BY ZenonT(60), <1>0 DEF NameCopied
    <2>2. h + i \in 1 .. Len(s) BY <1>1
    <2> QED BY ZenonT(60), <1>1, <2>1, <2>2
  <1>5. p.header_line \in Seq(Byte) BY DEF Typed
  <1>6. CASE c = Colon
    <2>1. PICK q : q = [p EXCEPT !.header_name_len = Len(p.header_line),
                                 !.state = "HEADER_VALUE_SP"]
      OBVIOUS
    <2>2. in_header_name(p, c) = q BY <1>6, <2>1, Classes DEF in_header_name
    <2>3. /\ Typed(q) /\ q.state = "HEADER_VALUE_SP" /\ SameHead(q, p)
          /\ q.header_line = p.header_line /\ q.header_name_len = Len(p.header_line)
      BY <1>5, <2>1 DEF Typed, Fresh, States, SameHead
    <2>4. HeadNoted(r, h, q) BY ZenonT(60), <1>2, <2>3, HeadKept
    <2>5. PICK k, w : k = Len(r) /\ w = Len(r) + 1 OBVIOUS
    <2>6. /\ h \in 1 .. Len(r) /\ k \in 1 .. Len(r) /\ k \in Nat /\ h \in Nat
          /\ h < k /\ k < w /\ k <= k /\ w <= k + 1 /\ r[k] = Colon
          /\ k - h - 1 = Len(s) - h /\ k - w + 1 = 0 /\ k - 1 = Len(s) /\ w = k + 1
      BY <1>1, <1>2, <1>6, <2>5
    <2>7. Plain(r, h + 1, k)
      <3> SUFFICES ASSUME NEW i \in h + 1 .. k PROVE r[i] \notin {CR, LF}
        BY ZenonT(60) DEF Plain
      <3>1. CASE i = k BY <2>6, <3>1, Classes
      <3>2. CASE i # k
        <4>1. i \in h + 1 .. Len(s) BY <1>1, <2>6, <3>2
        <4> QED BY <1>3, <4>1, Classes
      <3> QED BY <3>1, <3>2
    <2>8. \A i \in h + 1 .. k - 1 : r[i] # Colon BY <1>3, <2>6, Classes
    <2>9. \A i \in k + 1 .. w - 1 : r[i] \in Blank BY <2>6
    <2>10. /\ q.header_name_len = k - h - 1
           /\ Len(q.header_line) = (k - h - 1) + (k - w + 1)
      <3>1. Len(p.header_line) = Len(s) - h BY ZenonT(60), <1>2
      <3>2. (Len(s) - h) + 0 = Len(s) - h BY <1>1
      <3> QED BY ZenonT(60), <2>3, <2>6, <3>1, <3>2
    <2>11. \A i \in 1 .. k - h - 1 : q.header_line[i] = r[h + i]
      BY ZenonT(60), <1>4, <2>3, <2>6
    <2>12. \A i \in 1 .. k - w + 1 : q.header_line[(k - h - 1) + i] = r[w - 1 + i]
      BY <2>6
    <2>13. HeaderCopied(r, h, k, w, k, q)
      <3>1. k <= Len(r) BY <1>1, <2>5
      <3> QED
        BY ZenonT(60), <2>4, <2>6, <2>7, <2>8, <2>9, <2>10, <2>11, <2>12, <3>1
        DEF HeaderCopied
    <2> QED BY ZenonT(60), <2>2, <2>3, <2>5, <2>6, <2>13 DEF Remembers
  <1>7. CASE /\ c \in NameChar /\ Holds(p.header_line, HTTP_HEADER_LINE_MAX)
             /\ c # Colon
    <2>1. PICK q : q = [p EXCEPT !.header_line = Append(@, c)] BY Zenon
    <2>2. in_header_name(p, c) = q BY <1>7, <2>1, Classes DEF in_header_name
    <2>3. /\ Typed(q) /\ q.state = "HEADER_NAME" /\ SameHead(q, p)
          /\ q.header_line = Append(p.header_line, c)
      BY <1>1, <1>5, <2>1 DEF Typed, Fresh, SameHead
    <2>4. HeadNoted(r, h, q) BY ZenonT(60), <1>2, <2>3, HeadKept
    <2>5. /\ Len(q.header_line) = Len(p.header_line) + 1
          /\ \A i \in 1 .. Len(p.header_line) : q.header_line[i] = p.header_line[i]
          /\ q.header_line[Len(p.header_line) + 1] = c
      BY <1>1, <1>5, <2>3
    <2>6. /\ h < Len(r) /\ h \in 1 .. Len(r) /\ Len(q.header_line) = Len(r) - h
      BY <1>1, <1>2, <2>5
    <2>7. All(r, h + 1, Len(r), NameChar) BY <1>1, <1>3, <1>7 DEF All
    <2>8. ASSUME NEW i \in 1 .. Len(r) - h
          PROVE  q.header_line[i] = r[h + i]
      <3>1. CASE i \in 1 .. Len(s) - h BY ZenonT(60), <1>2, <1>4, <2>5, <3>1
      <3>2. CASE i = Len(s) - h + 1
        <4>1. h + i = Len(s) + 1 /\ i = Len(p.header_line) + 1 BY <1>1, <1>2, <3>2
        <4> QED BY ZenonT(60), <1>1, <2>5, <4>1
      <3>3. i \in 1 .. Len(s) - h \/ i = Len(s) - h + 1 BY <1>1
      <3> QED BY ZenonT(60), <3>1, <3>2, <3>3
    <2>9. NameCopied(r, h, q) BY ZenonT(60), <2>4, <2>6, <2>7, <2>8 DEF NameCopied
    <2> QED BY ZenonT(60), <2>2, <2>3, <2>6, <2>9 DEF Remembers
  <1>8. CASE /\ c # Colon
             /\ ~(c \in NameChar /\ Holds(p.header_line, HTTP_HEADER_LINE_MAX))
    <2>1. in_header_name(p, c) = Fail(p) BY <1>8 DEF in_header_name
    <2> QED BY ZenonT(60), <2>1, Rejected
  <1> QED BY ZenonT(60), <1>6, <1>7, <1>8

(* HTTP_STATE_HEADER_VALUE_SP, a blank: it is dropped. *)
LEMMA BlankStep ==
  ASSUME NEW p, Typed(p), p.state = "HEADER_VALUE_SP", NEW s, Remembers(s, p),
         NEW c \in Blank, NEW r, OneMore(r, s, c)
  PROVE  Remembers(r, p)
  <1>0. PICK h, k \in 1 .. Len(s) : HeaderCopied(s, h, k, Len(s) + 1, Len(s), p)
    BY ZenonT(60) DEF Remembers
  <1>1. Len(s) \in Nat /\ Len(r) = Len(s) + 1 /\ r[Len(s) + 1] = c BY DEF OneMore
  <1>2. SameLine(p, p) BY ZenonT(60) DEF SameLine, SameHead
  <1>3. h \in Nat /\ k \in Nat /\ Len(s) + 1 \in Nat BY <1>1
  <1>4. HeaderCopied(r, h, k, Len(s) + 1, Len(s), p)
    <2>1. PICK w : w = Len(s) + 1 OBVIOUS
    <2>2. w \in Nat /\ HeaderCopied(s, h, k, w, Len(s), p)
      BY ZenonT(60), <1>0, <1>3, <2>1
    <2>3. HeaderCopied(r, h, k, w, Len(s), p) BY ZenonT(60), <1>2, <1>3, <2>2, CopyKept
    <2> QED BY ZenonT(60), <2>1, <2>3
  <1>5. /\ HeadNoted(r, h, p) /\ h < k /\ k < Len(s) + 1 /\ Plain(r, h + 1, Len(s))
        /\ r[k] = Colon /\ \A i \in h + 1 .. k - 1 : r[i] # Colon
        /\ \A i \in k + 1 .. (Len(s) + 1) - 1 : r[i] \in Blank
        /\ p.header_name_len = k - h - 1
        /\ Len(p.header_line) = (k - h - 1) + (Len(s) - (Len(s) + 1) + 1)
        /\ \A i \in 1 .. k - h - 1 : p.header_line[i] = r[h + i]
    BY ZenonT(60), <1>4 DEF HeaderCopied
  <1>6. /\ Len(r) \in Nat /\ k < Len(r) + 1 /\ k <= Len(r) /\ Len(r) + 1 <= Len(r) + 1
        /\ Len(r) <= Len(r) /\ h \in 1 .. Len(r) /\ k \in 1 .. Len(r)
    BY <1>1, <1>3, <1>5
  <1>7. Plain(r, h + 1, Len(r))
    <2>1. c \notin {CR, LF} BY Classes DEF Blank
    <2> SUFFICES ASSUME NEW i \in h + 1 .. Len(r) PROVE r[i] \notin {CR, LF}
      BY Zenon DEF Plain
    <2>2. i \in h + 1 .. Len(s) \/ i = Len(s) + 1 BY <1>1, <1>3
    <2> QED BY ZenonT(60), <1>1, <1>5, <2>1, <2>2 DEF Plain
  <1>8. \A i \in k + 1 .. (Len(r) + 1) - 1 : r[i] \in Blank BY <1>1, <1>3, <1>5
  <1>9. Len(p.header_line) = (k - h - 1) + (Len(r) - (Len(r) + 1) + 1)
    BY <1>1, <1>3, <1>5
  <1>10. \A i \in 1 .. Len(r) - (Len(r) + 1) + 1 :
           p.header_line[(k - h - 1) + i] = r[(Len(r) + 1) - 1 + i]
    BY <1>6
  <1>11. HeaderCopied(r, h, k, Len(r) + 1, Len(r), p)
    BY ZenonT(60), <1>5, <1>6, <1>7, <1>8, <1>9, <1>10 DEF HeaderCopied
  <1> QED BY ZenonT(60), <1>6, <1>11 DEF Remembers

(* One more byte of the value. *)
LEMMA ValueGrows ==
  ASSUME NEW p, NEW q, p.header_line \in Seq(Byte), NEW s, NEW c \in Byte,
         NEW r, OneMore(r, s, c), c \notin {CR, LF},
         SameHead(q, p), q.header_name_len = p.header_name_len,
         q.header_line = Append(p.header_line, c),
         NEW h \in Nat, NEW k \in Nat, NEW w \in Nat,
         HeaderCopied(s, h, k, w, Len(s), p)
  PROVE  HeaderCopied(r, h, k, w, Len(r), q)
  <1>1. Len(s) \in Nat /\ Len(r) = Len(s) + 1 /\ r[Len(s) + 1] = c BY DEF OneMore
  <1>2. SameLine(p, p) BY Zenon DEF SameLine, SameHead
  <1>3. HeaderCopied(r, h, k, w, Len(s), p) BY Zenon, <1>2, CopyKept
  <1>4. HeadNoted(r, h, q)
    <2>1. HeadNoted(s, h, p) BY Zenon DEF HeaderCopied
    <2> QED BY Zenon, <2>1, HeadKept
  <1>5. /\ h < k /\ k < w /\ k <= Len(s) /\ w <= Len(s) + 1 /\ Plain(r, h + 1, Len(s))
        /\ r[k] = Colon /\ \A i \in h + 1 .. k - 1 : r[i] # Colon
        /\ \A i \in k + 1 .. w - 1 : r[i] \in Blank
        /\ p.header_name_len = k - h - 1
        /\ Len(p.header_line) = (k - h - 1) + (Len(s) - w + 1)
        /\ \A i \in 1 .. k - h - 1 : p.header_line[i] = r[h + i]
        /\ \A i \in 1 .. Len(s) - w + 1 : p.header_line[(k - h - 1) + i] = r[w - 1 + i]
    BY ZenonT(60), <1>3 DEF HeaderCopied
  <1>6. /\ Len(q.header_line) = Len(p.header_line) + 1
        /\ \A i \in 1 .. Len(p.header_line) : q.header_line[i] = p.header_line[i]
        /\ q.header_line[Len(p.header_line) + 1] = c
    OBVIOUS
  <1>7. /\ Len(r) \in Nat /\ k <= Len(r) /\ w <= Len(r) + 1 /\ Len(r) <= Len(r)
        /\ Len(q.header_line) = (k - h - 1) + (Len(r) - w + 1)
    <2>1. /\ k <= Len(s) /\ w <= Len(s) + 1
          /\ Len(q.header_line) = ((k - h - 1) + (Len(s) - w + 1)) + 1
      BY ZenonT(60), <1>5, <1>6
    <2>2. Len(r) \in Nat /\ k <= Len(r) /\ w <= Len(r) + 1 /\ Len(r) <= Len(r)
      BY <1>1, <2>1
    <2>3. ((k - h - 1) + (Len(s) - w + 1)) + 1 = (k - h - 1) + (Len(r) - w + 1)
      BY <1>1
    <2> QED BY ZenonT(60), <2>1, <2>2, <2>3
  <1>8. Plain(r, h + 1, Len(r))
    <2> SUFFICES ASSUME NEW i \in h + 1 .. Len(r) PROVE r[i] \notin {CR, LF}
      BY ZenonT(60) DEF Plain
    <2>1. i \in h + 1 .. Len(s) \/ i = Len(s) + 1 BY <1>1
    <2> QED BY ZenonT(60), <1>1, <1>5, <2>1 DEF Plain
  <1>9. ASSUME NEW i \in 1 .. k - h - 1
        PROVE  q.header_line[i] = r[h + i]
    <2>1. i \in 1 .. Len(p.header_line) BY <1>1, <1>5
    <2> QED BY ZenonT(60), <1>5, <1>6, <2>1
  <1>10. ASSUME NEW i \in 1 .. Len(r) - w + 1
         PROVE  q.header_line[(k - h - 1) + i] = r[w - 1 + i]
    <2>1. CASE i \in 1 .. Len(s) - w + 1
      <3>1. (k - h - 1) + i \in 1 .. Len(p.header_line) BY <1>1, <1>5, <2>1
      <3> QED BY Zenon, <1>5, <1>6, <2>1, <3>1
    <2>2. CASE i = Len(s) - w + 2
      <3>1. /\ (k - h - 1) + i = Len(p.header_line) + 1 /\ w - 1 + i = Len(s) + 1
        BY <1>1, <1>5, <2>2
      <3> QED BY ZenonT(60), <1>1, <1>6, <3>1
    <2>3. i \in 1 .. Len(s) - w + 1 \/ i = Len(s) - w + 2
      <3>1. i \in Int /\ 1 <= i /\ i <= Len(s) - w + 2 /\ Len(s) - w \in Int BY <1>1
      <3> QED BY <3>1
    <2> QED BY ZenonT(60), <2>1, <2>2, <2>3
  <1> QED BY ZenonT(60), <1>4, <1>5, <1>7, <1>8, <1>9, <1>10 DEF HeaderCopied

(* HTTP_STATE_HEADER_VALUE, also for the byte that HEADER_VALUE_SP looks   *)
(* at again.                                                               *)
LEMMA ValueStep ==
  ASSUME NEW p, Typed(p), p.state = "HEADER_VALUE", NEW s, Remembers(s, p),
         NEW c, NEW r, OneMore(r, s, c)
  PROVE  Typed(in_header_value(p, c)) /\ Remembers(r, in_header_value(p, c))
  <1>0. PICK h, k \in 1 .. Len(s), w \in 1 .. Len(s) + 1 :
          HeaderCopied(s, h, k, w, Len(s), p)
    BY ZenonT(60) DEF Remembers
  <1>1. Len(s) \in Nat /\ Len(r) = Len(s) + 1 /\ r[Len(s) + 1] = c /\ c \in Byte
    BY DEF OneMore
  <1>2. /\ h \in Nat /\ k \in Nat /\ w \in Nat
        /\ h \in 1 .. Len(r) /\ k \in 1 .. Len(r) /\ w \in 1 .. Len(r) + 1
    BY <1>1
  <1>3. p.header_line \in Seq(Byte) BY DEF Typed
  <1>4. CASE c = CR
    <2>1. PICK q : q = Goto(p, "HEADER_LF") OBVIOUS
    <2>2. in_header_value(p, c) = q BY <1>4, <2>1, Classes DEF in_header_value
    <2>3. Typed(q) /\ q.state = "HEADER_LF" /\ SameLine(q, p)
      BY Zenon, <2>1, GotoKeeps DEF States
    <2>4. HeaderCopied(r, h, k, w, Len(s), q) BY ZenonT(60), <1>0, <1>2, <2>3, CopyKept
    <2>5. 1 <= Len(r) /\ r[Len(r)] = CR /\ Len(r) - 1 = Len(s) BY <1>1, <1>4
    <2> QED BY ZenonT(60), <1>2, <2>2, <2>3, <2>4, <2>5 DEF Remembers
  <1>5. CASE /\ c \in ValueChar /\ Holds(p.header_line, HTTP_HEADER_LINE_MAX)
             /\ c # CR
    <2>1. PICK q : q = [p EXCEPT !.header_line = Append(@, c)] BY Zenon
    <2>2. in_header_value(p, c) = q BY <1>5, <2>1, Classes DEF in_header_value
    <2>3. /\ Typed(q) /\ q.state = "HEADER_VALUE" /\ SameHead(q, p)
          /\ q.header_line = Append(p.header_line, c)
          /\ q.header_name_len = p.header_name_len
      BY <1>1, <1>3, <2>1 DEF Typed, Fresh, SameHead
    <2>4. c \notin {CR, LF} BY <1>5, Classes
    <2>5. HeaderCopied(r, h, k, w, Len(r), q)
      BY ZenonT(60), <1>0, <1>1, <1>2, <1>3, <2>3, <2>4, ValueGrows
    <2> QED BY ZenonT(60), <1>2, <2>2, <2>3, <2>5 DEF Remembers
  <1>6. CASE /\ c # CR
             /\ ~(c \in ValueChar /\ Holds(p.header_line, HTTP_HEADER_LINE_MAX))
    <2>1. in_header_value(p, c) = Fail(p) BY <1>6 DEF in_header_value
    <2> QED BY Zenon, <2>1, Rejected
  <1> QED BY ZenonT(60), <1>4, <1>5, <1>6

(* Two sequences that agree are one: the name the parser compares. *)
LEMMA NameIs ==
  ASSUME NEW r \in Seq(Byte), NEW h \in Nat, NEW k \in Nat, 1 <= h, h < k,
         k <= Len(r), NEW x \in Seq(Byte), k - h - 1 <= Len(x),
         \A i \in 1 .. k - h - 1 : x[i] = r[h + i]
  PROVE  SubSeq(x, 1, k - h - 1) = Part(r, h + 1, k - 1)
  <1>0. Len(r) \in Nat /\ Len(x) \in Nat OBVIOUS
  <1>1. Shifted(x, r, 1, k - h - 1, h)
    <2>1. ASSUME NEW i \in 1 .. k - h - 1
          PROVE  x[i] = r[i + h]
      <3>1. i + h = h + i OBVIOUS
      <3> QED BY ZenonT(60), <3>1
    <2> QED BY <1>0, <2>1 DEF Shifted
  <1>2. SameText(x, r, 1, k - h - 1, h) BY ZenonT(60), <1>1, SameSpelling
  <1>3. 1 + h = h + 1 /\ (k - h - 1) + h = k - 1 OBVIOUS
  <1> QED BY Zenon, <1>2, <1>3 DEF SameText, Part

(* The value the parser scans. *)
LEMMA ValueIs ==
  ASSUME NEW r, NEW n \in Nat, NEW w \in Nat, NEW e \in Nat, w <= e + 1,
         NEW x \in Seq(Byte), Len(x) = n + (e - w + 1),
         \A i \in 1 .. e - w + 1 : x[n + i] = r[w - 1 + i]
  PROVE  ValueOf(SubSeq(x, n + 1, Len(x)), r, w, e)
  <1> DEFINE v == SubSeq(x, n + 1, Len(x))
  <1>0. Len(x) \in Nat OBVIOUS
  <1>1. /\ v \in Seq(Byte) /\ Len(v) = Len(x) - n
        /\ \A i \in 1 .. Len(x) - n : v[i] = x[n + i]
    BY <1>0
  <1> HIDE DEF v
  <1>2. Len(x) - n = e - w + 1 BY <1>0
  <1>3. Len(v) = e - w + 1 /\ \A i \in 1 .. e - w + 1 : v[i] = r[w - 1 + i]
    BY Zenon, <1>1, <1>2
  <1>4. ValueOf(v, r, w, e) BY Zenon, <1>1, <1>3 DEF ValueOf
  <1> QED BY ZenonT(60), <1>4 DEF v

(* HTTP_STATE_HEADER_LF: note_connection_header(). *)
LEMMA HeaderLfStep ==
  ASSUME NEW p, Typed(p), p.state = "HEADER_LF", NEW s, Remembers(s, p),
         NEW r, OneMore(r, s, LF)
  PROVE  Typed(at_header_lf(p, LF)) /\ Remembers(r, at_header_lf(p, LF))
  <1>0. /\ 1 <= Len(s) /\ s[Len(s)] = CR
        /\ \E h, k \in 1 .. Len(s) : \E w \in 1 .. Len(s) + 1 :
             HeaderCopied(s, h, k, w, Len(s) - 1, p)
    BY Zenon DEF Remembers
  <1>1. PICK h, k \in 1 .. Len(s), w \in 1 .. Len(s) + 1 :
          HeaderCopied(s, h, k, w, Len(s) - 1, p)
    BY ZenonT(60), <1>0
  <1>2. /\ r \in Seq(Byte) /\ Len(s) \in Nat /\ Len(r) = Len(s) + 1
        /\ r[Len(s) + 1] = LF /\ \A i \in 1 .. Len(s) : r[i] = s[i]
    BY DEF OneMore
  <1>3. PICK e : e = Len(s) - 1 OBVIOUS
  <1>4. h \in Nat /\ k \in Nat /\ w \in Nat BY <1>2
  <1>5. SameLine(p, p) BY Zenon DEF SameLine, SameHead
  <1>6. HeaderCopied(r, h, k, w, e, p)
    <2>1. HeaderCopied(s, h, k, w, e, p) BY ZenonT(60), <1>1, <1>3
    <2> QED BY ZenonT(60), <1>4, <1>5, <2>1, CopyKept
  <1>7. /\ HeadNoted(r, h, p) /\ e \in Nat
        /\ h < k /\ k < w /\ k <= e /\ w <= e + 1 /\ e <= Len(r) /\ Plain(r, h + 1, e)
        /\ r[k] = Colon /\ \A i \in h + 1 .. k - 1 : r[i] # Colon
        /\ \A i \in k + 1 .. w - 1 : r[i] \in Blank
        /\ p.header_name_len = k - h - 1
        /\ Len(p.header_line) = (k - h - 1) + (e - w + 1)
        /\ \A i \in 1 .. k - h - 1 : p.header_line[i] = r[h + i]
        /\ \A i \in 1 .. e - w + 1 : p.header_line[(k - h - 1) + i] = r[w - 1 + i]
    BY Zenon, <1>6 DEF HeaderCopied
  <1>8. HeaderAt(r, h, k, w, e)
    <2>1. 1 <= h /\ Len(r) = e + 2 /\ r[e + 1] = CR BY <1>0, <1>2, <1>3
    <2>2. r[h] = LF BY ZenonT(60), <1>7 DEF HeadNoted
    <2> QED BY ZenonT(60), <1>4, <1>7, <2>1, <2>2 DEF HeaderAt
  <1>9. PICK x : x = p.header_line OBVIOUS
  <1>10. PICK n : n = k - h - 1 OBVIOUS
  <1>11. /\ x \in Seq(Byte) /\ n \in Nat /\ k - h - 1 <= Len(x) /\ k <= Len(r)
         /\ 1 <= h /\ Len(x) \in Nat
    <2>1. x \in Seq(Byte) /\ Len(x) \in Nat BY <1>9 DEF Typed
    <2>2. n \in Nat /\ k <= Len(r) /\ 1 <= h BY <1>4, <1>7, <1>2, <1>10
    <2>3. k - h - 1 <= Len(x) BY <1>4, <1>7, <1>9
    <2> QED BY ZenonT(60), <2>1, <2>2, <2>3
  <1>12. SubSeq(x, 1, n) = Part(r, h + 1, k - 1)
    <2>1. \A i \in 1 .. k - h - 1 : x[i] = r[h + i] BY ZenonT(60), <1>7, <1>9
    <2>2. SubSeq(x, 1, k - h - 1) = Part(r, h + 1, k - 1)
      BY ZenonT(60), <1>2, <1>4, <1>7, <1>11, <2>1, NameIs
    <2> QED BY Zenon, <1>10, <2>2
  <1>13. PICK v : v = SubSeq(x, n + 1, Len(x)) BY Zenon
  <1>14. ValueOf(v, r, w, e)
    <2>1. /\ Len(x) = n + (e - w + 1)
          /\ \A i \in 1 .. e - w + 1 : x[n + i] = r[w - 1 + i]
      BY Zenon, <1>7, <1>9, <1>10
    <2> QED BY Zenon, <1>4, <1>7, <1>11, <1>13, <2>1, ValueIs
  <1>15. PICK d : d = IF Part(r, h + 1, k - 1) \in ConnectionNames
                      THEN TokenWins(p.connection_directive, Scan(v)[1])
                      ELSE p.connection_directive
    OBVIOUS
  <1>16. Noted(r, Len(r), d)
    <2>1. Noted(r, h, p.connection_directive) BY Zenon, <1>7 DEF HeadNoted
    <2> QED BY ZenonT(60), <1>2, <1>8, <1>14, <1>15, <2>1, HeaderNoted
  <1>17. header_name_is(p, ConnectionNames)
           <=> Part(r, h + 1, k - 1) \in ConnectionNames
    BY ZenonT(60), <1>7, <1>9, <1>10, <1>12 DEF header_name_is
  <1>18. note_connection_header(p) = TokenWins(p.connection_directive, Scan(v)[1])
    BY ZenonT(60), <1>7, <1>9, <1>10, <1>13 DEF note_connection_header
  <1>19. PICK q : q = [p EXCEPT !.connection_directive = d,
                                !.header_count = @ + 1, !.state = "HEADER_LINE_START"]
    OBVIOUS
  <1>20. at_header_lf(p, LF) = q
    <2>1. d = IF header_name_is(p, ConnectionNames)
              THEN note_connection_header(p) ELSE p.connection_directive
      BY ZenonT(60), <1>15, <1>17, <1>18
    <2> QED BY ZenonT(60), <1>19, <2>1 DEF at_header_lf
  <1>21. /\ Typed(q) /\ q.state = "HEADER_LINE_START" /\ q.http = p.http
         /\ q.connection_directive = d
    BY <1>19 DEF Typed, Fresh, States
  <1>22. VersionNoted(r, q)
    <2>1. VersionNoted(r, p) BY Zenon, <1>7 DEF HeadNoted
    <2> QED BY ZenonT(60), <1>21, <2>1 DEF VersionNoted
  <1>23. Len(r) \in 1 .. Len(r) /\ r[Len(r)] = LF
    <2>1. Len(s) \in Nat /\ Len(r) = Len(s) + 1 BY ZenonT(60), <1>2
    <2>2. Len(r) \in 1 .. Len(r) BY <2>1
    <2> QED BY ZenonT(60), <1>2, <2>2
  <1>24. HeadNoted(r, Len(r), q) BY ZenonT(60), <1>16, <1>21, <1>22, <1>23 DEF HeadNoted
  <1> QED BY ZenonT(60), <1>20, <1>21, <1>24 DEF Remembers

(* HTTP_STATE_HEADERS_END_LF *)
LEMMA HeadersEndStep ==
  ASSUME NEW p, Typed(p), p.state = "HEADERS_END_LF", NEW s, Remembers(s, p),
         NEW r, OneMore(r, s, LF)
  PROVE  Typed(Goto(p, "DONE")) /\ Remembers(r, Goto(p, "DONE"))
  <1>0. 1 < Len(s) /\ s[Len(s)] = CR /\ HeadNoted(s, Len(s) - 1, p)
    BY ZenonT(60) DEF Remembers
  <1>1. /\ Len(s) \in Nat /\ Len(r) = Len(s) + 1
        /\ r[Len(s) + 1] = LF /\ \A i \in 1 .. Len(s) : r[i] = s[i]
    BY DEF OneMore
  <1>2. PICK q : q = Goto(p, "DONE") OBVIOUS
  <1>3. Typed(q) /\ q.state = "DONE" /\ SameHead(q, p)
    BY ZenonT(60), <1>2, GotoKeeps DEF States, SameLine
  <1>4. /\ 2 < Len(r) /\ r[Len(r)] = LF /\ r[Len(r) - 1] = CR
        /\ Len(r) - 2 = Len(s) - 1
    BY <1>0, <1>1
  <1>5. PICK h : h = Len(s) - 1 OBVIOUS
  <1>6. HeadNoted(r, h, q)
    <2>1. HeadNoted(s, h, p) BY ZenonT(60), <1>0, <1>5
    <2> QED BY ZenonT(60), <1>3, <2>1, HeadKept
  <1>7. Remembers(r, q) BY ZenonT(60), <1>3, <1>4, <1>5, <1>6 DEF Remembers
  <1> QED BY ZenonT(60), <1>2, <1>3, <1>7

-----------------------------------------------------------------------------
(* The inductive invariant. *)

(* Whatever the next byte is, the parser remembers what it must. *)
LEMMA EatStep ==
  ASSUME NEW s, NEW p, Typed(p), Remembers(s, p), p.state \notin Terminal,
         NEW c, NEW r, OneMore(r, s, c)
  PROVE  Typed(Eat(p, c)) /\ Remembers(r, Eat(p, c))
  <1>1. CASE p.state = "METHOD"
    <2>1. Eat(p, c) = in_method(p, c) BY <1>1 DEF Eat, Advances, step
    <2> QED BY ZenonT(60), <1>1, <2>1, MethodStep
  <1>2. CASE p.state = "PATH"
    <2>1. Eat(p, c) = in_path(p, c) BY <1>2 DEF Eat, Advances, step
    <2> QED BY ZenonT(60), <1>2, <2>1, PathStep
  <1>3. CASE p.state = "VERSION"
    <2>1. Eat(p, c) = in_version(p, c) BY <1>3 DEF Eat, Advances, step
    <2> QED BY ZenonT(60), <1>3, <2>1, VersionStep
  <1>4. CASE p.state = "REQUEST_LINE_LF" /\ c = LF
    <2>1. Eat(p, c) = Goto(p, "HEADER_LINE_START") BY <1>4 DEF Eat, Advances, step
    <2> QED BY ZenonT(60), <1>4, <2>1, RequestLineLfStep
  <1>5. CASE p.state = "HEADER_LINE_START"
    <2>1. Eat(p, c) = at_line_start(p, c) BY <1>5 DEF Eat, Advances, step
    <2> QED BY ZenonT(60), <1>5, <2>1, LineStartStep
  <1>6. CASE p.state = "HEADER_NAME"
    <2>1. Eat(p, c) = in_header_name(p, c) BY <1>6 DEF Eat, Advances, step
    <2> QED BY ZenonT(60), <1>6, <2>1, NameStep
  <1>7. CASE p.state = "HEADER_VALUE_SP" /\ c \in Blank
    <2>1. Eat(p, c) = p BY <1>7 DEF Eat, Advances, step, in_value_sp, Blank
    <2> QED BY ZenonT(60), <1>7, <2>1, BlankStep
  <1>8. CASE p.state = "HEADER_VALUE_SP" /\ c \notin Blank
    <2>1. PICK q : q = Goto(p, "HEADER_VALUE") OBVIOUS
    <2>2. Typed(q) /\ q.state = "HEADER_VALUE" /\ SameLine(q, p)
      BY ZenonT(60), <2>1, GotoKeeps DEF States
    <2>3. Eat(p, c) = in_header_value(q, c)
      <3>1. step(p, c) = q BY <1>8, <2>1 DEF step, in_value_sp, Advances, Blank
      <3>2. step(q, c) = in_header_value(q, c) BY <2>2 DEF step
      <3>3. ~Advances(p, c) BY <1>8 DEF Advances, Blank
      <3> QED BY ZenonT(60), <3>1, <3>2, <3>3 DEF Eat
    <2>4. PICK h, k \in 1 .. Len(s) : HeaderCopied(s, h, k, Len(s) + 1, Len(s), p)
      BY ZenonT(60), <1>8 DEF Remembers
    <2>5. HeaderCopied(s, h, k, Len(s) + 1, Len(s), q)
      <3>1. HeadNoted(s, h, q)
        BY ZenonT(60), <2>2, <2>4 DEF HeaderCopied, HeadNoted, VersionNoted, SameLine, SameHead
      <3> QED BY ZenonT(60), <2>2, <2>4, <3>1 DEF HeaderCopied, SameLine
    <2>6. Len(s) + 1 \in 1 .. Len(s) + 1
      <3>1. Len(s) \in Nat BY DEF OneMore
      <3> QED BY <3>1
    <2>7. Remembers(s, q) BY ZenonT(60), <2>2, <2>5, <2>6 DEF Remembers
    <2> QED BY ZenonT(60), <2>2, <2>3, <2>7, ValueStep
  <1>9. CASE p.state = "HEADER_VALUE"
    <2>1. Eat(p, c) = in_header_value(p, c) BY <1>9 DEF Eat, Advances, step
    <2> QED BY ZenonT(60), <1>9, <2>1, ValueStep
  <1>10. CASE p.state = "HEADER_LF" /\ c = LF
    <2>1. Eat(p, c) = at_header_lf(p, LF) BY <1>10 DEF Eat, Advances, step
    <2> QED BY ZenonT(60), <1>10, <2>1, HeaderLfStep
  <1>11. CASE p.state = "HEADERS_END_LF" /\ c = LF
    <2>1. Eat(p, c) = Goto(p, "DONE") BY <1>11 DEF Eat, Advances, step
    <2> QED BY ZenonT(60), <1>11, <2>1, HeadersEndStep
  <1>12. CASE /\ p.state \in {"REQUEST_LINE_LF", "HEADER_LF", "HEADERS_END_LF"}
              /\ c # LF
    <2>1. Eat(p, c) = Fail(p)
      BY ZenonT(60), <1>12 DEF Eat, Advances, step, at_header_lf, Goto, Fail
    <2> QED BY ZenonT(60), <2>1, Rejected
  <1> QED
    BY ZenonT(60), <1>1, <1>2, <1>3, <1>4, <1>5, <1>6, <1>7, <1>8, <1>9, <1>10, <1>11, <1>12
    DEF Typed, States, Terminal

(* A fresh parser has nothing to remember. *)
LEMMA FreshRemembers == Typed(Fresh) /\ Remembers(<<>>, Fresh)
  <1>1. /\ Typed(Fresh) /\ Fresh.state = "METHOD" /\ Fresh.version = <<>>
        /\ Fresh.connection_directive = "UNSPECIFIED"
    BY DEF Typed, Fresh, States
  <1>2. Plain(<<>>, 1, Len(<<>>)) BY DEF Plain
  <1> QED BY ZenonT(60), <1>1, <1>2 DEF Remembers, NoneNoted

(* Every step of ByteFeed keeps IInv. *)
LEMMA IInvStep ==
  ASSUME IInv, [Next]_vars
  PROVE  IInv'
  <1>1. ASSUME NEW c \in Byte, Feed(c) PROVE IInv'
    <2>1. fed \in Seq(Byte) BY DEF IInv
    <2>2. fed' = Append(fed, c) /\ parser' = Eat(parser, c) /\ parser.state \notin Terminal
      BY ZenonT(60), <1>1 DEF Feed
    <2>3. OneMore(fed', fed, c) BY <2>1, <2>2 DEF OneMore
    <2>4. Typed(Eat(parser, c)) /\ Remembers(fed', Eat(parser, c))
      BY ZenonT(60), <2>2, <2>3, EatStep DEF IInv
    <2> QED BY ZenonT(60), <2>2, <2>3, <2>4 DEF IInv, OneMore
  <1>2. CASE Restart
    <2>1. fed' = <<>> /\ parser' = Fresh BY ZenonT(60), <1>2 DEF Restart
    <2>2. fed' \in Seq(Byte) BY <2>1
    <2> QED BY Zenon, <2>1, <2>2, FreshRemembers DEF IInv
  <1>3. CASE UNCHANGED vars BY Zenon, <1>3 DEF vars, IInv
  <1> QED BY ZenonT(60), <1>1, <1>2, <1>3 DEF Next

(* The parser remembers of its input what its answer will need. *)
THEOREM ParserRemembers == Spec => []IInv
  <1>1. Init => IInv
    <2> SUFFICES ASSUME Init PROVE IInv OBVIOUS
    <2>1. fed = <<>> /\ parser = Fresh BY Zenon DEF Init
    <2>2. fed \in Seq(Byte) BY <2>1
    <2> QED BY ZenonT(60), <2>1, <2>2, FreshRemembers DEF IInv
  <1>2. IInv /\ [Next]_vars => IInv' BY Zenon, IInvStep
  <1> QED BY <1>1, <1>2, PTL DEF Spec

-----------------------------------------------------------------------------
(* The answer. *)

(* The version of a request is the one in its first line. *)
LEMMA VersionIs ==
  ASSUME NEW s \in Seq(Byte), NEW p, VersionNoted(s, p)
  PROVE  p.http = Versions[VersionOf(s)]
  <1>0. Len(s) \in Nat OBVIOUS
  <1>1. PICK y, e \in 1 .. Len(s) :
          /\ y <= e /\ e < Len(s) /\ s[e + 1] = CR /\ Plain(s, 1, e)
          /\ s[y] = SP /\ All(s, y + 1, e, VersionChar)
          /\ Part(s, y + 1, e) \in DOMAIN Versions
          /\ p.http = Versions[Part(s, y + 1, e)]
    BY ZenonT(60) DEF VersionNoted
  <1> DEFINE P(v) == \E a, z \in 1 .. Len(s) - 1 :
                       /\ a <= z /\ IsLine(s, 1, z) /\ s[a] = SP
                       /\ v = SubSeq(s, a + 1, z) /\ All(s, a + 1, z, VersionChar)
  <1>a. y <= e /\ e < Len(s) BY Zenon, <1>1
  <1>2. y \in 1 .. Len(s) - 1 /\ e \in 1 .. Len(s) - 1 BY <1>0, <1>a
  <1>3. IsLine(s, 1, e) BY ZenonT(60), <1>1 DEF IsLine, StartsLine, Plain
  <1>4. P(Part(s, y + 1, e)) BY ZenonT(60), <1>1, <1>2, <1>3 DEF Part
  <1>5. ASSUME NEW v, P(v) PROVE v = Part(s, y + 1, e)
    <2>1. PICK a, z \in 1 .. Len(s) - 1 :
            /\ a <= z /\ IsLine(s, 1, z) /\ s[a] = SP
            /\ v = SubSeq(s, a + 1, z) /\ All(s, a + 1, z, VersionChar)
      BY ZenonT(60), <1>5
    <2>2. s[z + 1] = CR /\ \A i \in 1 .. z : s[i] \notin {CR, LF}
      BY ZenonT(60), <2>1 DEF IsLine
    <2>3. ~(z < e) BY <1>0, <1>1, <2>1, <2>2 DEF Plain
    <2>4. ~(e < z) BY <1>0, <1>1, <2>1, <2>2
    <2>5. z = e BY <1>0, <2>1, <2>3, <2>4
    <2>6. SP \notin VersionChar BY Classes
    <2>7. ~(a < y) BY <1>0, <1>1, <2>1, <2>5, <2>6 DEF All
    <2>8. ~(y < a) BY <1>0, <1>1, <2>1, <2>5, <2>6 DEF All
    <2>9. a = y BY <1>0, <2>1, <2>7, <2>8
    <2> QED BY ZenonT(60), <2>1, <2>5, <2>9 DEF Part
  <1>6. VersionOf(s) = CHOOSE v \in DOMAIN Versions : P(v) BY Zenon DEF VersionOf
  <1> HIDE DEF P
  <1>7. VersionOf(s) = Part(s, y + 1, e) BY ZenonT(60), <1>1, <1>4, <1>5, <1>6
  <1> QED BY ZenonT(60), <1>1, <1>7

(* In a complete request every token has been noted. *)
LEMMA AllNoted ==
  ASSUME NEW s \in Seq(Byte), 2 < Len(s), s[Len(s)] = LF, s[Len(s) - 1] = CR,
         NEW d, Noted(s, Len(s) - 2, d)
  PROVE  Last(s, KnownTokens(s), d)
  <1>0. Len(s) \in Nat OBVIOUS
  <1>1. ASSUME NEW t \in KnownTokens(s) PROVE t[2] <= Len(s) - 2
    <2>1. PICK x, y, b, k, e : t = <<x, y>> /\ TokenIn(s, x, y, b, k, e)
      BY Zenon, TokenHasLine
    <2>2. /\ x \in Nat /\ y \in Nat /\ b \in Nat /\ k \in Nat /\ e \in Nat
          /\ b <= k /\ k < x /\ x <= y /\ y <= e /\ e < Len(s) /\ Plain(s, b, e)
      BY ZenonT(60), <2>1 DEF TokenIn
    <2>3. y # Len(s) - 1 BY <1>0, <2>2 DEF Plain
    <2>4. y <= Len(s) - 2 BY <1>0, <2>2, <2>3
    <2>5. t[2] = y BY <2>1
    <2> QED BY ZenonT(60), <2>4, <2>5
  <1>2. KnownUpTo(s, Len(s) - 2) = KnownTokens(s) BY Zenon, <1>1 DEF KnownUpTo
  <1> QED BY ZenonT(60), <1>2 DEF Noted

(* IInv answers the question. *)
LEMMA AnswerIsRight == IInv => PersistsAsAsked
  <1> SUFFICES ASSUME IInv, parser.state = "DONE", ~LaterByDefault(fed)
               PROVE  http_parser_should_keep_alive(parser) = Persists(fed)
    BY Zenon DEF PersistsAsAsked
  <1>1. PICK s : s = fed OBVIOUS
  <1>2. PICK d : d = parser.connection_directive OBVIOUS
  <1>3. s \in Seq(Byte) BY ZenonT(60), <1>1 DEF IInv
  <1>4. /\ 2 < Len(s) /\ s[Len(s)] = LF /\ s[Len(s) - 1] = CR
        /\ HeadNoted(s, Len(s) - 2, parser)
    BY ZenonT(60), <1>1 DEF IInv, Remembers
  <1>5. VersionNoted(s, parser) /\ Noted(s, Len(s) - 2, d)
    BY ZenonT(60), <1>2, <1>4 DEF HeadNoted
  <1>6. parser.http = Versions[VersionOf(s)] BY ZenonT(60), <1>3, <1>5, VersionIs
  <1>7. Last(s, KnownTokens(s), d) BY ZenonT(60), <1>3, <1>4, <1>5, AllNoted
  <1>8. AreKnown(s, KnownTokens(s)) /\ Apart(KnownTokens(s))
    BY ZenonT(60), <1>3, KnownApart
  <1> DEFINE modern == parser.http[1] = 1 /\ parser.http[2] >= 1
  <1>9. CASE KnownTokens(s) = {}
    <2>1. d = "UNSPECIFIED" BY ZenonT(60), <1>7, <1>9 DEF Last
    <2>2. http_parser_should_keep_alive(parser) = modern
      BY <1>2, <2>1 DEF http_parser_should_keep_alive
    <2>3. ~(parser.http[1] > 1) BY ZenonT(60), <1>1, <1>6, <1>9 DEF LaterByDefault
    <2>4. Persists(s) = modern BY ZenonT(60), <1>6, <1>9, <2>3 DEF Persists
    <2> QED BY ZenonT(60), <1>1, <2>2, <2>4
  <1>10. CASE KnownTokens(s) # {}
    <2>1. PICK t \in KnownTokens(s) : /\ \A u \in KnownTokens(s) : u[1] <= t[1]
                                      /\ d = Meaning(Part(s, t[1], t[2]))
      BY ZenonT(60), <1>7, <1>10 DEF Last
    <2> DEFINE IsLast(u) == \A x \in KnownTokens(s) : x[1] <= u[1]
    <2>2. PICK u : u = CHOOSE x \in KnownTokens(s) : IsLast(x) OBVIOUS
    <2>3. u \in KnownTokens(s) /\ IsLast(u) BY ZenonT(60), <2>1, <2>2
    <2>4. t[1] \in Nat /\ u[1] \in Nat BY <1>8, <2>3 DEF AreKnown
    <2>5. t[1] <= u[1] /\ u[1] <= t[1] BY ZenonT(60), <2>1, <2>3
    <2>6. t[1] = u[1] BY <2>4, <2>5
    <2>7. t = u BY ZenonT(60), <1>8, <2>3, <2>6 DEF Apart
    <2>8. Persists(s) = (SubSeq(s, u[1], u[2]) \in KeepAliveTokens)
      BY ZenonT(60), <1>10, <2>2 DEF Persists
    <2>9. Part(s, t[1], t[2]) \in Known BY ZenonT(60), <1>8 DEF AreKnown
    <2>10. /\ d \in {"CLOSE", "KEEPALIVE"}
           /\ d = "KEEPALIVE" <=> Part(s, t[1], t[2]) \in KeepAliveTokens
      BY ZenonT(60), <2>1, <2>9, KnownMeans
    <2>11. http_parser_should_keep_alive(parser) = (d = "KEEPALIVE")
      BY ZenonT(60), <1>2, <2>10 DEF http_parser_should_keep_alive
    <2>12. Persists(s) = (Part(s, t[1], t[2]) \in KeepAliveTokens)
      BY ZenonT(60), <2>7, <2>8 DEF Part
    <2>13. (d = "KEEPALIVE") = (Part(s, t[1], t[2]) \in KeepAliveTokens) BY <2>10
    <2> QED BY ZenonT(60), <1>1, <2>11, <2>12, <2>13
  <1> QED BY ZenonT(60), <1>9, <1>10

(* note_connection_header() and http_parser_should_keep_alive() let the    *)
(* last known Connection token of the whole request decide, else its       *)
(* version, up to HTTP/1.x.                                                *)
THEOREM PersistsAsItAsks == Spec => []PersistsAsAsked
  BY ParserRemembers, AnswerIsRight, PTL
=============================================================================
