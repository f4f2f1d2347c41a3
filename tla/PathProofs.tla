----------------------------- MODULE PathProofs -----------------------------
(***************************************************************************)
(* The loops of StaticPaths do what PathMeaning says, for every path,      *)
(* every canonical root and every size of the buffers.                     *)
(***************************************************************************)
EXTENDS PathMeaning, FiniteSetTheorems, TLAPS

(* The time, in seconds, that a step gives each prover. *)
USE SMTT(30), ZenonT(60)

(* A set of naturals has a least element: what the loops over a path stop  *)
(* at is the first of its kind.                                            *)
LEMMA LeastNatural ==
  ASSUME NEW T, T \subseteq Nat, T # {}
  PROVE  \E n \in T : \A m \in T : n <= m
<1> DEFINE R == {ss \in Nat \X Nat : ss[1] < ss[2]}
<1>1. IsWellFoundedOn(R, Nat)
  BY Zenon, NatLessThanWellFounded DEF OpToRel
<1> HIDE DEF R
<1>2. PICK n \in T : \A m \in T : <<m, n>> \notin R
  BY Zenon, <1>1, WFMin
<1>3. ASSUME NEW m \in T PROVE n <= m
  <2>1. ~(m < n) BY ZenonT(60), <1>2 DEF R
  <2> QED BY <2>1
<1> QED BY <1>3

(* A bounded one has a greatest. *)
LEMMA GreatestNatural ==
  ASSUME NEW m \in Nat, NEW T, T \subseteq 0 .. m, T # {}
  PROVE  \E n \in T : \A k \in T : k <= n
<1> DEFINE U == {m - k : k \in T}
<1>0. \A k \in T : m - k \in Nat OBVIOUS
<1>1. U \subseteq Nat /\ U # {} BY Zenon, <1>0
<1>2. PICK u \in U : \A v \in U : u <= v BY ZenonT(60), <1>1, LeastNatural
<1>3. PICK n \in T : u = m - n OBVIOUS
<1>4. ASSUME NEW k \in T PROVE k <= n
  <2>1. m - n <= m - k BY <1>2, <1>3
  <2> QED BY <2>1
<1> QED BY <1>4

-----------------------------------------------------------------------------
(* What a segment is, of a pair of positions. *)
LEMMA SegFacts ==
  ASSUME NEW s \in Seq(Byte), NEW b, NEW e
  PROVE  <<b, e>> \in Segs(s) <=>
           /\ b \in 1 .. Len(s) /\ e \in 1 .. Len(s) /\ b <= e
           /\ \A k \in b .. e : s[k] # Slash
           /\ b = 1 \/ s[b - 1] = Slash
           /\ e = Len(s) \/ s[e + 1] = Slash
BY DEF Segs

(* A segment is a pair of positions. *)
LEMMA SegPair ==
  ASSUME NEW s \in Seq(Byte), NEW g \in Segs(s)
  PROVE  \E b, e \in 1 .. Len(s) : g = <<b, e>>
BY DEF Segs

(* From a byte that is no slash a segment goes on to an end. *)
LEMMA SegEnds ==
  ASSUME NEW s \in Seq(Byte), NEW k \in 1 .. Len(s), s[k] # Slash
  PROVE  \E e \in k .. Len(s) :
           (\A j \in k .. e : s[j] # Slash) /\ (e = Len(s) \/ s[e + 1] = Slash)
<1> DEFINE T == {e \in k .. Len(s) : e = Len(s) \/ s[e + 1] = Slash}
<1>1. T \subseteq Nat /\ Len(s) \in T OBVIOUS
<1>2. PICK e \in T : \A m \in T : e <= m BY ZenonT(60), <1>1, LeastNatural
<1>3. ASSUME NEW j \in k .. e PROVE s[j] # Slash
  <2>1. CASE j = k BY <2>1
  <2>2. CASE j # k
    <3>1. j - 1 \in k .. Len(s) /\ ~(e <= j - 1) BY <1>2, <2>2
    <3>2. j - 1 \notin T BY Zenon, <1>2, <3>1
    <3> QED BY <3>1, <3>2
  <2> QED BY <2>1, <2>2
<1> QED BY <1>2, <1>3

(* And back to its beginning. *)
LEMMA SegBegins ==
  ASSUME NEW s \in Seq(Byte), NEW k \in 1 .. Len(s), s[k] # Slash
  PROVE  \E b \in 1 .. k :
           (\A j \in b .. k : s[j] # Slash) /\ (b = 1 \/ s[b - 1] = Slash)
<1> DEFINE T == {b \in 1 .. k : b = 1 \/ s[b - 1] = Slash}
<1>1. T \subseteq 0 .. k /\ 1 \in T /\ k \in Nat OBVIOUS
<1>2. PICK b \in T : \A m \in T : m <= b BY ZenonT(60), <1>1, GreatestNatural
<1>3. ASSUME NEW j \in b .. k PROVE s[j] # Slash
  <2>1. CASE j = k BY <2>1
  <2>2. CASE j # k
    <3>1. j + 1 \in 1 .. k /\ b < j + 1 BY <1>2, <2>2
    <3>2. j + 1 \notin T BY <1>2, <3>1
    <3> QED BY <3>1, <3>2
  <2> QED BY <2>1, <2>2
<1> QED BY <1>2, <1>3

(* Every byte that is no slash is in a segment. *)
LEMMA InSegment ==
  ASSUME NEW s \in Seq(Byte), NEW k \in 1 .. Len(s), s[k] # Slash
  PROVE  \E b \in 1 .. k : \E e \in k .. Len(s) : <<b, e>> \in Segs(s)
<1>1. PICK b \in 1 .. k :
        (\A j \in b .. k : s[j] # Slash) /\ (b = 1 \/ s[b - 1] = Slash)
  BY SegBegins
<1>2. PICK e \in k .. Len(s) :
        (\A j \in k .. e : s[j] # Slash) /\ (e = Len(s) \/ s[e + 1] = Slash)
  BY SegEnds
<1>3. \A j \in b .. e : s[j] # Slash BY <1>1, <1>2
<1>4. <<b, e>> \in Segs(s) BY <1>1, <1>2, <1>3, SegFacts
<1> QED BY ZenonT(60), <1>4

(* The root of all has no segment. *)
LEMMA TopHasNone == Segs(<<Slash>>) = {}
BY DEF Segs

-----------------------------------------------------------------------------
(* What a canonical path other than "/" is made of. *)
LEMMA CanonicalFacts ==
  ASSUME NEW s \in Seq(Byte), Canonical(s), s # <<Slash>>
  PROVE  /\ Len(s) \in Nat /\ Len(s) > 1 /\ s[1] = Slash /\ s[Len(s)] # Slash
         /\ \A k \in 1 .. Len(s) :
              s[k] = Slash => k + 1 \in 1 .. Len(s) /\ s[k + 1] # Slash
<1>1. Len(s) \in Nat /\ Len(s) > 1 /\ s[1] = Slash /\ s[Len(s)] # Slash
  BY DEF Canonical
<1>2. ASSUME NEW k \in 1 .. Len(s), s[k] = Slash
      PROVE  k + 1 \in 1 .. Len(s) /\ s[k + 1] # Slash
  <2>1. k + 1 \in 2 .. Len(s) BY <1>1, <1>2
  <2>2. \A j \in 2 .. Len(s) : s[j - 1] # Slash \/ s[j] # Slash BY DEF Canonical
  <2>3. s[(k + 1) - 1] # Slash \/ s[k + 1] # Slash BY Zenon, <2>1, <2>2
  <2> QED BY <1>2, <2>1, <2>3
<1> QED BY <1>1, <1>2

(* Two paths with the same bytes are the same. *)
LEMMA SameBytes ==
  ASSUME NEW x \in Seq(Byte), NEW y \in Seq(Byte), Len(x) = Len(y),
         \A k \in 1 .. Len(x) : x[k] = y[k]
  PROVE  x = y
OBVIOUS

(* Two pieces at the same place are the same byte by byte. *)
LEMMA SamePiece ==
  ASSUME NEW r \in Seq(Byte), NEW s \in Seq(Byte), NEW b \in 1 .. Len(r), NEW e \in b .. Len(r),
         e <= Len(s)
  PROVE  SubSeq(s, b, e) = SubSeq(r, b, e) <=> \A k \in b .. e : s[k] = r[k]
<1>1. /\ SubSeq(s, b, e) \in Seq(Byte) /\ Len(SubSeq(s, b, e)) = e - b + 1
      /\ \A k \in 1 .. e - b + 1 : SubSeq(s, b, e)[k] = s[b + k - 1]
  OBVIOUS
<1>2. /\ SubSeq(r, b, e) \in Seq(Byte) /\ Len(SubSeq(r, b, e)) = e - b + 1
      /\ \A k \in 1 .. e - b + 1 : SubSeq(r, b, e)[k] = r[b + k - 1]
  OBVIOUS
<1>3. ASSUME SubSeq(s, b, e) = SubSeq(r, b, e), NEW k \in b .. e PROVE s[k] = r[k]
  <2>1. k - b + 1 \in 1 .. e - b + 1 /\ b + (k - b + 1) - 1 = k OBVIOUS
  <2> QED BY <1>1, <1>2, <1>3, <2>1
<1>4. ASSUME \A k \in b .. e : s[k] = r[k] PROVE SubSeq(s, b, e) = SubSeq(r, b, e)
  <2>1. ASSUME NEW k \in 1 .. e - b + 1 PROVE SubSeq(s, b, e)[k] = SubSeq(r, b, e)[k]
    <3>1. b + k - 1 \in b .. e OBVIOUS
    <3>2. s[b + k - 1] = r[b + k - 1] BY Zenon, <1>4, <3>1
    <3> QED BY Zenon, <1>1, <1>2, <3>2
  <2> HIDE <1>4
  <2>2. PICK x : x = SubSeq(s, b, e) BY ZenonT(60)
  <2>3. PICK y : y = SubSeq(r, b, e) BY ZenonT(60)
  <2>4. x \in Seq(Byte) /\ y \in Seq(Byte) /\ Len(x) = Len(y) /\ Len(x) = e - b + 1
    BY Zenon, <1>1, <1>2, <2>2, <2>3
  <2>5. \A k \in 1 .. Len(x) : x[k] = y[k] BY Zenon, <2>1, <2>2, <2>3, <2>4
  <2>6. x = y BY ZenonT(60), <2>4, <2>5, SameBytes
  <2> QED BY Zenon, <2>2, <2>3, <2>6
<1> QED BY Zenon, <1>3, <1>4

(* s has what r has, where r has it. *)
LEMMA UnderFacts ==
  ASSUME NEW r \in Seq(Byte), NEW s \in Seq(Byte), Under(r, s),
         NEW b \in 1 .. Len(r), NEW e \in b .. Len(r), <<b, e>> \in Segs(r)
  PROVE  /\ <<b, e>> \in Segs(s) /\ e <= Len(s)
         /\ \A k \in b .. e : s[k] = r[k]
<1>1. <<b, e>> \in Segs(s) /\ SubSeq(s, b, e) = SubSeq(r, b, e)
  BY ZenonT(60) DEF Under, Is
<1>2. e <= Len(s) BY <1>1, SegFacts
<1> QED BY <1>1, <1>2, SamePiece

(* What begins with a canonical r other than "/" and goes on with a slash  *)
(* is under r.                                                             *)
LEMMA PrefixIsUnder ==
  ASSUME NEW r \in Seq(Byte), NEW s \in Seq(Byte), Len(r) <= Len(s),
         \A k \in 1 .. Len(r) : s[k] = r[k],
         Len(s) = Len(r) \/ s[Len(r) + 1] = Slash
  PROVE  Under(r, s)
<1> SUFFICES ASSUME NEW g \in Segs(r)
             PROVE  g \in Segs(s) /\ SubSeq(s, g[1], g[2]) = SubSeq(r, g[1], g[2])
  BY ZenonT(60) DEF Under, Is
<1>1. PICK b, e \in 1 .. Len(r) : g = <<b, e>> BY SegPair
<1>0. <<b, e>> \in Segs(r) BY Zenon, <1>1
<1>2. /\ b <= e /\ \A k \in b .. e : r[k] # Slash
      /\ b = 1 \/ r[b - 1] = Slash
      /\ e = Len(r) \/ r[e + 1] = Slash
  BY <1>0, SegFacts
<1>3. \A k \in b .. e : s[k] = r[k] OBVIOUS
<1>4. b = 1 \/ s[b - 1] = Slash BY <1>2
<1>5. e = Len(s) \/ s[e + 1] = Slash BY <1>2
<1>6. b \in 1 .. Len(s) /\ e \in 1 .. Len(s) /\ e \in b .. Len(r) BY <1>2
<1>7. \A k \in b .. e : s[k] # Slash BY Zenon, <1>2, <1>3
<1>8. <<b, e>> \in Segs(s) BY Zenon, <1>2, <1>4, <1>5, <1>6, <1>7, SegFacts
<1>9. SubSeq(s, b, e) = SubSeq(r, b, e) BY <1>3, <1>6, SamePiece
<1> QED BY <1>1, <1>8, <1>9

(* What is under a canonical path begins with it. *)
LEMMA UnderIsPrefix ==
  ASSUME NEW r \in Seq(Byte), NEW s \in Seq(Byte), Under(r, s),
         Canonical(r), r # <<Slash>>
  PROVE  /\ Len(r) <= Len(s) /\ \A k \in 1 .. Len(r) : s[k] = r[k]
         /\ Len(s) = Len(r) \/ s[Len(r) + 1] = Slash
<1>0. Len(r) \in 1 .. Len(r) /\ r[Len(r)] # Slash BY CanonicalFacts
<1>1. PICK b \in 1 .. Len(r) : \E e \in Len(r) .. Len(r) : <<b, e>> \in Segs(r)
  BY ZenonT(60), <1>0, InSegment
<1>2. <<b, Len(r)>> \in Segs(r) BY <1>1
<1>3. <<b, Len(r)>> \in Segs(s) /\ Len(r) <= Len(s) BY <1>0, <1>2, UnderFacts
<1>4. Len(s) = Len(r) \/ s[Len(r) + 1] = Slash BY <1>3, SegFacts
<1>5. ASSUME NEW k \in 1 .. Len(r) PROVE s[k] = r[k]
  <2>1. CASE r[k] # Slash
    <3>1. PICK c \in 1 .. k : \E e \in k .. Len(r) : <<c, e>> \in Segs(r)
      BY ZenonT(60), <2>1, InSegment
    <3>2. PICK e \in k .. Len(r) : <<c, e>> \in Segs(r) BY ZenonT(60), <3>1
    <3>3. c \in 1 .. Len(r) /\ e \in c .. Len(r) /\ k \in c .. e OBVIOUS
    <3> QED BY <3>2, <3>3, UnderFacts
  <2>2. CASE r[k] = Slash
    <3>1. k + 1 \in 1 .. Len(r) /\ r[k + 1] # Slash BY <2>2, CanonicalFacts
    <3>2. PICK e \in k + 1 .. Len(r) :
            (\A j \in k + 1 .. e : r[j] # Slash) /\ (e = Len(r) \/ r[e + 1] = Slash)
      BY <3>1, SegEnds
    <3>3. <<k + 1, e>> \in Segs(r) BY <2>2, <3>1, <3>2, SegFacts
    <3>4. <<k + 1, e>> \in Segs(s) BY <3>1, <3>2, <3>3, UnderFacts
    <3>5. k + 1 = 1 \/ s[(k + 1) - 1] = Slash BY <3>4, SegFacts
    <3> QED BY <2>2, <3>5
  <2> QED BY <2>1, <2>2
<1> QED BY <1>3, <1>4, <1>5

(* A canonical path other than "/" has a segment, and of two of them the   *)
(* longer has one more.                                                    *)
LEMMA LongerHasMore ==
  ASSUME NEW r \in Seq(Byte), NEW s \in Seq(Byte), Len(r) < Len(s),
         Canonical(s), s # <<Slash>>
  PROVE  Segs(r) # Segs(s)
<1>1. Len(s) \in 1 .. Len(s) /\ s[Len(s)] # Slash BY CanonicalFacts
<1>2. PICK b \in 1 .. Len(s) : \E e \in Len(s) .. Len(s) : <<b, e>> \in Segs(s)
  BY ZenonT(60), <1>1, InSegment
<1>3. <<b, Len(s)>> \in Segs(s) BY <1>2
<1>4. <<b, Len(s)>> \notin Segs(r) BY SegFacts
<1> QED BY <1>3, <1>4

(* What every step leaves alone, and the type of the rest. *)
Typed ==
  /\ g_root \in Roots /\ path \in Paths
  /\ pc \in {"route", "decode", "join", "done"}
  /\ i \in Nat \ {0} /\ decoded \in Seq(Byte) /\ fs_path \in Seq(Byte)
  /\ answer \in {"none", "builtin", "invalid", "missing", "name"}

(* What a root is. *)
LEMMA RootFacts ==
  ASSUME NEW r \in Roots
  PROVE  /\ r \in Seq(Byte) /\ r # <<>> /\ Len(r) < PATH_MAX /\ Canonical(r)
         /\ PATH_MAX \in Nat
BY StaticPathsAssumption, RootsAreCanonical

(* hex_digit() returns a digit, or -1. *)
LEMMA HexRange == \A c : hex_digit(c) \in -1 .. 15
BY DEF hex_digit

(* A byte of the path, or the one its escape stands for, is a byte. *)
LEMMA MeaningIsByte ==
  ASSUME Typed, InPath, Meaning # -1
  PROVE  Meaning \in Byte
<1>1. path \in Seq(Byte) /\ i \in 1 .. Len(path) /\ path[i] \in Byte
  BY StaticPathsAssumption DEF Typed, InPath
<1>2. \A c : hex_digit(c) \in -1 .. 15 BY HexRange
<1>3. CASE path[i] # Percent BY <1>1, <1>3 DEF Meaning
<1>4. CASE path[i] = Percent
  <2>1. PICK hi \in -1 .. 15 : hi = hex_digit(path[i + 1]) BY <1>2
  <2>2. PICK lo \in -1 .. 15 : lo = hex_digit(path[i + 2]) BY <1>2
  <2>3. Meaning = 16 * hi + lo /\ hi >= 0 /\ lo >= 0 /\ (hi # 0 \/ lo # 0)
    BY <1>4, <2>1, <2>2 DEF Meaning
  <2> QED BY <2>3 DEF Byte
<1> QED BY <1>3, <1>4

-----------------------------------------------------------------------------
(* t is s with the segment w after it, as join_under_root() appends one. *)
Joined(t, s, w) ==
  /\ s \in Seq(Byte) /\ w \in Seq(Byte) /\ w # <<>> /\ \A k \in 1 .. Len(w) : w[k] # Slash
  /\ t = Append(s, Slash) \o w

(* A concatenation, byte by byte. *)
LEMMA ConcatFacts ==
  ASSUME NEW u \in Seq(Byte), NEW w \in Seq(Byte)
  PROVE  /\ u \o w \in Seq(Byte) /\ Len(u \o w) = Len(u) + Len(w)
         /\ \A k \in 1 .. Len(u) : (u \o w)[k] = u[k]
         /\ \A k \in 1 .. Len(w) : (u \o w)[Len(u) + k] = w[k]
OBVIOUS

(* Concatenation is associative. *)
LEMMA Associates ==
  ASSUME NEW u \in Seq(Byte), NEW v \in Seq(Byte), NEW w \in Seq(Byte)
  PROVE  (u \o v) \o w = u \o (v \o w)
OBVIOUS

(* What it is byte by byte. *)
LEMMA JoinedFacts ==
  ASSUME NEW t, NEW s, NEW w, Joined(t, s, w)
  PROVE  /\ t \in Seq(Byte) /\ s \in Seq(Byte) /\ w \in Seq(Byte)
         /\ Len(s) \in Nat /\ Len(w) \in Nat /\ Len(w) > 0
         /\ Len(t) = Len(s) + 1 + Len(w) /\ t[Len(s) + 1] = Slash
         /\ \A k \in 1 .. Len(s) : t[k] = s[k]
         /\ \A k \in 1 .. Len(w) : t[Len(s) + 1 + k] = w[k]
         /\ \A k \in Len(s) + 2 .. Len(t) : t[k] # Slash
<1>1. s \in Seq(Byte) /\ w \in Seq(Byte) /\ Slash \in Byte BY DEF Joined, Slash, Byte
<1>2. PICK u : u = Append(s, Slash) BY ZenonT(60)
<1>3. /\ u \in Seq(Byte) /\ Len(u) = Len(s) + 1 /\ u[Len(s) + 1] = Slash
      /\ \A k \in 1 .. Len(s) : u[k] = s[k]
  BY <1>1, <1>2
<1>4. t = u \o w BY <1>2 DEF Joined
<1>5. /\ t \in Seq(Byte) /\ Len(t) = Len(u) + Len(w)
      /\ \A k \in 1 .. Len(u) : t[k] = u[k]
      /\ \A k \in 1 .. Len(w) : t[Len(u) + k] = w[k]
  BY ZenonT(60), <1>1, <1>3, <1>4, ConcatFacts
<1>6. Len(s) \in Nat /\ Len(w) \in Nat /\ Len(w) > 0 BY <1>1 DEF Joined
<1>7. Len(t) = Len(s) + 1 + Len(w) /\ t[Len(s) + 1] = Slash BY <1>3, <1>5, <1>6
<1>8. \A k \in 1 .. Len(s) : t[k] = s[k] BY <1>3, <1>5, <1>6
<1>9. \A k \in 1 .. Len(w) : t[Len(s) + 1 + k] = w[k] BY <1>3, <1>5, <1>6
<1>10. ASSUME NEW k \in Len(s) + 2 .. Len(t) PROVE t[k] # Slash
  <2>1. k - Len(s) - 1 \in 1 .. Len(w) /\ Len(s) + 1 + (k - Len(s) - 1) = k BY <1>6, <1>7
  <2>2. t[k] = w[k - Len(s) - 1] BY <1>9, <2>1
  <2> QED BY <2>1, <2>2 DEF Joined
<1> QED BY Zenon, <1>1, <1>5, <1>6, <1>7, <1>8, <1>9, <1>10

(* Its segments are those of s and w. *)
LEMMA JoinedSegs ==
  ASSUME NEW t, NEW s, NEW w, Joined(t, s, w), NEW b, NEW e, <<b, e>> \in Segs(t)
  PROVE  \/ <<b, e>> \in Segs(s) /\ e \in 1 .. Len(s)
         \/ b = Len(s) + 2 /\ e = Len(t)
<1>1. /\ t \in Seq(Byte) /\ s \in Seq(Byte) /\ Len(s) \in Nat /\ Len(t) > Len(s) + 1
      /\ t[Len(s) + 1] = Slash
      /\ \A k \in 1 .. Len(s) : t[k] = s[k]
      /\ \A k \in Len(s) + 2 .. Len(t) : t[k] # Slash
  BY JoinedFacts
<1>2. /\ b \in 1 .. Len(t) /\ e \in 1 .. Len(t) /\ b <= e
      /\ \A k \in b .. e : t[k] # Slash
      /\ b = 1 \/ t[b - 1] = Slash
      /\ e = Len(t) \/ t[e + 1] = Slash
  BY <1>1, SegFacts
<1>3. CASE b <= Len(s)
  <2>1. e <= Len(s) BY <1>1, <1>2, <1>3
  <2>2. \A k \in b .. e : s[k] # Slash BY <1>1, <1>2, <2>1
  <2>3. b = 1 \/ s[b - 1] = Slash BY <1>1, <1>2, <1>3
  <2>4. e = Len(s) \/ s[e + 1] = Slash BY <1>1, <1>2, <2>1
  <2>5. b \in 1 .. Len(s) /\ e \in 1 .. Len(s) BY <1>1, <1>2, <1>3, <2>1
  <2> QED BY <1>1, <1>2, <2>2, <2>3, <2>4, <2>5, SegFacts
<1>4. CASE b > Len(s)
  <2>1. b # Len(s) + 1 BY <1>1, <1>2
  <2>2. b = Len(s) + 2 BY <1>1, <1>2, <1>4, <2>1
  <2>3. e = Len(t) BY <1>1, <1>2, <2>2
  <2> QED BY <2>2, <2>3
<1> QED BY <1>1, <1>2, <1>3, <1>4

(* The piece after the slash is w. *)
LEMMA JoinedPiece ==
  ASSUME NEW t, NEW s, NEW w, Joined(t, s, w)
  PROVE  SubSeq(t, Len(s) + 2, Len(t)) = w
<1>1. /\ t \in Seq(Byte) /\ w \in Seq(Byte) /\ Len(s) \in Nat /\ Len(w) \in Nat /\ Len(w) > 0
      /\ Len(t) = Len(s) + 1 + Len(w)
      /\ \A k \in 1 .. Len(w) : t[Len(s) + 1 + k] = w[k]
  BY JoinedFacts
<1>2. PICK x : x = SubSeq(t, Len(s) + 2, Len(t)) BY ZenonT(60)
<1>3. /\ x \in Seq(Byte) /\ Len(x) = Len(w)
      /\ \A k \in 1 .. Len(x) : x[k] = t[Len(s) + 2 + k - 1]
  BY <1>1, <1>2
<1>4. ASSUME NEW k \in 1 .. Len(x) PROVE x[k] = w[k]
  <2>1. Len(s) + 2 + k - 1 = Len(s) + 1 + k BY <1>1, <1>3
  <2>2. x[k] = t[Len(s) + 1 + k] BY Zenon, <1>3, <2>1
  <2> QED BY Zenon, <1>1, <1>3, <2>2
<1>5. x = w BY <1>1, <1>3, <1>4, SameBytes
<1> QED BY <1>2, <1>5

(* A canonical path and one segment more, neither "." nor "..", is         *)
(* canonical.                                                              *)
LEMMA JoinedCanonical ==
  ASSUME NEW t, NEW s, NEW w, Joined(t, s, w), w # <<Dot>>, w # <<Dot, Dot>>,
         s = <<>> \/ (Canonical(s) /\ s # <<Slash>>)
  PROVE  Canonical(t) /\ t # <<Slash>>
<1>1. /\ t \in Seq(Byte) /\ s \in Seq(Byte) /\ Len(s) \in Nat /\ Len(t) > Len(s) + 1
      /\ t[Len(s) + 1] = Slash
      /\ \A k \in 1 .. Len(s) : t[k] = s[k]
      /\ \A k \in Len(s) + 2 .. Len(t) : t[k] # Slash
  BY JoinedFacts
<1>2. /\ Len(s) = 0 \/ (Len(s) > 0 /\ s[1] = Slash /\ s[Len(s)] # Slash)
      /\ \A k \in 1 .. Len(s) :
           s[k] = Slash => k + 1 \in 1 .. Len(s) /\ s[k + 1] # Slash
  <2>1. CASE s = <<>> BY <2>1
  <2>2. CASE s # <<>>
    <3>1. /\ Len(s) > 1 /\ s[1] = Slash /\ s[Len(s)] # Slash
          /\ \A k \in 1 .. Len(s) :
               s[k] = Slash => k + 1 \in 1 .. Len(s) /\ s[k + 1] # Slash
      BY Zenon, <1>1, <2>2, CanonicalFacts
    <3> QED BY <1>1, <3>1
  <2> QED BY Zenon, <2>1, <2>2
<1>3. Len(t) > 1 /\ t[1] = Slash /\ t[Len(t)] # Slash BY <1>1, <1>2
<1>4. ASSUME NEW k \in 2 .. Len(t) PROVE t[k - 1] # Slash \/ t[k] # Slash
  <2>1. CASE k <= Len(s)
    <3>1. k - 1 \in 1 .. Len(s) /\ k \in 1 .. Len(s) /\ (k - 1) + 1 = k BY <1>1, <2>1
    <3>2. s[k - 1] # Slash \/ s[k] # Slash BY Zenon, <1>2, <3>1
    <3> QED BY Zenon, <1>1, <3>1, <3>2
  <2>2. CASE k = Len(s) + 1
    <3>1. k - 1 = Len(s) /\ Len(s) \in 1 .. Len(s) /\ s[Len(s)] # Slash BY <1>1, <1>2, <2>2
    <3> QED BY Zenon, <1>1, <3>1
  <2>3. CASE k > Len(s) + 1 BY <1>1, <2>3
  <2> QED BY <1>1, <2>1, <2>2, <2>3
<1>5. ASSUME NEW g \in Segs(t) PROVE ~Is(t, g, <<Dot>>) /\ ~Is(t, g, <<Dot, Dot>>)
  <2>1. PICK b, e \in 1 .. Len(t) : g = <<b, e>> BY <1>1, SegPair
  <2>2. <<b, e>> \in Segs(t) /\ g[1] = b /\ g[2] = e BY <2>1
  <2>3. \/ <<b, e>> \in Segs(s) /\ e \in 1 .. Len(s)
        \/ b = Len(s) + 2 /\ e = Len(t)
    BY <2>2, JoinedSegs
  <2>4. CASE <<b, e>> \in Segs(s) /\ e \in 1 .. Len(s)
    <3>1. b \in 1 .. Len(s) /\ e \in b .. Len(s) /\ e <= Len(t)
      BY <1>1, <2>4, SegFacts
    <3>2. \A k \in b .. e : t[k] = s[k] BY <1>1, <3>1
    <3>3. SubSeq(t, b, e) = SubSeq(s, b, e) BY <1>1, <3>1, <3>2, SamePiece
    <3>4. s # <<>> BY <3>1
    <3>5. \A h \in Segs(s) : ~Is(s, h, <<Dot>>) /\ ~Is(s, h, <<Dot, Dot>>)
      BY Zenon, <3>4 DEF Canonical
    <3>6. ~Is(s, g, <<Dot>>) /\ ~Is(s, g, <<Dot, Dot>>) BY Zenon, <2>1, <2>4, <3>5
    <3> QED BY Zenon, <2>2, <3>3, <3>6 DEF Is
  <2>5. CASE b = Len(s) + 2 /\ e = Len(t)
    <3>1. SubSeq(t, b, e) = w BY Zenon, <2>5, JoinedPiece
    <3> QED BY Zenon, <2>2, <3>1 DEF Is
  <2> QED BY Zenon, <2>3, <2>4, <2>5
<1>6. t # <<Slash>> BY <1>3
<1> QED BY Zenon, <1>3, <1>4, <1>5, <1>6 DEF Canonical

(* And what s is under, it is under. *)
LEMMA JoinedUnder ==
  ASSUME NEW t, NEW s, NEW w, Joined(t, s, w), NEW r \in Seq(Byte), Under(r, s)
  PROVE  Under(r, t)
<1>1. /\ t \in Seq(Byte) /\ s \in Seq(Byte) /\ Len(s) \in Nat /\ Len(t) > Len(s) + 1
      /\ t[Len(s) + 1] = Slash
      /\ \A k \in 1 .. Len(s) : t[k] = s[k]
  BY JoinedFacts
<1>2. Under(s, t) BY <1>1, PrefixIsUnder
<1> SUFFICES ASSUME NEW g \in Segs(r)
             PROVE  g \in Segs(t) /\ SubSeq(t, g[1], g[2]) = SubSeq(r, g[1], g[2])
  BY ZenonT(60) DEF Under, Is
<1>3. g \in Segs(s) /\ SubSeq(s, g[1], g[2]) = SubSeq(r, g[1], g[2]) BY Zenon DEF Under, Is
<1>4. g \in Segs(t) /\ SubSeq(t, g[1], g[2]) = SubSeq(s, g[1], g[2])
  BY Zenon, <1>2, <1>3 DEF Under, Is
<1> QED BY Zenon, <1>3, <1>4

-----------------------------------------------------------------------------
(* How far the name in the making goes down. *)
Downward ==
  /\ Len(fs_path) < PATH_MAX /\ Under(g_root, fs_path)
  /\ fs_path = <<>> \/ (Canonical(fs_path) /\ fs_path # <<Slash>>)

(* The strengthening that makes NamesGoDown inductive. *)
DownInv ==
  /\ Typed
  /\ pc # "done" => answer = "none"
  /\ pc = "join" => Downward
  /\ NamesGoDown

(* The strengthening holds of a request that is not routed yet. *)
LEMMA DownInit == Init => DownInv
<1> SUFFICES ASSUME Init PROVE DownInv OBVIOUS
<1>1. <<>> \in Seq(Byte) /\ 1 \in Nat \ {0} OBVIOUS
<1>2. Typed BY Zenon, <1>1 DEF Init, Typed
<1> QED BY Zenon, <1>2 DEF Init, DownInv, NamesGoDown

(* Routing keeps it. *)
LEMMA DownRoute == ASSUME DownInv, route_request PROVE DownInv'
<1>1. /\ pc = "route" /\ answer = "none" /\ Typed
      /\ (pc' = "done" /\ answer' = "builtin") \/ (pc' = "decode" /\ answer' = answer)
      /\ UNCHANGED <<g_root, path, i, decoded, fs_path>>
  BY Zenon DEF DownInv, route_request, Return
<1>2. Typed' BY Zenon, <1>1 DEF Typed
<1> QED BY Zenon, <1>1, <1>2 DEF DownInv, NamesGoDown

(* So does a turn of the loop of decode_path(). *)
LEMMA DownDecode == ASSUME DownInv, decode_byte PROVE DownInv'
<1>1. /\ pc = "decode" /\ answer = "none" /\ Typed /\ InPath
      /\ \/ pc' = "done" /\ answer' \in {"invalid", "missing"} /\ UNCHANGED <<i, decoded>>
         \/ /\ Meaning # -1 /\ decoded' = Append(decoded, Meaning)
            /\ i' = i + (IF path[i] = Percent THEN 3 ELSE 1)
            /\ UNCHANGED <<pc, answer>>
      /\ UNCHANGED <<g_root, path, fs_path>>
  BY Zenon DEF DownInv, decode_byte, Return
<1>2. i' \in Nat \ {0} BY <1>1 DEF Typed
<1>3. decoded' \in Seq(Byte)
  <2>1. CASE UNCHANGED decoded BY Zenon, <1>1, <2>1 DEF Typed
  <2>2. CASE Meaning # -1 /\ decoded' = Append(decoded, Meaning)
    <3>1. PICK m : m = Meaning OBVIOUS
    <3>2. m \in Byte /\ decoded' = Append(decoded, m) BY Zenon, <1>1, <2>2, <3>1, MeaningIsByte
    <3> QED BY <1>1, <3>2 DEF Typed
  <2> QED BY Zenon, <1>1, <2>1, <2>2
<1>4. Typed' BY Zenon, <1>1, <1>2, <1>3 DEF Typed
<1> QED BY Zenon, <1>1, <1>4 DEF DownInv, NamesGoDown

(* The join begins at the root. *)
LEMMA DownBegin == ASSUME DownInv, begin_join PROVE DownInv'
<1>1. /\ pc = "decode" /\ answer = "none" /\ Typed
      /\ \/ pc' = "done" /\ answer' \in {"invalid", "missing"} /\ UNCHANGED <<i, fs_path>>
         \/ /\ ~(Len(prefix) >= PATH_MAX)
            /\ pc' = "join" /\ i' = 1 /\ fs_path' = prefix /\ UNCHANGED answer
      /\ UNCHANGED <<g_root, path, decoded>>
  BY Zenon DEF DownInv, begin_join, Return
<1>2. /\ g_root \in Seq(Byte) /\ PATH_MAX \in Nat /\ Canonical(g_root)
  BY <1>1, RootFacts DEF Typed
<1>3. prefix \in Seq(Byte) BY <1>2 DEF prefix
<1>4. i' \in Nat \ {0} /\ fs_path' \in Seq(Byte) BY <1>1, <1>3 DEF Typed
<1>5. Typed' BY Zenon, <1>1, <1>4 DEF Typed
<1>6. CASE fs_path' = prefix /\ ~(Len(prefix) >= PATH_MAX)
  <2>1. Len(prefix) < PATH_MAX BY <1>2, <1>3, <1>6
  <2>2. Under(g_root, prefix) /\ (prefix = <<>> \/ (Canonical(prefix) /\ prefix # <<Slash>>))
    <3>1. CASE g_root = <<Slash>>
      <4>1. prefix = <<>> BY Zenon, <3>1 DEF prefix
      <4> QED BY Zenon, <3>1, <4>1, TopHasNone DEF Under
    <3>2. CASE g_root # <<Slash>>
      <4>1. prefix = g_root BY Zenon, <3>2 DEF prefix
      <4>2. Under(g_root, g_root) BY <1>2, PrefixIsUnder
      <4> QED BY Zenon, <1>2, <3>2, <4>1, <4>2
    <3> QED BY Zenon, <3>1, <3>2
  <2>4. Downward' BY Zenon, <1>1, <1>6, <2>1, <2>2 DEF Downward
  <2> QED BY Zenon, <1>1, <1>5, <1>6, <2>4 DEF DownInv, NamesGoDown
<1>7. CASE pc' = "done" /\ answer' \in {"invalid", "missing"}
  BY Zenon, <1>1, <1>5, <1>7 DEF DownInv, NamesGoDown
<1> QED BY Zenon, <1>1, <1>6, <1>7

(* A segment of the decoded path is a word without a slash. *)
LEMMA SegmentIsWord ==
  ASSUME decoded \in Seq(Byte), i \in Nat \ {0},
         NEW b \in i .. Len(decoded), NEW e \in b .. Len(decoded), NextSegment(b, e)
  PROVE  /\ SubSeq(decoded, b, e) \in Seq(Byte) /\ SubSeq(decoded, b, e) # <<>>
         /\ Len(SubSeq(decoded, b, e)) = e - b + 1
         /\ \A k \in 1 .. Len(SubSeq(decoded, b, e)) : SubSeq(decoded, b, e)[k] # Slash
<1>1. PICK w : w = SubSeq(decoded, b, e) BY ZenonT(60)
<1>2. /\ w \in Seq(Byte) /\ Len(w) = e - b + 1
      /\ \A k \in 1 .. e - b + 1 : w[k] = decoded[b + k - 1]
  BY <1>1
<1>3. w # <<>> BY <1>2
<1>4. ASSUME NEW k \in 1 .. Len(w) PROVE w[k] # Slash
  <2>1. k \in 1 .. e - b + 1 /\ b + k - 1 \in b .. e BY <1>2
  <2>2. decoded[b + k - 1] # Slash BY Zenon, <2>1 DEF NextSegment
  <2> QED BY Zenon, <1>2, <2>1, <2>2
<1> QED BY Zenon, <1>1, <1>2, <1>3, <1>4

(* A segment goes one step down. *)
LEMMA DownSegment == ASSUME DownInv, join_segment PROVE DownInv'
<1>1. pc = "join" /\ answer = "none" /\ Typed /\ Downward /\ UNCHANGED <<g_root, path, decoded>>
  BY Zenon DEF DownInv, join_segment
<1>2. PICK b \in i .. Len(decoded) : \E e \in b .. Len(decoded) :
        /\ NextSegment(b, e)
        /\ IF SubSeq(decoded, b, e) = <<Dot>>
           THEN i' = e + 1 /\ UNCHANGED <<pc, fs_path, answer>>
           ELSE IF IsDotDot(b, e) THEN Return("invalid") /\ UNCHANGED <<i, fs_path>>
           ELSE IF Len(fs_path) + 1 + Len(SubSeq(decoded, b, e)) >= PATH_MAX
           THEN Return("missing") /\ UNCHANGED <<i, fs_path>>
           ELSE /\ fs_path' = Append(fs_path, Slash) \o SubSeq(decoded, b, e)
                /\ i' = e + 1
                /\ UNCHANGED <<pc, answer>>
  BY Zenon DEF join_segment
<1>3. PICK e \in b .. Len(decoded) :
        /\ NextSegment(b, e)
        /\ \/ i' = e + 1 /\ UNCHANGED <<pc, fs_path, answer>>
           \/ pc' = "done" /\ answer' \in {"invalid", "missing"} /\ UNCHANGED <<i, fs_path>>
           \/ /\ SubSeq(decoded, b, e) # <<Dot>> /\ SubSeq(decoded, b, e) # <<Dot, Dot>>
              /\ ~(Len(fs_path) + 1 + Len(SubSeq(decoded, b, e)) >= PATH_MAX)
              /\ fs_path' = Append(fs_path, Slash) \o SubSeq(decoded, b, e)
              /\ i' = e + 1
              /\ UNCHANGED <<pc, answer>>
  BY Zenon, <1>2 DEF IsDotDot, Return
<1>4. e + 1 \in Nat \ {0} BY <1>1 DEF Typed
<1>5. CASE i' = e + 1 /\ UNCHANGED <<pc, fs_path, answer>>
  <2>1. Typed' BY Zenon, <1>1, <1>4, <1>5 DEF Typed
  <2>2. Downward' BY Zenon, <1>1, <1>5 DEF Downward
  <2> QED BY Zenon, <1>1, <1>5, <2>1, <2>2 DEF DownInv, NamesGoDown
<1>6. CASE pc' = "done" /\ answer' \in {"invalid", "missing"} /\ UNCHANGED <<i, fs_path>>
  <2>1. Typed' BY Zenon, <1>1, <1>6 DEF Typed
  <2> QED BY Zenon, <1>1, <1>6, <2>1 DEF DownInv, NamesGoDown
<1>7. CASE /\ SubSeq(decoded, b, e) # <<Dot>> /\ SubSeq(decoded, b, e) # <<Dot, Dot>>
           /\ ~(Len(fs_path) + 1 + Len(SubSeq(decoded, b, e)) >= PATH_MAX)
           /\ fs_path' = Append(fs_path, Slash) \o SubSeq(decoded, b, e)
           /\ i' = e + 1
           /\ UNCHANGED <<pc, answer>>
  <2>1. PICK w : w = SubSeq(decoded, b, e) BY ZenonT(60)
  <2>2. decoded \in Seq(Byte) /\ fs_path \in Seq(Byte) /\ i \in Nat \ {0}
    BY Zenon, <1>1 DEF Typed
  <2>3. /\ w \in Seq(Byte) /\ w # <<>> /\ \A k \in 1 .. Len(w) : w[k] # Slash
    BY Zenon, <1>3, <2>1, <2>2, SegmentIsWord
  <2>4. Joined(fs_path', fs_path, w) BY Zenon, <1>7, <2>1, <2>2, <2>3 DEF Joined
  <2>5. PATH_MAX \in Nat /\ g_root \in Seq(Byte) BY <1>1, RootFacts DEF Typed
  <2>6. fs_path' \in Seq(Byte) /\ Len(fs_path') = Len(fs_path) + 1 + Len(w)
    BY <2>4, JoinedFacts
  <2>7. ~(Len(fs_path) + 1 + Len(w) >= PATH_MAX) BY Zenon, <1>7, <2>1
  <2>8. Len(fs_path') < PATH_MAX BY <2>2, <2>3, <2>5, <2>6, <2>7
  <2>9. Canonical(fs_path') /\ fs_path' # <<Slash>>
    BY ZenonT(60), <1>1, <1>7, <2>1, <2>4, JoinedCanonical DEF Downward
  <2>10. Under(g_root, fs_path')
    BY ZenonT(60), <1>1, <2>4, <2>5, JoinedUnder DEF Downward
  <2>11. Downward' BY ZenonT(60), <1>1, <2>8, <2>9, <2>10 DEF Downward
  <2>12. Typed' BY ZenonT(60), <1>1, <1>4, <1>7, <2>6 DEF Typed
  <2> QED BY ZenonT(60), <1>1, <1>7, <2>11, <2>12 DEF DownInv, NamesGoDown
<1> QED BY Zenon, <1>3, <1>5, <1>6, <1>7

(* The name is what the join made of it. *)
LEMMA DownEnd == ASSUME DownInv, end_join PROVE DownInv'
<1>1. /\ pc = "join" /\ answer = "none" /\ Typed /\ Downward
      /\ fs_path' = (IF fs_path = <<>> THEN <<Slash>> ELSE fs_path)
      /\ pc' = "done" /\ answer' \in {"missing", "name"}
      /\ UNCHANGED <<g_root, path, i, decoded>>
  BY Zenon DEF DownInv, end_join, Return
<1>2. /\ g_root \in Seq(Byte) /\ g_root # <<>> /\ Len(g_root) < PATH_MAX /\ PATH_MAX \in Nat
  BY <1>1, RootFacts DEF Typed
<1>3. /\ fs_path' \in Seq(Byte) /\ Len(fs_path') < PATH_MAX
      /\ Canonical(fs_path') /\ Under(g_root, fs_path')
  <2>1. CASE fs_path = <<>>
    <3>1. fs_path' = <<Slash>> BY Zenon, <1>1, <2>1
    <3>2. <<Slash>> \in Seq(Byte) /\ Len(<<Slash>>) = 1 BY DEF Slash, Byte
    <3>3. 1 < PATH_MAX BY <1>2
    <3>4. Segs(<<>>) = {} BY DEF Segs
    <3>5. Segs(g_root) = {} BY Zenon, <1>1, <2>1, <3>4 DEF Downward, Under
    <3>6. Under(g_root, <<Slash>>) BY Zenon, <3>5 DEF Under
    <3> QED BY Zenon, <3>1, <3>2, <3>3, <3>6 DEF Canonical
  <2>2. CASE fs_path # <<>> BY Zenon, <1>1, <2>2 DEF Downward, Typed
  <2> QED BY Zenon, <2>1, <2>2
<1>4. Typed' BY Zenon, <1>1, <1>3 DEF Typed
<1> QED BY Zenon, <1>1, <1>3, <1>4 DEF DownInv, NamesGoDown

(* Every step keeps the strengthening. *)
LEMMA DownNext == DownInv /\ [Next]_vars => DownInv'
<1> SUFFICES ASSUME DownInv, [Next]_vars PROVE DownInv' OBVIOUS
<1>1. CASE Next
  BY Zenon, <1>1, DownRoute, DownDecode, DownBegin, DownSegment, DownEnd DEF Next
<1>2. CASE UNCHANGED vars
  <2>1. Typed' BY Zenon, <1>2 DEF DownInv, Typed, vars
  <2>2. Downward => Downward' BY Zenon, <1>2 DEF Downward, vars
  <2> QED BY Zenon, <1>2, <2>1, <2>2 DEF DownInv, NamesGoDown, vars
<1> QED BY Zenon, <1>1, <1>2

(* The strengthening is an invariant. *)
LEMMA DownInvariance == Spec => []DownInv
<1> QED BY PTL, DownInit, DownNext DEF Spec

(* Whatever the path of a request, the name that static_file_open() gives  *)
(* to open() fits its buffer, is canonical and has the segments of the     *)
(* root first: the string alone never leaves the root.                     *)
THEOREM OpenedNamesGoDown == Spec => []NamesGoDown
<1>1. DownInv => NamesGoDown BY Zenon DEF DownInv
<1> QED BY PTL, <1>1, DownInvariance

-----------------------------------------------------------------------------
(* is_within_root() compares bytes: the path begins with the root. *)
LEMMA BeginsWith ==
  ASSUME NEW r \in Seq(Byte), NEW c \in Seq(Byte), r # <<>>, Len(r) <= Len(c)
  PROVE  SubSeq(c, 1, Len(r)) = r <=> \A k \in 1 .. Len(r) : c[k] = r[k]
<1>1. 1 \in 1 .. Len(r) /\ Len(r) \in 1 .. Len(r) /\ SubSeq(r, 1, Len(r)) = r OBVIOUS
<1>2. SubSeq(c, 1, Len(r)) = SubSeq(r, 1, Len(r)) <=> \A k \in 1 .. Len(r) : c[k] = r[k]
  BY <1>1, SamePiece
<1> QED BY Zenon, <1>1, <1>2

(* What is longer than "/" is not "/". *)
LEMMA LongerThanTop ==
  ASSUME NEW c \in Seq(Byte), Len(c) > 1
  PROVE  c # <<Slash>>
<1>1. Len(<<Slash>>) = 1 /\ ~(1 > 1) OBVIOUS
<1> QED BY Zenon, <1>1

(* Of a canonical path it says whether the root is a proper ancestor. *)
LEMMA WithinIsBelow ==
  ASSUME g_root \in Roots, NEW c \in Seq(Byte), Canonical(c)
  PROVE  is_within_root(c) <=> Below(g_root, c)
<1>1. PICK r : r = g_root OBVIOUS
<1>2. r \in Seq(Byte) /\ r # <<>> /\ Canonical(r) BY <1>1, RootFacts
<1>3. Len(r) \in Nat /\ Len(c) \in Nat /\ Len(r) > 0 BY <1>2
<1>4. is_within_root(c) <=>
        /\ Len(c) >= Len(r) /\ SubSeq(c, 1, Len(r)) = r
        /\ IF r = <<Slash>> THEN Len(c) > 1
           ELSE Len(c) > Len(r) /\ c[Len(r) + 1] = Slash
  BY Zenon, <1>1 DEF is_within_root
<1>5. CASE r = <<Slash>>
  <2>1. Len(r) = 1 /\ r[1] = Slash /\ Segs(r) = {} BY <1>5, TopHasNone
  <2>2. Under(r, c) BY Zenon, <2>1 DEF Under
  <2>3. ASSUME is_within_root(c) PROVE Segs(r) # Segs(c)
    <3>1. Len(c) > 1 BY Zenon, <1>4, <1>5, <2>3
    <3>2. c # <<Slash>> BY Zenon, <3>1, LongerThanTop
    <3>3. Len(r) < Len(c) BY <1>3, <2>1, <3>1
    <3> QED BY <1>2, <3>2, <3>3, LongerHasMore
  <2>4. ASSUME Segs(r) # Segs(c) PROVE is_within_root(c)
    <3>1. c # <<Slash>> BY Zenon, <1>5, <2>4
    <3>2. Len(c) > 1 /\ c[1] = Slash BY <3>1, CanonicalFacts
    <3>3. \A k \in 1 .. Len(r) : c[k] = r[k] BY <2>1, <3>2
    <3>4. Len(r) <= Len(c) /\ Len(c) >= Len(r) BY <1>3, <2>1, <3>2
    <3>5. SubSeq(c, 1, Len(r)) = r BY <1>2, <3>3, <3>4, BeginsWith
    <3> QED BY ZenonT(60), <1>4, <1>5, <3>2, <3>4, <3>5
  <2> QED BY Zenon, <1>1, <2>2, <2>3, <2>4 DEF Below
<1>6. CASE r # <<Slash>>
  <2>1. ASSUME is_within_root(c) PROVE Under(r, c) /\ Segs(r) # Segs(c)
    <3>1. SubSeq(c, 1, Len(r)) = r /\ Len(c) > Len(r) /\ c[Len(r) + 1] = Slash
      BY Zenon, <1>4, <1>6, <2>1
    <3>2. Len(r) <= Len(c) /\ Len(r) < Len(c) /\ Len(c) > 1 BY <1>3, <3>1
    <3>3. \A k \in 1 .. Len(r) : c[k] = r[k] BY <1>2, <3>1, <3>2, BeginsWith
    <3>4. Under(r, c) BY <1>2, <3>1, <3>2, <3>3, PrefixIsUnder
    <3>5. c # <<Slash>> BY Zenon, <3>2, LongerThanTop
    <3> QED BY <1>2, <3>2, <3>4, <3>5, LongerHasMore
  <2>2. ASSUME Under(r, c), Segs(r) # Segs(c) PROVE is_within_root(c)
    <3>1. /\ Len(r) <= Len(c) /\ \A k \in 1 .. Len(r) : c[k] = r[k]
          /\ Len(c) = Len(r) \/ c[Len(r) + 1] = Slash
      BY <1>2, <1>6, <2>2, UnderIsPrefix
    <3>2. Len(c) # Len(r)
      <4> SUFFICES ASSUME Len(r) = Len(c) PROVE FALSE OBVIOUS
      <4>1. r = c BY <1>2, <3>1, SameBytes
      <4> QED BY Zenon, <2>2, <4>1
    <3>3. Len(c) > Len(r) /\ Len(c) >= Len(r) BY <1>3, <3>1, <3>2
    <3>4. SubSeq(c, 1, Len(r)) = r BY <1>2, <3>1, BeginsWith
    <3> QED BY Zenon, <1>4, <1>6, <3>1, <3>2, <3>3, <3>4
  <2> QED BY Zenon, <1>1, <2>1, <2>2 DEF Below
<1> QED BY Zenon, <1>5, <1>6

(* is_within_root() accepts a canonical path exactly when the root is a    *)
(* proper ancestor of it, whatever the root: "/srv/www-backup" shares the  *)
(* bytes of "/srv/www" and is refused.                                     *)
THEOREM WithinIsExact == Spec => []WithinMeansBelow
<1>1. DownInv => WithinMeansBelow
  <2> SUFFICES ASSUME DownInv, Canonical(path)
               PROVE  is_within_root(path) <=> Below(g_root, path)
    BY DEF WithinMeansBelow
  <2>1. g_root \in Roots /\ path \in Seq(Byte)
    BY StaticPathsAssumption DEF DownInv, Typed
  <2> QED BY <2>1, WithinIsBelow
<1> QED BY PTL, <1>1, DownInvariance

-----------------------------------------------------------------------------

(* The members of K as far as k: the place of k in K is their number. *)
UpTo(K, k) == {j \in K : j <= k}

(* d is f in the order of K. *)
Spells(d, K, f) ==
  /\ Len(d) = Cardinality(K)
  /\ \A k \in K : d[Cardinality(UpTo(K, k))] = f[k]

(* Listed is Spells on a whole domain. *)
LEMMA ListedSpells ==
  ASSUME NEW d, NEW f
  PROVE  Listed(d, f) <=> Spells(d, DOMAIN f, f)
BY Zenon DEF Listed, Spells, UpTo

(* The place of a member is a position. *)
LEMMA PlaceFacts ==
  ASSUME NEW K, K \subseteq Nat, IsFiniteSet(K), NEW k \in K
  PROVE  Cardinality(UpTo(K, k)) \in 1 .. Cardinality(K)
<1>1. UpTo(K, k) \in SUBSET K /\ k \in UpTo(K, k) BY DEF UpTo
<1>2. /\ IsFiniteSet(UpTo(K, k)) /\ Cardinality(UpTo(K, k)) <= Cardinality(K)
  BY Zenon, <1>1, FS_Subset
<1>3. Cardinality(UpTo(K, k)) # 0 BY Zenon, <1>1, <1>2, FS_EmptySet
<1>4. Cardinality(UpTo(K, k)) \in Nat /\ Cardinality(K) \in Nat
  BY Zenon, <1>2, FS_CardinalityType
<1> QED BY <1>2, <1>3, <1>4

(* All of K comes before a. *)
Early(K, a) == K \subseteq 1 .. a - 1

(* The size of a set and an interval after it. *)
LEMMA SizeMore ==
  ASSUME NEW K, NEW a \in Nat, NEW z \in Nat, Early(K, a), a <= z + 1
  PROVE  /\ IsFiniteSet(K) /\ IsFiniteSet(K \cup (a .. z)) /\ Cardinality(K) \in Nat
         /\ Cardinality(K \cup (a .. z)) = Cardinality(K) + (z + 1 - a)
<1>1. IsFiniteSet(1 .. a - 1) /\ IsFiniteSet(a .. z) BY FS_Interval
<1>2. Cardinality(a .. z) = z + 1 - a
  <2>1. Cardinality(a .. z) = IF a > z THEN 0 ELSE z - a + 1 BY FS_Interval
  <2> QED BY <2>1
<1>3. IsFiniteSet(K) BY Zenon, <1>1, FS_Subset DEF Early
<1>4. Cardinality(K) \in Nat BY Zenon, <1>3, FS_CardinalityType
<1>5. K \cap (a .. z) = {} BY DEF Early
<1>6. /\ IsFiniteSet(K \cup (a .. z))
      /\ Cardinality(K \cup (a .. z)) =
           Cardinality(K) + Cardinality(a .. z) - Cardinality(K \cap (a .. z))
  BY Zenon, <1>1, <1>3, FS_Union
<1>7. Cardinality(K \cap (a .. z)) = 0 BY Zenon, <1>5, FS_EmptySet
<1> QED BY <1>2, <1>3, <1>4, <1>6, <1>7

(* Of an interval after K, all of K comes before its members. *)
LEMMA UpToMore ==
  ASSUME NEW K, NEW a \in Nat, NEW z \in Nat, Early(K, a), NEW k \in a .. z
  PROVE  UpTo(K \cup (a .. z), k) = K \cup (a .. k)
<1>1. ASSUME NEW j \in UpTo(K \cup (a .. z), k) PROVE j \in K \cup (a .. k)
  BY DEF UpTo, Early
<1>2. ASSUME NEW j \in K PROVE j \in UpTo(K \cup (a .. z), k)
  <2>1. j <= k BY DEF Early
  <2> QED BY Zenon, <2>1 DEF UpTo
<1>3. ASSUME NEW j \in a .. k PROVE j \in UpTo(K \cup (a .. z), k)
  BY DEF UpTo
<1> QED BY Zenon, <1>1, <1>2, <1>3

(* g is f on K and w after it. *)
Continues(g, f, K, w, a, z) ==
  (\A k \in K : g[k] = f[k]) /\ \A k \in a .. z : g[k] = w[k - a + 1]

(* Bytes appended are spelled by positions after all others. *)
LEMMA SpellsMore ==
  ASSUME NEW K, NEW d \in Seq(Byte), NEW f, Spells(d, K, f),
         NEW w \in Seq(Byte), NEW a \in Nat, NEW z \in Nat, Early(K, a), z + 1 = a + Len(w),
         NEW g, Continues(g, f, K, w, a, z)
  PROVE  Spells(d \o w, K \cup (a .. z), g)
<1>1. Len(w) \in Nat /\ Len(d) \in Nat /\ a <= z + 1 /\ z + 1 - a = Len(w) OBVIOUS
<1>2. /\ IsFiniteSet(K) /\ Cardinality(K) \in Nat
      /\ Cardinality(K \cup (a .. z)) = Cardinality(K) + (z + 1 - a)
  BY Zenon, <1>1, SizeMore
<1>3. PICK L : L = K \cup (a .. z) BY ZenonT(60)
<1>4. PICK t : t = d \o w BY ZenonT(60)
<1>5. /\ t \in Seq(Byte) /\ Len(t) = Len(d) + Len(w)
      /\ \A k \in 1 .. Len(d) : t[k] = d[k]
      /\ \A k \in 1 .. Len(w) : t[Len(d) + k] = w[k]
  BY <1>4, ConcatFacts
<1>6. Len(d) = Cardinality(K) /\ \A k \in K : d[Cardinality(UpTo(K, k))] = f[k]
  BY Zenon DEF Spells
<1>7. Len(t) = Cardinality(L) BY <1>1, <1>2, <1>3, <1>5, <1>6
<1>8. ASSUME NEW k \in K PROVE t[Cardinality(UpTo(L, k))] = g[k]
  <2>1. UpTo(L, k) = UpTo(K, k) BY <1>3 DEF UpTo, Early
  <2>2. K \subseteq Nat BY DEF Early
  <2>3. Cardinality(UpTo(K, k)) \in 1 .. Cardinality(K) BY Zenon, <1>2, <2>2, PlaceFacts
  <2>4. g[k] = f[k] BY Zenon DEF Continues
  <2> QED BY ZenonT(60), <1>5, <1>6, <2>1, <2>3, <2>4
<1>9. ASSUME NEW k \in a .. z PROVE t[Cardinality(UpTo(L, k))] = g[k]
  <2>0. UpTo(K \cup (a .. z), k) = K \cup (a .. k) BY UpToMore
  <2>1. UpTo(L, k) = K \cup (a .. k) BY Zenon, <1>3, <2>0
  <2>2. k \in Nat /\ a <= k + 1 /\ k + 1 - a \in 1 .. Len(w) /\ k + 1 - a = k - a + 1
    BY <1>1
  <2>3. Cardinality(K \cup (a .. k)) = Cardinality(K) + (k + 1 - a)
    BY Zenon, <2>2, SizeMore
  <2>4. t[Len(d) + (k + 1 - a)] = w[k + 1 - a] BY Zenon, <1>5, <2>2
  <2>5. g[k] = w[k - a + 1] BY Zenon DEF Continues
  <2> QED BY ZenonT(60), <1>6, <2>1, <2>2, <2>3, <2>4, <2>5
<1>10. \A k \in L : t[Cardinality(UpTo(L, k))] = g[k]
  <2> TAKE k \in L
  <2>1. k \in K \/ k \in a .. z BY Zenon, <1>3
  <2> QED BY ZenonT(60), <1>8, <1>9, <2>1
<1>11. Spells(t, L, g) BY Zenon, <1>7, <1>10 DEF Spells
<1> QED BY Zenon, <1>3, <1>4, <1>11

-----------------------------------------------------------------------------
(* The byte that the path has at k, or the one that its escape stands for. *)
Value(p) ==
  [k \in 1 .. Len(p) |-> IF p[k] # Percent THEN p[k]
                         ELSE 16 * hex_digit(p[k + 1]) + hex_digit(p[k + 2])]

(* The starts that decode_path() has passed at index n. *)
Passed(p, n) == {k \in Starts(p) : k < n}

(* What decode_path() knows at index n, with d in its buffer. *)
Read(p, n, d) ==
  /\ n \in 1 .. Len(p) + 1
  /\ \A j \in 1 .. n - 1 : p[j] \notin {Query, Hash}
  /\ \A j \in 1 .. n - 1 : j >= n - 2 => p[j] # Percent
  /\ \A j \in Passed(p, n) : p[j] = Percent => IsEscape(p, j)
  /\ Spells(d, Passed(p, n), Value(p))

(* A start lies before the query, and not inside an escape. *)
LEMMA StartFacts ==
  ASSUME NEW p \in Seq(Byte), NEW k
  PROVE  k \in Starts(p) <=>
           /\ k \in 1 .. Len(p) /\ \A j \in 1 .. k : p[j] \notin {Query, Hash}
           /\ \A j \in 1 .. k - 1 : j >= k - 2 => p[j] # Percent
<1>1. ASSUME k \in Starts(p)
      PROVE  /\ k \in 1 .. Len(p) /\ \A j \in 1 .. k : p[j] \notin {Query, Hash}
             /\ \A j \in 1 .. k - 1 : j >= k - 2 => p[j] # Percent
  <2>1. k \in 1 .. Len(p) /\ \A j \in 1 .. k : p[j] \notin {Query, Hash}
    BY Zenon, <1>1 DEF Starts, Live
  <2>2. ASSUME NEW j \in 1 .. k - 1, j >= k - 2 PROVE p[j] # Percent
    <3>1. j \in Live(p) BY <2>1 DEF Live
    <3>2. j \in {k - 1, k - 2} BY <2>1, <2>2
    <3> QED BY ZenonT(60), <1>1, <3>1, <3>2 DEF Starts
  <2> QED BY Zenon, <2>1, <2>2
<1>2. ASSUME k \in 1 .. Len(p), \A j \in 1 .. k : p[j] \notin {Query, Hash},
             \A j \in 1 .. k - 1 : j >= k - 2 => p[j] # Percent
      PROVE  k \in Starts(p)
  <2>1. k \in Live(p) BY Zenon, <1>2 DEF Live
  <2>2. ASSUME NEW j \in {k - 1, k - 2} \cap Live(p) PROVE p[j] # Percent
    <3>1. j \in 1 .. Len(p) BY Zenon DEF Live
    <3>2. j \in 1 .. k - 1 /\ j >= k - 2 BY <1>2, <3>1
    <3> QED BY Zenon, <1>2, <3>2
  <2> QED BY Zenon, <2>1, <2>2 DEF Starts
<1> QED BY Zenon, <1>1, <1>2

(* A hexadecimal digit ends nothing and begins no escape. *)
LEMMA HexIsPlain ==
  ASSUME NEW c, hex_digit(c) \in Nat
  PROVE  c \notin {Query, Hash, Percent} /\ hex_digit(c) \in 0 .. 15
BY DEF hex_digit, Query, Hash, Percent

(* Two digits, not both zero, stand for a byte. *)
LEMMA EscapeIs ==
  ASSUME NEW p \in Seq(Byte), NEW k \in 1 .. Len(p)
  PROVE  IsEscape(p, k) <=>
           /\ k + 2 <= Len(p)
           /\ hex_digit(p[k + 1]) >= 0 /\ hex_digit(p[k + 2]) >= 0
           /\ ~(hex_digit(p[k + 1]) = 0 /\ hex_digit(p[k + 2]) = 0)
<1>1. \A c : hex_digit(c) \in -1 .. 15 BY HexRange
<1>2. PICK hi \in -1 .. 15 : hi = hex_digit(p[k + 1]) BY <1>1
<1>3. PICK lo \in -1 .. 15 : lo = hex_digit(p[k + 2]) BY <1>1
<1>4. IsEscape(p, k) <=> k + 2 <= Len(p) /\ \E v \in Byte : hi = v \div 16 /\ lo = v % 16
  BY Zenon, <1>2, <1>3 DEF IsEscape
<1>5. ASSUME NEW v \in Byte, hi = v \div 16, lo = v % 16
      PROVE  hi >= 0 /\ lo >= 0 /\ ~(hi = 0 /\ lo = 0)
  BY <1>5 DEF Byte
<1>6. ASSUME hi >= 0, lo >= 0, ~(hi = 0 /\ lo = 0)
      PROVE  \E v \in Byte : hi = v \div 16 /\ lo = v % 16
  <2>1. 16 * hi + lo \in Byte BY <1>6 DEF Byte
  <2>2. hi = (16 * hi + lo) \div 16 /\ lo = (16 * hi + lo) % 16 BY <1>6
  <2> QED BY Zenon, <2>1, <2>2
<1> QED BY ZenonT(60), <1>2, <1>3, <1>4, <1>5, <1>6

(* decode_path() begins with nothing read. *)
LEMMA ReadInit ==
  ASSUME NEW p \in Seq(Byte)
  PROVE  Read(p, 1, <<>>)
<1>1. Passed(p, 1) = {} BY StartFacts DEF Passed
<1>2. Spells(<<>>, {}, Value(p)) BY FS_EmptySet DEF Spells
<1>3. 1 \in 1 .. Len(p) + 1 /\ 1 .. 1 - 1 = {} OBVIOUS
<1> QED BY Zenon, <1>1, <1>2, <1>3 DEF Read

(* At an index in the path it stands on a start. *)
LEMMA ReadStart ==
  ASSUME NEW p \in Seq(Byte), NEW n, NEW d, Read(p, n, d), n <= Len(p),
         p[n] \notin {Query, Hash}
  PROVE  /\ n \in 1 .. Len(p) /\ n \in Starts(p)
         /\ \A j \in 1 .. n : p[j] \notin {Query, Hash}
<1>1. n \in 1 .. Len(p) BY DEF Read
<1>2. ASSUME NEW j \in 1 .. n PROVE p[j] \notin {Query, Hash}
  <2>1. j \in 1 .. n - 1 \/ j = n BY <1>1
  <2> QED BY Zenon, <2>1 DEF Read
<1>3. \A j \in 1 .. n - 1 : j >= n - 2 => p[j] # Percent BY Zenon DEF Read
<1> QED BY Zenon, <1>1, <1>2, <1>3, StartFacts

(* One more start is one more byte. *)
LEMMA PassedMore ==
  ASSUME NEW p \in Seq(Byte), NEW n, NEW d \in Seq(Byte), Read(p, n, d), n \in Starts(p),
         NEW m \in Nat, Passed(p, m) = Passed(p, n) \cup (n .. n),
         NEW c \in Byte, c = Value(p)[n]
  PROVE  Spells(Append(d, c), Passed(p, m), Value(p))
<1>1. n \in Nat BY StartFacts
<1>2. Early(Passed(p, n), n) BY <1>1, StartFacts DEF Early, Passed
<1>3. Spells(d, Passed(p, n), Value(p)) BY Zenon DEF Read
<1>4. <<c>> \in Seq(Byte) /\ Len(<<c>>) = 1 /\ n + 1 = n + Len(<<c>>) BY <1>1
<1>5. Continues(Value(p), Value(p), Passed(p, n), <<c>>, n, n)
  <2>1. ASSUME NEW k \in n .. n PROVE Value(p)[k] = <<c>>[k - n + 1]
    <3>1. k = n /\ k - n + 1 = 1 BY <1>1
    <3>2. <<c>>[1] = c OBVIOUS
    <3> QED BY Zenon, <3>1, <3>2
  <2> QED BY Zenon, <2>1 DEF Continues
<1>6. Spells(d \o <<c>>, Passed(p, n) \cup (n .. n), Value(p))
  BY ZenonT(60), <1>1, <1>2, <1>3, <1>4, <1>5, SpellsMore
<1>7. d \o <<c>> = Append(d, c) OBVIOUS
<1> QED BY Zenon, <1>6, <1>7

(* A byte that is no escape. *)
LEMMA ReadPlain ==
  ASSUME NEW p \in Seq(Byte), NEW n, NEW d \in Seq(Byte), Read(p, n, d), n <= Len(p),
         p[n] \notin {Query, Hash}, p[n] # Percent
  PROVE  Value(p)[n] = p[n] /\ Read(p, n + 1, Append(d, p[n]))
<1>1. /\ n \in 1 .. Len(p) /\ n \in Starts(p)
      /\ \A j \in 1 .. n : p[j] \notin {Query, Hash}
  BY Zenon, ReadStart
<1>2. Value(p)[n] = p[n] /\ p[n] \in Byte BY <1>1 DEF Value
<1>3. n + 1 \in Nat /\ n + 1 \in 1 .. Len(p) + 1 /\ (n + 1) - 1 = n BY <1>1
<1>4. Passed(p, n + 1) = Passed(p, n) \cup (n .. n)
  <2>1. Starts(p) \subseteq Int BY StartFacts
  <2> QED BY <1>1, <2>1 DEF Passed
<1>5. Spells(Append(d, p[n]), Passed(p, n + 1), Value(p))
  BY ZenonT(60), <1>1, <1>2, <1>3, <1>4, PassedMore
<1>6. \A j \in 1 .. (n + 1) - 1 : p[j] \notin {Query, Hash} BY Zenon, <1>1, <1>3
<1>7. ASSUME NEW j \in 1 .. (n + 1) - 1, j >= (n + 1) - 2 PROVE p[j] # Percent
  <2>1. j = n \/ (j \in 1 .. n - 1 /\ j >= n - 2) BY <1>1, <1>7
  <2> QED BY Zenon, <2>1 DEF Read
<1>8. ASSUME NEW j \in Passed(p, n + 1), p[j] = Percent PROVE IsEscape(p, j)
  <2>1. j \in Passed(p, n) \/ j = n BY <1>1, <1>4
  <2> QED BY ZenonT(60), <1>8, <2>1 DEF Read
<1> QED BY ZenonT(60), <1>2, <1>3, <1>5, <1>6, <1>7, <1>8 DEF Read

(* An escape. *)
LEMMA ReadEscape ==
  ASSUME NEW p \in Seq(Byte), NEW n, NEW d \in Seq(Byte), Read(p, n, d), n <= Len(p),
         p[n] = Percent, IsEscape(p, n), NEW c \in Byte, c = Value(p)[n]
  PROVE  Read(p, n + 3, Append(d, c))
<1>1. p[n] \notin {Query, Hash} BY DEF Query, Hash, Percent
<1>2. /\ n \in 1 .. Len(p) /\ n \in Starts(p)
      /\ \A j \in 1 .. n : p[j] \notin {Query, Hash}
  BY Zenon, <1>1, ReadStart
<1>3. /\ n + 2 <= Len(p)
      /\ hex_digit(p[n + 1]) >= 0 /\ hex_digit(p[n + 2]) >= 0
  BY ZenonT(60), <1>2, EscapeIs
<1>4. hex_digit(p[n + 1]) \in Nat /\ hex_digit(p[n + 2]) \in Nat
  <2>1. hex_digit(p[n + 1]) \in -1 .. 15 /\ hex_digit(p[n + 2]) \in -1 .. 15
    BY Zenon, HexRange
  <2> QED BY <1>3, <2>1
<1>5. p[n + 1] \notin {Query, Hash, Percent} /\ p[n + 2] \notin {Query, Hash, Percent}
  BY Zenon, <1>4, HexIsPlain
<1>6. n + 3 \in Nat /\ n + 3 \in 1 .. Len(p) + 1 /\ (n + 3) - 1 = n + 2 /\ (n + 3) - 2 = n + 1
  BY <1>2, <1>3
<1>7. \A j \in 1 .. (n + 3) - 1 : j \in 1 .. n \/ j = n + 1 \/ j = n + 2 BY <1>2
<1>8. \A j \in 1 .. (n + 3) - 1 : p[j] \notin {Query, Hash} BY Zenon, <1>2, <1>5, <1>7
<1>9. ASSUME NEW j \in 1 .. (n + 3) - 1, j >= (n + 3) - 2 PROVE p[j] # Percent
  <2>1. j = n + 1 \/ j = n + 2 BY <1>2, <1>9
  <2> QED BY Zenon, <1>5, <2>1
<1>10. Passed(p, n + 3) = Passed(p, n) \cup (n .. n)
  <2>1. Starts(p) \subseteq Int BY StartFacts
  <2>2. n + 1 \notin Starts(p)
    <3>1. n \in 1 .. (n + 1) - 1 /\ n >= (n + 1) - 2 BY <1>2
    <3> QED BY ZenonT(60), <3>1, StartFacts
  <2>3. n + 2 \notin Starts(p)
    <3>1. n \in 1 .. (n + 2) - 1 /\ n >= (n + 2) - 2 BY <1>2
    <3> QED BY ZenonT(60), <3>1, StartFacts
  <2> QED BY <1>2, <2>1, <2>2, <2>3 DEF Passed
<1>11. Spells(Append(d, c), Passed(p, n + 3), Value(p))
  BY ZenonT(60), <1>2, <1>6, <1>10, PassedMore
<1>12. ASSUME NEW j \in Passed(p, n + 3), p[j] = Percent PROVE IsEscape(p, j)
  <2>1. j \in Passed(p, n) \/ j = n BY <1>2, <1>10
  <2> QED BY ZenonT(60), <1>12, <2>1 DEF Read
<1> QED BY ZenonT(60), <1>6, <1>8, <1>9, <1>11, <1>12 DEF Read

(* A spelling is by the values on its positions alone. *)
LEMMA SpellsSame ==
  ASSUME NEW d, NEW K, NEW f, NEW g, Spells(d, K, f), \A k \in K : g[k] = f[k]
  PROVE  Spells(d, K, g)
BY Zenon DEF Spells

(* What is passed is sound, and of a finite number. *)
LEMMA PassedSound ==
  ASSUME NEW p \in Seq(Byte), NEW n, NEW d, Read(p, n, d)
  PROVE  /\ Passed(p, n) \subseteq Sound(p) /\ Len(d) = Cardinality(Passed(p, n))
         /\ IsFiniteSet(Starts(p)) /\ IsFiniteSet(Sound(p)) /\ IsFiniteSet(Passed(p, n))
         /\ Sound(p) \subseteq Starts(p) /\ Starts(p) \subseteq Int /\ n \in Int
         /\ Cardinality(Sound(p)) \in Nat
<1>1. Starts(p) \subseteq 1 .. Len(p) /\ Starts(p) \subseteq Int BY StartFacts
<1>2. IsFiniteSet(1 .. Len(p)) BY FS_Interval
<1>3. Sound(p) \subseteq Starts(p) /\ Passed(p, n) \subseteq Starts(p)
  BY Zenon DEF Sound, Passed
<1>4. IsFiniteSet(Starts(p)) BY ZenonT(60), <1>1, <1>2, FS_Subset
<1>5. IsFiniteSet(Sound(p)) /\ IsFiniteSet(Passed(p, n))
  BY ZenonT(60), <1>3, <1>4, FS_Subset
<1>6. n \in Int BY DEF Read
<1>7. ASSUME NEW k \in Passed(p, n) PROVE k \in Sound(p)
  <2>1. ASSUME NEW j \in Starts(p), j <= k, p[j] = Percent PROVE IsEscape(p, j)
    <3>1. j < n BY <1>1, <1>6, <2>1 DEF Passed
    <3>2. j \in Passed(p, n) BY Zenon, <3>1 DEF Passed
    <3> QED BY Zenon, <2>1, <3>2 DEF Read
  <2> QED BY Zenon, <1>3, <2>1 DEF Sound
<1>8. Len(d) = Cardinality(Passed(p, n)) BY Zenon DEF Read, Spells
<1>9. Cardinality(Sound(p)) \in Nat BY Zenon, <1>5, FS_CardinalityType
<1> QED BY ZenonT(60), <1>1, <1>3, <1>4, <1>5, <1>6, <1>7, <1>8, <1>9

(* A malformed escape ends what is sound. *)
LEMMA ReadBad ==
  ASSUME NEW p \in Seq(Byte), NEW n, NEW d, Read(p, n, d), n \in Starts(p),
         p[n] = Percent, ~IsEscape(p, n)
  PROVE  Cardinality(Sound(p)) = Len(d) /\ Sound(p) # Starts(p)
<1>1. /\ Passed(p, n) \subseteq Sound(p) /\ Len(d) = Cardinality(Passed(p, n))
      /\ Sound(p) \subseteq Starts(p) /\ Starts(p) \subseteq Int /\ n \in Int
  BY PassedSound
<1>2. ASSUME NEW k \in Sound(p) PROVE k < n
  <2>1. ~(n <= k) BY Zenon DEF Sound
  <2>2. k \in Int BY Zenon, <1>1
  <2> QED BY <1>1, <2>1, <2>2
<1>3. Sound(p) = Passed(p, n) BY Zenon, <1>1, <1>2 DEF Passed
<1>4. n \notin Sound(p) BY <1>1, <1>2
<1> QED BY ZenonT(60), <1>1, <1>3, <1>4

(* A start too many for the buffer. *)
LEMMA ReadFull ==
  ASSUME NEW p \in Seq(Byte), NEW n, NEW d, Read(p, n, d), n \in Starts(p),
         p[n] = Percent => IsEscape(p, n)
  PROVE  Cardinality(Sound(p)) >= Len(d) + 1
<1>1. /\ Passed(p, n) \subseteq Sound(p) /\ Len(d) = Cardinality(Passed(p, n))
      /\ IsFiniteSet(Sound(p)) /\ IsFiniteSet(Passed(p, n))
      /\ Starts(p) \subseteq Int /\ n \in Int
  BY PassedSound
<1>2. n \notin Passed(p, n) BY <1>1 DEF Passed
<1>3. Cardinality(Passed(p, n) \cup {n}) = Cardinality(Passed(p, n)) + 1
  BY ZenonT(60), <1>1, <1>2, FS_AddElement
<1>4. n \in Sound(p)
  <2>1. ASSUME NEW j \in Starts(p), j <= n, p[j] = Percent PROVE IsEscape(p, j)
    <3>1. j = n \/ j < n BY <1>1, <2>1
    <3>2. j < n => j \in Passed(p, n) BY Zenon DEF Passed
    <3> QED BY ZenonT(60), <2>1, <3>1, <3>2 DEF Read
  <2> QED BY Zenon, <2>1 DEF Sound
<1>5. Passed(p, n) \cup {n} \in SUBSET Sound(p) BY Zenon, <1>1, <1>4
<1>6. Cardinality(Passed(p, n) \cup {n}) <= Cardinality(Sound(p))
  BY ZenonT(60), <1>1, <1>5, FS_Subset
<1>7. Cardinality(Sound(p)) \in Nat /\ Cardinality(Passed(p, n)) \in Nat
  BY Zenon, <1>1, FS_CardinalityType
<1> QED BY <1>1, <1>3, <1>6, <1>7

(* d is what the path p spells, all of it. *)
Understood(p, d) ==
  /\ Sound(p) = Starts(p) /\ Cardinality(Sound(p)) = Len(d) /\ Listed(d, Bytes(p))

(* At the end of the path all of it is read. *)
LEMMA ReadAll ==
  ASSUME NEW p \in Seq(Byte), NEW n, NEW d, Read(p, n, d),
         ~(n <= Len(p) /\ p[n] \notin {Query, Hash})
  PROVE  Understood(p, d)
<1>1. /\ Passed(p, n) \subseteq Sound(p) /\ Len(d) = Cardinality(Passed(p, n))
      /\ Sound(p) \subseteq Starts(p) /\ Starts(p) \subseteq Int /\ n \in Int
  BY PassedSound
<1>2. ASSUME NEW k \in Starts(p) PROVE k < n
  <2>1. k \in 1 .. Len(p) /\ \A j \in 1 .. k : p[j] \notin {Query, Hash} BY StartFacts
  <2> SUFFICES ASSUME n <= k PROVE FALSE BY <1>1, <2>1
  <2>2. n \in 1 .. k /\ n <= Len(p) BY <2>1 DEF Read
  <2> QED BY ZenonT(60), <2>1, <2>2
<1>3. Sound(p) = Passed(p, n) /\ Sound(p) = Starts(p) BY Zenon, <1>1, <1>2 DEF Passed
<1>4. DOMAIN Bytes(p) = Sound(p) BY Zenon DEF Bytes
<1>5. ASSUME NEW k \in Sound(p) PROVE Bytes(p)[k] = Value(p)[k]
  <2>1. k \in 1 .. Len(p) BY Zenon, <1>3, StartFacts
  <2> QED BY Zenon, <2>1 DEF Bytes, Value
<1>6. Spells(d, Sound(p), Value(p)) BY Zenon, <1>3 DEF Read
<1>7. Spells(d, Sound(p), Bytes(p)) BY ZenonT(60), <1>5, <1>6, SpellsSame
<1>8. Listed(d, Bytes(p)) BY ZenonT(60), <1>4, <1>7, ListedSpells
<1> QED BY ZenonT(60), <1>1, <1>3, <1>8 DEF Understood

-----------------------------------------------------------------------------
(* The segments that join_under_root() has taken at index n, and their     *)
(* bytes with the slash before each.                                       *)
Taken(d, n) == {g \in Segs(d) : ~Is(d, g, <<Dot>>) /\ g[2] < n}

Covers(d, G) == {k \in 1 .. Len(d) : \E g \in G : k \in g[1] - 1 .. g[2]}

(* What it knows at index n, with w appended to the root. *)
Descended(d, n, w) ==
  /\ d \in Seq(Byte) /\ d # <<>> /\ d[1] = Slash
  /\ n \in 1 .. Len(d) + 1 /\ (n <= Len(d) => d[n] = Slash)
  /\ \A c \in Climbs(d) : c[2] >= n
  /\ w \in Seq(Byte) /\ Spells(w, Covers(d, Taken(d, n)), d)

(* The next segment is [b, e]. *)
Follows(d, n, b, e) ==
  /\ b \in n .. Len(d) /\ e \in b .. Len(d)
  /\ \A k \in n .. b - 1 : d[k] = Slash
  /\ \A k \in b .. e : d[k] # Slash
  /\ e < Len(d) => d[e + 1] = Slash

(* A segment and its ends. *)
LEMMA SegSpan ==
  ASSUME NEW d \in Seq(Byte), NEW h \in Segs(d)
  PROVE  /\ h = <<h[1], h[2]>> /\ h[1] \in 1 .. Len(d) /\ h[2] \in 1 .. Len(d) /\ h[1] <= h[2]
         /\ \A k \in h[1] .. h[2] : d[k] # Slash
         /\ h[1] = 1 \/ d[h[1] - 1] = Slash
         /\ h[2] = Len(d) \/ d[h[2] + 1] = Slash
BY DEF Segs

(* The next segment is one, and every other that is left lies after it. *)
LEMMA NextIsSegment ==
  ASSUME NEW d, NEW n, NEW w, Descended(d, n, w), NEW b, NEW e, Follows(d, n, b, e)
  PROVE  /\ <<b, e>> \in Segs(d) /\ b \in Int /\ e \in Int /\ n \in Int
         /\ 1 <= n /\ n < b /\ b <= e /\ e <= Len(d) /\ d[b - 1] = Slash
         /\ \A h \in Segs(d) : h[2] < n \/ h = <<b, e>> \/ e < h[1]
<1>1. /\ d \in Seq(Byte) /\ n \in 1 .. Len(d) + 1 /\ (n <= Len(d) => d[n] = Slash)
  BY Zenon DEF Descended
<1>2. /\ b \in n .. Len(d) /\ e \in b .. Len(d)
      /\ \A k \in n .. b - 1 : d[k] = Slash
      /\ \A k \in b .. e : d[k] # Slash
      /\ e < Len(d) => d[e + 1] = Slash
  BY Zenon DEF Follows
<1>3. /\ b \in Int /\ e \in Int /\ n \in Int /\ Len(d) \in Int
      /\ 1 <= n /\ n <= b /\ b <= e /\ e <= Len(d)
  BY <1>1, <1>2
<1>4. n # b BY <1>1, <1>2, <1>3
<1>5. n < b /\ d[b - 1] = Slash BY <1>2, <1>3, <1>4
<1>6. <<b, e>> \in Segs(d) BY <1>1, <1>2, <1>3, <1>5, SegFacts
<1>7. ASSUME NEW h \in Segs(d), h[2] >= n, h[1] <= e PROVE h = <<b, e>>
  <2>1. PICK x : x = h[1] OBVIOUS
  <2>2. PICK y : y = h[2] OBVIOUS
  <2>3. /\ h = <<x, y>> /\ x \in 1 .. Len(d) /\ y \in 1 .. Len(d) /\ x <= y
        /\ \A k \in x .. y : d[k] # Slash
        /\ x = 1 \/ d[x - 1] = Slash
        /\ y = Len(d) \/ d[y + 1] = Slash
    BY <1>1, <2>1, <2>2, SegSpan
  <2>4. n <= y /\ x <= e BY <1>3, <1>7, <2>1, <2>2, <2>3
  <2>5. b <= y BY <1>2, <1>3, <2>3, <2>4
  <2>6. b <= x BY <1>3, <1>5, <2>3, <2>5
  <2>7. x = b BY <1>2, <1>3, <1>5, <2>3, <2>4, <2>6
  <2>8. y <= e BY <1>2, <1>3, <2>3, <2>7
  <2>9. e <= y BY <1>2, <1>3, <2>3, <2>5
  <2>10. y = e BY <1>3, <2>3, <2>8, <2>9
  <2> QED BY Zenon, <2>3, <2>7, <2>10
<1>8. ASSUME NEW h \in Segs(d) PROVE h[2] < n \/ h = <<b, e>> \/ e < h[1]
  <2>1. h[1] \in Int /\ h[2] \in Int BY <1>1, SegSpan
  <2>2. h[2] < n \/ e < h[1] \/ (h[2] >= n /\ h[1] <= e) BY <1>3, <2>1
  <2> QED BY ZenonT(60), <1>7, <2>2
<1> QED BY ZenonT(60), <1>3, <1>5, <1>6, <1>8

(* What is taken lies before n. *)
LEMMA TakenEarly ==
  ASSUME NEW d \in Seq(Byte), NEW n \in Nat, NEW a \in Nat, n <= a
  PROVE  Early(Covers(d, Taken(d, n)), a)
<1> SUFFICES ASSUME NEW k \in Covers(d, Taken(d, n)) PROVE k \in 1 .. a - 1
  BY Zenon DEF Early
<1>1. PICK g \in Taken(d, n) : k \in g[1] - 1 .. g[2] BY Zenon DEF Covers
<1>2. g \in Segs(d) /\ g[2] < n BY Zenon DEF Taken
<1>3. g[1] \in 1 .. Len(d) /\ g[2] \in 1 .. Len(d) BY <1>2, SegSpan
<1>4. k \in 1 .. Len(d) BY Zenon DEF Covers
<1> QED BY <1>1, <1>2, <1>3, <1>4

(* H is G and g. *)
Adds(H, G, g) == H = G \cup {g}

(* At the end of the next segment, that one may be taken as well. *)
LEMMA TakenMore ==
  ASSUME NEW d, NEW n, NEW w, Descended(d, n, w), NEW b, NEW e, Follows(d, n, b, e)
  PROVE  /\ Is(d, <<b, e>>, <<Dot>>) => Taken(d, e + 1) = Taken(d, n)
         /\ ~Is(d, <<b, e>>, <<Dot>>) => Adds(Taken(d, e + 1), Taken(d, n), <<b, e>>)
<1>1. /\ <<b, e>> \in Segs(d) /\ b \in Int /\ e \in Int /\ n \in Int
      /\ 1 <= n /\ n < b /\ b <= e /\ e <= Len(d)
      /\ \A h \in Segs(d) : h[2] < n \/ h = <<b, e>> \/ e < h[1]
  BY Zenon, NextIsSegment
<1>2. d \in Seq(Byte) BY Zenon DEF Descended
<1>3. ASSUME NEW h \in Segs(d) PROVE h[2] < e + 1 <=> h[2] < n \/ h = <<b, e>>
  <2>1. h[1] \in Int /\ h[2] \in Int /\ h[1] <= h[2] BY <1>2, SegSpan
  <2>2. CASE h[2] < n BY <1>1, <2>1, <2>2
  <2>3. CASE h = <<b, e>>
    <3>1. h[2] = e BY <2>3
    <3> QED BY <1>1, <2>3, <3>1
  <2>4. CASE e < h[1] /\ ~(h[2] < n) /\ h # <<b, e>> BY <1>1, <2>1, <2>4
  <2> QED BY ZenonT(60), <1>1, <2>2, <2>3, <2>4
<1> QED BY Zenon, <1>1, <1>3 DEF Taken, Adds

(* A ".." that is not the next segment lies after it. *)
LEMMA ClimbsLater ==
  ASSUME NEW d, NEW n, NEW w, Descended(d, n, w), NEW b, NEW e, Follows(d, n, b, e),
         ~Is(d, <<b, e>>, <<Dot, Dot>>), NEW c \in Climbs(d)
  PROVE  e < c[1] /\ c[2] >= e + 1
<1>1. /\ e \in Int /\ n \in Int
      /\ \A h \in Segs(d) : h[2] < n \/ h = <<b, e>> \/ e < h[1]
  BY Zenon, NextIsSegment
<1>2. c \in Segs(d) /\ c # <<b, e>> BY Zenon DEF Climbs
<1>3. c[2] >= n /\ d \in Seq(Byte) BY ZenonT(60) DEF Descended
<1>4. c[1] \in Int /\ c[2] \in Int /\ c[1] <= c[2] BY <1>2, <1>3, SegSpan
<1>5. ~(c[2] < n) BY <1>1, <1>3, <1>4
<1>6. e < c[1] BY ZenonT(60), <1>1, <1>2, <1>5
<1> QED BY <1>1, <1>4, <1>6

(* The next segment leaves off at a slash or at the end. *)
LEMMA FollowsEnd ==
  ASSUME NEW d, NEW n, NEW w, Descended(d, n, w), NEW b, NEW e, Follows(d, n, b, e)
  PROVE  e + 1 \in 1 .. Len(d) + 1 /\ (e + 1 <= Len(d) => d[e + 1] = Slash)
<1>1. e \in Int /\ b \in Int /\ n \in Int /\ 1 <= n /\ n < b /\ b <= e /\ e <= Len(d)
  BY Zenon, NextIsSegment
<1>2. e < Len(d) => d[e + 1] = Slash BY Zenon DEF Follows
<1>3. Len(d) \in Int BY DEF Descended
<1> QED BY <1>1, <1>2, <1>3

(* "." is skipped. *)
LEMMA DescendSkip ==
  ASSUME NEW d, NEW n, NEW w, Descended(d, n, w), NEW b, NEW e, Follows(d, n, b, e),
         Is(d, <<b, e>>, <<Dot>>)
  PROVE  Descended(d, e + 1, w)
<1>1. e + 1 \in 1 .. Len(d) + 1 /\ (e + 1 <= Len(d) => d[e + 1] = Slash)
  BY Zenon, FollowsEnd
<1>2. <<Dot>> # <<Dot, Dot>> OBVIOUS
<1>3. ~Is(d, <<b, e>>, <<Dot, Dot>>) BY Zenon, <1>2 DEF Is
<1>4. \A c \in Climbs(d) : c[2] >= e + 1 BY ZenonT(60), <1>3, ClimbsLater
<1>5. Taken(d, e + 1) = Taken(d, n) BY Zenon, TakenMore
<1> QED BY ZenonT(60), <1>1, <1>4, <1>5 DEF Descended

(* The segment and its slash are one piece of the path. *)
LEMMA PieceFacts ==
  ASSUME NEW d \in Seq(Byte), NEW b \in Int, NEW e \in Int, 1 < b, b <= e, e <= Len(d)
  PROVE  /\ SubSeq(d, b - 1, e) \in Seq(Byte) /\ Len(SubSeq(d, b - 1, e)) = e - b + 2
         /\ \A k \in b - 1 .. e : d[k] = SubSeq(d, b - 1, e)[k - (b - 1) + 1]
<1>1. PICK v : v = SubSeq(d, b - 1, e) BY ZenonT(60)
<1>2. /\ v \in Seq(Byte) /\ Len(v) = e - b + 2
      /\ \A k \in 1 .. e - b + 2 : v[k] = d[(b - 1) + k - 1]
  BY <1>1
<1>3. ASSUME NEW k \in b - 1 .. e PROVE d[k] = v[k - (b - 1) + 1]
  <2>1. k - (b - 1) + 1 \in 1 .. e - b + 2 /\ (b - 1) + (k - (b - 1) + 1) - 1 = k
    OBVIOUS
  <2> QED BY <1>2, <2>1
<1> QED BY ZenonT(60), <1>1, <1>2, <1>3

(* What a segment adds to the positions taken. *)
LEMMA CoversMore ==
  ASSUME NEW d \in Seq(Byte), NEW G, NEW H, NEW b \in Int, NEW e \in Int,
         1 < b, b <= e, e <= Len(d), Adds(H, G, <<b, e>>)
  PROVE  Covers(d, H) = Covers(d, G) \cup (b - 1 .. e)
<1>1. <<b, e>>[1] = b /\ <<b, e>>[2] = e OBVIOUS
<1>2. b - 1 .. e \subseteq 1 .. Len(d) OBVIOUS
<1> QED BY Zenon, <1>1, <1>2 DEF Covers, Adds

(* Any other segment is taken, with the slash before it. *)
LEMMA DescendTake ==
  ASSUME NEW d, NEW n, NEW w, Descended(d, n, w), NEW b, NEW e, Follows(d, n, b, e),
         ~Is(d, <<b, e>>, <<Dot>>)
  PROVE  /\ Covers(d, Taken(d, e + 1)) = Covers(d, Taken(d, n)) \cup (b - 1 .. e)
         /\ Spells(w \o SubSeq(d, b - 1, e), Covers(d, Taken(d, e + 1)), d)
         /\ ~Is(d, <<b, e>>, <<Dot, Dot>>) =>
              Descended(d, e + 1, w \o SubSeq(d, b - 1, e))
<1>1. /\ b \in Int /\ e \in Int /\ n \in Int
      /\ 1 <= n /\ n < b /\ b <= e /\ e <= Len(d)
  BY ZenonT(60), NextIsSegment
<1>2. /\ d \in Seq(Byte) /\ w \in Seq(Byte) /\ Spells(w, Covers(d, Taken(d, n)), d)
      /\ d # <<>> /\ d[1] = Slash
  BY Zenon DEF Descended
<1>3. 1 < b BY <1>1
<1>4. Covers(d, Taken(d, e + 1)) = Covers(d, Taken(d, n)) \cup (b - 1 .. e)
  <2>1. Adds(Taken(d, e + 1), Taken(d, n), <<b, e>>) BY ZenonT(60), TakenMore
  <2> QED BY <1>1, <1>2, <1>3, <2>1, CoversMore
<1>5. PICK v : v = SubSeq(d, b - 1, e) BY ZenonT(60)
<1>6. /\ v \in Seq(Byte) /\ Len(v) = e - b + 2
      /\ \A k \in b - 1 .. e : d[k] = v[k - (b - 1) + 1]
  BY ZenonT(60), <1>1, <1>2, <1>3, <1>5, PieceFacts
<1>7. n \in Nat /\ b - 1 \in Nat /\ e \in Nat /\ n <= b - 1 /\ e + 1 = (b - 1) + (e - b + 2)
  BY <1>1
<1>8. Early(Covers(d, Taken(d, n)), b - 1) BY Zenon, <1>2, <1>7, TakenEarly
<1>9. Continues(d, d, Covers(d, Taken(d, n)), v, b - 1, e) BY Zenon, <1>6 DEF Continues
<1>10. e + 1 = (b - 1) + Len(v) BY ZenonT(60), <1>6, <1>7
<1>11. Spells(w \o v, Covers(d, Taken(d, n)) \cup (b - 1 .. e), d)
  BY ZenonT(60), <1>2, <1>6, <1>7, <1>8, <1>9, <1>10, SpellsMore
<1>12. Spells(w \o v, Covers(d, Taken(d, e + 1)), d) BY ZenonT(60), <1>4, <1>11
<1>13. e + 1 \in 1 .. Len(d) + 1 /\ (e + 1 <= Len(d) => d[e + 1] = Slash)
  BY ZenonT(60), FollowsEnd
<1>14. w \o v \in Seq(Byte) BY <1>2, <1>6, ConcatFacts
<1>15. ASSUME ~Is(d, <<b, e>>, <<Dot, Dot>>) PROVE Descended(d, e + 1, w \o v)
  <2>1. \A c \in Climbs(d) : c[2] >= e + 1 BY ZenonT(60), <1>15, ClimbsLater
  <2> QED BY ZenonT(60), <1>2, <1>12, <1>13, <1>14, <2>1 DEF Descended
<1> QED BY Zenon, <1>4, <1>5, <1>12, <1>15

(* The name that d means, in terms of the segments taken. *)
LEMMA KeptFacts ==
  ASSUME NEW d \in Seq(Byte)
  PROVE  /\ DOMAIN Kept(d) = Covers(d, Named(d))
         /\ IsFiniteSet(Covers(d, Named(d))) /\ Cardinality(Covers(d, Named(d))) \in Nat
         /\ \A w : Spells(w, Covers(d, Named(d)), d) => Listed(w, Kept(d))
<1>1. DOMAIN Kept(d) = Covers(d, Named(d)) BY Zenon DEF Kept, Covers
<1>2. IsFiniteSet(1 .. Len(d)) BY FS_Interval
<1>3. Covers(d, Named(d)) \in SUBSET (1 .. Len(d)) BY Zenon DEF Covers
<1>4. IsFiniteSet(Covers(d, Named(d))) BY ZenonT(60), <1>2, <1>3, FS_Subset
<1>5. Cardinality(Covers(d, Named(d))) \in Nat BY ZenonT(60), <1>4, FS_CardinalityType
<1>6. \A k \in Covers(d, Named(d)) : Kept(d)[k] = d[k] BY Zenon DEF Kept, Covers
<1>7. ASSUME NEW w, Spells(w, Covers(d, Named(d)), d) PROVE Listed(w, Kept(d))
  <2>1. Spells(w, Covers(d, Named(d)), Kept(d)) BY ZenonT(60), <1>6, <1>7, SpellsSame
  <2> QED BY ZenonT(60), <1>1, <2>1, ListedSpells
<1> QED BY ZenonT(60), <1>1, <1>4, <1>5, <1>7

(* At the first "..", what is named is what was taken. *)
LEMMA EndClimb ==
  ASSUME NEW d, NEW n, NEW w, Descended(d, n, w), NEW b, NEW e, Follows(d, n, b, e),
         Is(d, <<b, e>>, <<Dot, Dot>>)
  PROVE  Named(d) = Taken(d, n) /\ Climbs(d) # {}
<1>1. /\ <<b, e>> \in Segs(d) /\ b \in Int /\ e \in Int /\ n \in Int
      /\ 1 <= n /\ n < b /\ b <= e
      /\ \A h \in Segs(d) : h[2] < n \/ h = <<b, e>> \/ e < h[1]
  BY ZenonT(60), NextIsSegment
<1>2. d \in Seq(Byte) /\ \A c \in Climbs(d) : c[2] >= n BY Zenon DEF Descended
<1>3. <<b, e>> \in Climbs(d) /\ <<b, e>>[1] = b BY Zenon, <1>1 DEF Climbs
<1>4. ASSUME NEW g \in Segs(d) PROVE g[2] < n <=> \A c \in Climbs(d) : g[1] < c[1]
  <2>1. g[1] \in Int /\ g[2] \in Int /\ g[1] <= g[2] BY <1>2, SegSpan
  <2>2. ASSUME g[2] < n, NEW c \in Climbs(d) PROVE g[1] < c[1]
    <3>1. c \in Segs(d) BY Zenon DEF Climbs
    <3>2. c[1] \in Int /\ c[2] \in Int BY <1>2, <3>1, SegSpan
    <3>3. c[2] >= n BY ZenonT(60), <1>2
    <3>4. ~(c[2] < n) BY <1>1, <3>2, <3>3
    <3>5. c = <<b, e>> \/ e < c[1] BY ZenonT(60), <1>1, <3>1, <3>4
    <3>6. c[1] >= b BY <1>1, <3>2, <3>5
    <3> QED BY <1>1, <2>1, <2>2, <3>2, <3>6
  <2>3. ASSUME \A c \in Climbs(d) : g[1] < c[1] PROVE g[2] < n
    <3>1. g[1] < b BY ZenonT(60), <1>3, <2>3
    <3>2. g[1] # b /\ ~(e < g[1]) BY <1>1, <2>1, <3>1
    <3>3. g # <<b, e>> BY ZenonT(60), <1>3, <3>2
    <3> QED BY ZenonT(60), <1>1, <3>2, <3>3
  <2> QED BY ZenonT(60), <2>2, <2>3
<1> QED BY ZenonT(60), <1>3, <1>4 DEF Named, Taken

(* A segment that does not fit is named as well. *)
LEMMA EndTooLong ==
  ASSUME NEW d, NEW n, NEW w, Descended(d, n, w), NEW b, NEW e, Follows(d, n, b, e),
         ~Is(d, <<b, e>>, <<Dot>>), ~Is(d, <<b, e>>, <<Dot, Dot>>)
  PROVE  Named(d) # {} /\ Cardinality(Covers(d, Named(d))) >= Len(w) + (e - b + 2)
<1>1. /\ <<b, e>> \in Segs(d) /\ b \in Int /\ e \in Int /\ n \in Int
      /\ 1 <= n /\ n < b /\ b <= e /\ e <= Len(d)
  BY Zenon, NextIsSegment
<1>2. d \in Seq(Byte) /\ w \in Seq(Byte) BY Zenon DEF Descended
<1>3. ASSUME NEW g \in Taken(d, e + 1) PROVE g \in Named(d)
  <2>1. g \in Segs(d) /\ ~Is(d, g, <<Dot>>) /\ g[2] < e + 1 BY Zenon DEF Taken
  <2>2. g[1] \in Int /\ g[2] \in Int /\ g[1] <= g[2] BY <1>2, <2>1, SegSpan
  <2>3. ASSUME NEW c \in Climbs(d) PROVE g[1] < c[1]
    <3>1. c \in Segs(d) BY ZenonT(60) DEF Climbs
    <3>2. c[1] \in Int BY <1>2, <3>1, SegSpan
    <3>3. e < c[1] BY ZenonT(60), ClimbsLater
    <3> QED BY <1>1, <2>1, <2>2, <3>2, <3>3
  <2> QED BY ZenonT(60), <2>1, <2>3 DEF Named
<1>4. <<b, e>> \in Taken(d, e + 1)
  <2>1. <<b, e>>[2] = e /\ e < e + 1 BY <1>1
  <2> QED BY ZenonT(60), <1>1, <2>1 DEF Taken
<1>5. Covers(d, Taken(d, e + 1)) \in SUBSET Covers(d, Named(d))
  BY ZenonT(60), <1>3 DEF Covers
<1>6. Cardinality(Covers(d, Taken(d, e + 1))) <= Cardinality(Covers(d, Named(d)))
  BY ZenonT(60), <1>2, <1>5, KeptFacts, FS_Subset
<1>7. PICK v : v = SubSeq(d, b - 1, e) BY ZenonT(60)
<1>8. Spells(w \o v, Covers(d, Taken(d, e + 1)), d) BY Zenon, <1>7, DescendTake
<1>9. Len(w \o v) = Cardinality(Covers(d, Taken(d, e + 1))) BY Zenon, <1>8 DEF Spells
<1>10. 1 < b BY <1>1
<1>11. v \in Seq(Byte) /\ Len(v) = e - b + 2 BY Zenon, <1>1, <1>2, <1>7, <1>10, PieceFacts
<1>12. Len(w \o v) = Len(w) + Len(v) BY ZenonT(60), <1>2, <1>11, ConcatFacts
<1>13. Cardinality(Covers(d, Named(d))) \in Nat BY ZenonT(60), <1>2, KeptFacts
<1>14. Len(w) + (e - b + 2) <= Cardinality(Covers(d, Named(d)))
  BY ZenonT(60), <1>6, <1>9, <1>11, <1>12
<1>15. Len(w) \in Nat BY <1>2
<1>16. Cardinality(Covers(d, Named(d))) >= Len(w) + (e - b + 2)
  BY <1>1, <1>13, <1>14, <1>15
<1> QED BY ZenonT(60), <1>3, <1>4, <1>16

(* Where only slashes are left, all that is named was taken. *)
LEMMA EndAll ==
  ASSUME NEW d, NEW n, NEW w, Descended(d, n, w), \A k \in n .. Len(d) : d[k] = Slash
  PROVE  Named(d) = Taken(d, n) /\ Climbs(d) = {}
<1>1. d \in Seq(Byte) /\ n \in 1 .. Len(d) + 1 /\ \A c \in Climbs(d) : c[2] >= n
  BY ZenonT(60) DEF Descended
<1>2. ASSUME NEW g \in Segs(d) PROVE g[2] < n /\ ~(g[2] >= n)
  <2>1. /\ g[1] \in 1 .. Len(d) /\ g[2] \in 1 .. Len(d) /\ g[1] <= g[2]
        /\ \A k \in g[1] .. g[2] : d[k] # Slash
    BY <1>1, SegSpan
  <2>2. d[g[2]] # Slash BY <2>1
  <2>3. g[2] \notin n .. Len(d) BY Zenon, <2>2
  <2> QED BY <1>1, <2>1, <2>3
<1>3. Climbs(d) = {} BY ZenonT(60), <1>1, <1>2 DEF Climbs
<1> QED BY ZenonT(60), <1>2, <1>3 DEF Named, Taken

-----------------------------------------------------------------------------
(* The query of p begins after its first n bytes. *)
Cut(p, n) ==
  /\ n \in 0 .. Len(p) /\ \A k \in 1 .. n : p[k] # Query
  /\ n = Len(p) \/ p[n + 1] = Query

(* It begins at one place. *)
LEMMA CutUnique ==
  ASSUME NEW p \in Seq(Byte), NEW m, NEW n, Cut(p, m), Cut(p, n)
  PROVE  m = n
BY DEF Cut

(* The first n bytes of a path. *)
LEMMA FirstBytes ==
  ASSUME NEW p \in Seq(Byte), NEW n \in 0 .. Len(p)
  PROVE  /\ SubSeq(p, 1, n) \in Seq(Byte) /\ Len(SubSeq(p, 1, n)) = n
         /\ \A k \in 1 .. n : SubSeq(p, 1, n)[k] = p[k]
OBVIOUS

(* And at some place, if only at the end. *)
LEMMA CutExists ==
  ASSUME NEW p \in Seq(Byte)
  PROVE  \E n \in 0 .. Len(p) : Cut(p, n)
<1> DEFINE T == {k \in 0 .. Len(p) : k = Len(p) \/ p[k + 1] = Query}
<1>1. T \subseteq Nat /\ Len(p) \in T OBVIOUS
<1>2. PICK n \in T : \A m \in T : n <= m BY ZenonT(60), <1>1, LeastNatural
<1>3. ASSUME NEW k \in 1 .. n PROVE p[k] # Query
  <2>1. k - 1 \in 0 .. Len(p) /\ ~(n <= k - 1) /\ (k - 1) + 1 = k BY <1>2
  <2>2. k - 1 \notin T BY Zenon, <1>2, <2>1
  <2> QED BY Zenon, <2>1, <2>2
<1>4. n \in 0 .. Len(p) /\ (n = Len(p) \/ p[n + 1] = Query) BY Zenon, <1>2
<1> QED BY ZenonT(60), <1>3, <1>4 DEF Cut

(* A path routes to t when t is what comes before its query. *)
LEMMA RoutesCut ==
  ASSUME NEW p \in Seq(Byte), NEW n, Cut(p, n),
         NEW t \in Seq(Byte), \A k \in 1 .. Len(t) : t[k] # Query
  PROVE  RoutesTo(p, t) <=> SubSeq(p, 1, n) = t
<1>1. n \in 0 .. Len(p) BY Zenon DEF Cut
<1>2. ASSUME RoutesTo(p, t) PROVE SubSeq(p, 1, n) = t
  <2>1. /\ Len(t) <= Len(p) /\ SubSeq(p, 1, Len(t)) = t
        /\ Len(p) = Len(t) \/ p[Len(t) + 1] = Query
    BY ZenonT(60), <1>2 DEF RoutesTo
  <2>2. Len(t) \in 0 .. Len(p) BY <2>1
  <2>3. \A k \in 1 .. Len(t) : p[k] = t[k]
    <3>1. \A k \in 1 .. Len(t) : SubSeq(p, 1, Len(t))[k] = p[k]
      BY ZenonT(60), <2>2, FirstBytes
    <3> QED BY ZenonT(60), <2>1, <3>1
  <2>4. Cut(p, Len(t)) BY ZenonT(60), <2>1, <2>2, <2>3 DEF Cut
  <2>5. n = Len(t) BY ZenonT(60), <2>4, CutUnique
  <2> QED BY ZenonT(60), <2>1, <2>5
<1>3. ASSUME SubSeq(p, 1, n) = t PROVE RoutesTo(p, t)
  <2>1. Len(SubSeq(p, 1, n)) = n BY ZenonT(60), <1>1, FirstBytes
  <2>2. Len(t) = n BY ZenonT(60), <1>3, <2>1
  <2>3. n <= Len(p) BY <1>1
  <2>4. Len(p) = n \/ p[n + 1] = Query BY Zenon DEF Cut
  <2> QED BY ZenonT(60), <1>3, <2>2, <2>3, <2>4 DEF RoutesTo
<1> QED BY ZenonT(60), <1>2, <1>3

(* path_is() compares what comes before the query. *)
LEMMA PathIsCut ==
  ASSUME path \in Seq(Byte), NEW n, Cut(path, n), NEW t
  PROVE  path_is(t) <=> SubSeq(path, 1, n) = t
<1> DEFINE queries == {k \in DOMAIN path : path[k] = Query}
           first   == CHOOSE k \in queries : \A j \in queries : k <= j
           len     == IF queries = {} THEN Len(path) ELSE first - 1
<1>1. path_is(t) <=> SubSeq(path, 1, len) = t BY ZenonT(60) DEF path_is
<1>2. DOMAIN path = 1 .. Len(path) /\ queries \subseteq Nat OBVIOUS
<1>3. CASE queries = {}
  <2>1. len = Len(path) BY ZenonT(60), <1>3
  <2>2. Cut(path, Len(path))
    <3>1. \A k \in 1 .. Len(path) : path[k] # Query BY ZenonT(60), <1>2, <1>3
    <3>2. Len(path) \in 0 .. Len(path) OBVIOUS
    <3> QED BY ZenonT(60), <3>1, <3>2 DEF Cut
  <2>3. n = Len(path) BY ZenonT(60), <2>2, CutUnique
  <2> QED BY ZenonT(60), <1>1, <2>1, <2>3
<1>4. CASE queries # {}
  <2>1. \E k \in queries : \A j \in queries : k <= j
    BY ZenonT(60), <1>2, <1>4, LeastNatural
  <2>2. first \in queries /\ \A j \in queries : first <= j BY ZenonT(60), <2>1
  <2>3. PICK q : q = first OBVIOUS
  <2>4. q \in 1 .. Len(path) /\ path[q] = Query /\ \A j \in queries : q <= j
    BY ZenonT(60), <1>2, <2>2, <2>3
  <2>5. ASSUME NEW k \in 1 .. q - 1 PROVE path[k] # Query
    <3>1. k \in 1 .. Len(path) /\ ~(q <= k) BY <2>4
    <3> QED BY ZenonT(60), <1>2, <2>4, <3>1
  <2>6. q - 1 \in 0 .. Len(path) /\ (q - 1) + 1 = q BY <2>4
  <2>7. Cut(path, q - 1) BY ZenonT(60), <2>4, <2>5, <2>6 DEF Cut
  <2>8. n = q - 1 BY ZenonT(60), <2>7, CutUnique
  <2>9. len = q - 1 BY ZenonT(60), <1>4, <2>3
  <2> QED BY ZenonT(60), <1>1, <2>8, <2>9
<1> QED BY ZenonT(60), <1>3, <1>4

(* No target of a route has a query in it. *)
LEMMA TargetsArePlain ==
  /\ <<Slash>> \in Seq(Byte) /\ \A k \in 1 .. Len(<<Slash>>) : <<Slash>>[k] # Query
  /\ HELLO \in Seq(Byte) /\ \A k \in 1 .. Len(HELLO) : HELLO[k] # Query
<1>1. Slash \in Byte /\ Slash # Query BY DEF Slash, Query, Byte
<1>2. <<Slash>> \in Seq(Byte) /\ \A k \in 1 .. Len(<<Slash>>) : <<Slash>>[k] # Query BY <1>1
<1>3. HELLO \in Seq(Byte) /\ \A k \in 1 .. Len(HELLO) : HELLO[k] # Query
  BY StaticPathsAssumption
<1> QED BY ZenonT(60), <1>2, <1>3

(* The routes of p. *)
Routed(p) == RoutesTo(p, <<Slash>>) \/ RoutesTo(p, HELLO)

(* path_is() and the meaning of the path agree on them. *)
LEMMA RoutesAgree ==
  ASSUME path \in Seq(Byte)
  PROVE  path_is(<<Slash>>) \/ path_is(HELLO) <=> Routed(path)
<1>1. PICK n : Cut(path, n) BY ZenonT(60), CutExists
<1>2. path_is(<<Slash>>) <=> RoutesTo(path, <<Slash>>)
  BY ZenonT(60), <1>1, RoutesCut, PathIsCut, TargetsArePlain
<1>3. path_is(HELLO) <=> RoutesTo(path, HELLO)
  BY ZenonT(60), <1>1, RoutesCut, PathIsCut, TargetsArePlain
<1> QED BY ZenonT(60), <1>2, <1>3 DEF Routed

-----------------------------------------------------------------------------
(* The name in the making is the root and what was taken so far. *)
Joining == \E w \in Seq(Byte) : fs_path = prefix \o w /\ Descended(decoded, i, w)

(* The strengthening that makes OpensWhatIsMeant inductive: in each loop   *)
(* the buffer spells the part of the input that the index has passed.      *)
MeantInv ==
  /\ pc = "route" => i = 1 /\ decoded = <<>>
  /\ pc \in {"decode", "join"} => ~Routed(path) /\ Len(decoded) < PATH_MAX
  /\ pc = "decode" => Read(path, i, decoded)
  /\ pc = "join" => Understood(path, decoded) /\ Joining
  /\ OpensWhatIsMeant

(* What is known of every state. *)
LEMMA TypedFacts ==
  ASSUME Typed
  PROVE  /\ path \in Seq(Byte) /\ decoded \in Seq(Byte) /\ fs_path \in Seq(Byte)
         /\ prefix \in Seq(Byte) /\ Len(prefix) < PATH_MAX
         /\ PATH_MAX \in Nat /\ 0 < PATH_MAX /\ i \in Nat \ {0}
<1>1. /\ g_root \in Seq(Byte) /\ g_root # <<>> /\ Len(g_root) < PATH_MAX /\ PATH_MAX \in Nat
  BY RootFacts DEF Typed
<1>2. path \in Seq(Byte) BY StaticPathsAssumption DEF Typed
<1>3. 0 < PATH_MAX BY <1>1
<1>4. prefix \in Seq(Byte) /\ Len(prefix) < PATH_MAX BY <1>1, <1>3 DEF prefix
<1> QED BY ZenonT(60), <1>1, <1>2, <1>3, <1>4 DEF Typed

(* Nothing is owed for a request that is not routed yet. *)
LEMMA MeantInit == Init => MeantInv
BY Zenon DEF Init, MeantInv, OpensWhatIsMeant

(* The built-in routes are the ones the path means. *)
LEMMA MeantRoute == ASSUME DownInv, MeantInv, route_request PROVE MeantInv'
<1>1. pc = "route" /\ i = 1 /\ decoded = <<>> /\ UNCHANGED <<g_root, path, i, decoded, fs_path>>
  BY Zenon DEF MeantInv, route_request
<1>2. path \in Seq(Byte) /\ PATH_MAX \in Nat /\ 0 < PATH_MAX
  BY ZenonT(60), TypedFacts DEF DownInv
<1>3. CASE Routed(path)
  <2>1. pc' = "done" /\ answer' = "builtin"
    BY ZenonT(60), <1>2, <1>3, RoutesAgree DEF route_request, Return
  <2>2. IsMeant(path)' BY ZenonT(60), <1>1, <1>3, <2>1 DEF IsMeant, Routed
  <2> QED BY ZenonT(60), <1>1, <2>1, <2>2 DEF MeantInv, OpensWhatIsMeant
<1>4. CASE ~Routed(path)
  <2>1. pc' = "decode" BY ZenonT(60), <1>2, <1>4, RoutesAgree DEF route_request
  <2>2. Read(path, 1, <<>>) BY ZenonT(60), <1>2, ReadInit
  <2>3. Len(<<>>) = 0 OBVIOUS
  <2>4. Read(path', i', decoded') /\ ~Routed(path') /\ Len(decoded') < PATH_MAX
    BY ZenonT(60), <1>1, <1>2, <1>4, <2>2, <2>3
  <2> QED BY ZenonT(60), <1>1, <2>1, <2>4 DEF MeantInv, OpensWhatIsMeant
<1> QED BY ZenonT(60), <1>3, <1>4

(* decode_path() takes an escape for what it stands for. *)
LEMMA MeaningIs ==
  ASSUME Typed, InPath
  PROVE  /\ i \in 1 .. Len(path) /\ i <= Len(path) /\ path[i] \notin {Query, Hash}
         /\ path[i] # Percent => Meaning = path[i] /\ Meaning # -1
         /\ path[i] = Percent => (Meaning = -1 <=> ~IsEscape(path, i))
         /\ Meaning # -1 => Meaning = Value(path)[i]
<1>1. path \in Seq(Byte) /\ i \in Nat \ {0} BY ZenonT(60), TypedFacts
<1>2. i \in 1 .. Len(path) /\ i <= Len(path) /\ path[i] \notin {Query, Hash}
  BY <1>1 DEF InPath
<1>3. path[i] # -1
  <2>1. path[i] \in Byte BY <1>1, <1>2
  <2>2. -1 \notin Byte BY DEF Byte
  <2> QED BY ZenonT(60), <2>1, <2>2
<1>4. path[i] # Percent => Meaning = path[i] /\ Meaning # -1
  BY ZenonT(60), <1>3 DEF Meaning
<1>5. Value(path)[i] = (IF path[i] # Percent THEN path[i]
                        ELSE 16 * hex_digit(path[i + 1]) + hex_digit(path[i + 2]))
  BY ZenonT(60), <1>2 DEF Value
<1>6. ASSUME path[i] = Percent
      PROVE  /\ Meaning = -1 <=> ~IsEscape(path, i)
             /\ Meaning # -1 => Meaning = Value(path)[i]
  <2>1. PICK hi \in -1 .. 15 : hi = hex_digit(path[i + 1]) BY HexRange
  <2>2. PICK lo \in -1 .. 15 : lo = hex_digit(path[i + 2]) BY HexRange
  <2>3. Meaning = IF i + 2 > Len(path) THEN -1
                  ELSE IF hi < 0 \/ lo < 0 \/ (hi = 0 /\ lo = 0) THEN -1 ELSE 16 * hi + lo
    BY ZenonT(60), <1>6, <2>1, <2>2 DEF Meaning, Truncated
  <2>4. IsEscape(path, i) <=>
          i + 2 <= Len(path) /\ hi >= 0 /\ lo >= 0 /\ ~(hi = 0 /\ lo = 0)
    BY ZenonT(60), <1>1, <1>2, <2>1, <2>2, EscapeIs
  <2>5. Value(path)[i] = 16 * hi + lo BY ZenonT(60), <1>5, <1>6, <2>1, <2>2
  <2> QED BY <1>1, <2>3, <2>4, <2>5
<1> QED BY ZenonT(60), <1>2, <1>4, <1>5, <1>6

(* A turn of decode_path() spells one byte more, or finds the first thing  *)
(* that is wrong.                                                          *)
LEMMA MeantDecode == ASSUME DownInv, MeantInv, decode_byte PROVE MeantInv'
<1>1. /\ pc = "decode" /\ InPath /\ Typed /\ ~Routed(path) /\ Len(decoded) < PATH_MAX
      /\ Read(path, i, decoded) /\ UNCHANGED <<g_root, path, fs_path>>
  BY Zenon DEF DownInv, MeantInv, decode_byte
<1>2. /\ path \in Seq(Byte) /\ decoded \in Seq(Byte) /\ PATH_MAX \in Nat
  BY ZenonT(60), <1>1, TypedFacts
<1>3. /\ i \in 1 .. Len(path) /\ i <= Len(path) /\ path[i] \notin {Query, Hash}
      /\ path[i] # Percent => Meaning = path[i] /\ Meaning # -1
      /\ path[i] = Percent => (Meaning = -1 <=> ~IsEscape(path, i))
      /\ Meaning # -1 => Meaning = Value(path)[i]
  BY ZenonT(60), <1>1, MeaningIs
<1>4. i \in Starts(path) BY ZenonT(60), <1>1, <1>2, <1>3, ReadStart
<1>5. Len(decoded) \in Nat BY <1>2
<1>6. CASE Meaning = -1
  <2>1. pc' = "done" /\ answer' = "invalid" BY ZenonT(60), <1>6 DEF decode_byte, Return
  <2>2. path[i] = Percent /\ ~IsEscape(path, i) BY ZenonT(60), <1>3, <1>6
  <2>3. Cardinality(Sound(path)) = Len(decoded) /\ Sound(path) # Starts(path)
    BY ZenonT(60), <1>1, <1>2, <1>4, <2>2, ReadBad
  <2>4. ~(Cardinality(Sound(path)) >= PATH_MAX) BY <1>1, <1>2, <1>5, <2>3
  <2>5. IsMeant(path)' BY ZenonT(60), <1>1, <2>1, <2>3, <2>4 DEF IsMeant, Routed
  <2> QED BY ZenonT(60), <2>1, <2>5 DEF MeantInv, OpensWhatIsMeant
<1>7. CASE Meaning # -1 /\ Len(decoded) + 1 >= PATH_MAX
  <2>1. pc' = "done" /\ answer' = "missing" BY ZenonT(60), <1>7 DEF decode_byte, Return
  <2>2. Cardinality(Sound(path)) >= Len(decoded) + 1
    BY ZenonT(60), <1>1, <1>2, <1>3, <1>4, <1>7, ReadFull
  <2>3. Cardinality(Sound(path)) \in Nat BY <1>1, <1>2, PassedSound
  <2>4. Cardinality(Sound(path)) >= PATH_MAX BY <1>2, <1>5, <1>7, <2>2, <2>3
  <2>5. IsMeant(path)' BY ZenonT(60), <1>1, <2>1, <2>4 DEF IsMeant, Routed
  <2> QED BY ZenonT(60), <2>1, <2>5 DEF MeantInv, OpensWhatIsMeant
<1>8. CASE Meaning # -1 /\ ~(Len(decoded) + 1 >= PATH_MAX)
  <2>1. PICK m : m = Meaning OBVIOUS
  <2>2. /\ decoded' = Append(decoded, m) /\ UNCHANGED <<pc, answer>>
        /\ i' = i + (IF path[i] = Percent THEN 3 ELSE 1)
    BY ZenonT(60), <1>8, <2>1 DEF decode_byte
  <2>3. m \in Byte /\ m = Value(path)[i]
    BY ZenonT(60), <1>1, <1>3, <1>8, <2>1, MeaningIsByte
  <2>4. Len(decoded') < PATH_MAX
    <3>1. Len(decoded') = Len(decoded) + 1 BY <1>2, <2>2, <2>3
    <3> QED BY <1>2, <1>5, <1>8, <3>1
  <2>5. Read(path, i', decoded')
    <3>1. CASE path[i] # Percent
      <4>1. m = path[i] /\ i' = i + 1 BY ZenonT(60), <1>3, <2>1, <2>2, <3>1
      <4>2. Read(path, i + 1, Append(decoded, path[i]))
        BY ZenonT(60), <1>1, <1>2, <1>3, <3>1, ReadPlain
      <4> QED BY ZenonT(60), <2>2, <4>1, <4>2
    <3>2. CASE path[i] = Percent
      <4>1. IsEscape(path, i) /\ i' = i + 3 BY ZenonT(60), <1>3, <1>8, <2>2, <3>2
      <4>2. Read(path, i + 3, Append(decoded, m))
        BY ZenonT(60), <1>1, <1>2, <1>3, <2>3, <3>2, <4>1, ReadEscape
      <4> QED BY ZenonT(60), <2>2, <4>1, <4>2
    <3> QED BY ZenonT(60), <3>1, <3>2
  <2>6. Read(path', i', decoded') /\ ~Routed(path') BY ZenonT(60), <1>1, <2>5
  <2> QED BY ZenonT(60), <1>1, <2>2, <2>4, <2>6 DEF MeantInv, OpensWhatIsMeant
<1> QED BY ZenonT(60), <1>6, <1>7, <1>8

(* What was read to the end is answered by the name it means. *)
LEMMA MeantByName ==
  ASSUME PATH_MAX \in Nat, decoded \in Seq(Byte), UNCHANGED <<path, decoded>>,
         ~Routed(path), Len(decoded) < PATH_MAX, Understood(path, decoded),
         NameIsMeant(decoded)', pc' = "done"
  PROVE  MeantInv'
<1>1. /\ Sound(path) = Starts(path) /\ Cardinality(Sound(path)) = Len(decoded)
      /\ Listed(decoded, Bytes(path))
  BY Zenon DEF Understood
<1>2. ~(Cardinality(Sound(path)) >= PATH_MAX) BY <1>1
<1>3. IsMeant(path)' BY ZenonT(60), <1>1, <1>2 DEF IsMeant, Routed
<1> QED BY ZenonT(60), <1>3 DEF MeantInv, OpensWhatIsMeant

(* join_under_root() begins with nothing taken. *)
LEMMA DescendInit ==
  ASSUME NEW d \in Seq(Byte), d # <<>>, d[1] = Slash
  PROVE  Descended(d, 1, <<>>)
<1>1. ASSUME NEW g \in Segs(d) PROVE g[2] >= 1 /\ ~(g[2] < 1)
  <2>1. g[2] \in 1 .. Len(d) BY SegSpan
  <2> QED BY <2>1
<1>2. \A c \in Climbs(d) : c[2] >= 1 BY ZenonT(60), <1>1 DEF Climbs
<1>3. Taken(d, 1) = {} BY Zenon, <1>1 DEF Taken
<1>4. Covers(d, Taken(d, 1)) = {} BY ZenonT(60), <1>3 DEF Covers
<1>5. Spells(<<>>, {}, d) BY FS_EmptySet DEF Spells
<1>6. 1 \in 1 .. Len(d) + 1 /\ <<>> \in Seq(Byte) OBVIOUS
<1> QED BY ZenonT(60), <1>2, <1>4, <1>5, <1>6 DEF Descended

(* The join begins with all of the path read. *)
LEMMA MeantBegin == ASSUME DownInv, MeantInv, begin_join PROVE MeantInv'
<1>1. /\ pc = "decode" /\ ~InPath /\ Typed /\ ~Routed(path) /\ Len(decoded) < PATH_MAX
      /\ Read(path, i, decoded) /\ UNCHANGED <<g_root, path, decoded>>
  BY Zenon DEF DownInv, MeantInv, begin_join
<1>2. /\ path \in Seq(Byte) /\ decoded \in Seq(Byte) /\ PATH_MAX \in Nat
      /\ prefix \in Seq(Byte) /\ Len(prefix) < PATH_MAX
  BY ZenonT(60), <1>1, TypedFacts
<1>3. Understood(path, decoded) BY ZenonT(60), <1>1, <1>2, ReadAll DEF InPath
<1>4. CASE decoded = <<>> \/ decoded[1] # Slash
  <2>1. pc' = "done" /\ answer' = "invalid" BY ZenonT(60), <1>4 DEF begin_join, Return
  <2>2. NameIsMeant(decoded)' BY ZenonT(60), <1>1, <1>4, <2>1 DEF NameIsMeant
  <2> QED BY ZenonT(60), <1>1, <1>2, <1>3, <2>1, <2>2, MeantByName
<1>5. CASE decoded # <<>> /\ decoded[1] = Slash
  <2>1. ~(Len(prefix) >= PATH_MAX) BY <1>2
  <2>2. pc' = "join" /\ i' = 1 /\ fs_path' = prefix
    BY ZenonT(60), <1>5, <2>1 DEF begin_join
  <2>3. Descended(decoded, 1, <<>>) BY ZenonT(60), <1>2, <1>5, DescendInit
  <2>4. prefix = prefix \o <<>> /\ <<>> \in Seq(Byte)
    <3>1. PICK x \in Seq(Byte) : x = prefix BY ZenonT(60), <1>2
    <3>2. x = x \o <<>> /\ <<>> \in Seq(Byte) OBVIOUS
    <3> QED BY ZenonT(60), <3>1, <3>2
  <2>5. prefix' = prefix BY ZenonT(60), <1>1 DEF prefix
  <2>6. fs_path' = prefix' \o <<>> /\ Descended(decoded', i', <<>>)
    BY ZenonT(60), <1>1, <2>2, <2>3, <2>4, <2>5
  <2>7. Joining' BY ZenonT(60), <2>4, <2>6 DEF Joining
  <2>8. Understood(path', decoded') /\ ~Routed(path') /\ Len(decoded') < PATH_MAX
    BY ZenonT(60), <1>1, <1>3
  <2> QED BY ZenonT(60), <2>2, <2>7, <2>8 DEF MeantInv, OpensWhatIsMeant
<1> QED BY ZenonT(60), <1>4, <1>5

(* b .. e is in d, with a slash before it. *)
IsPiece(d, b, e) ==
  /\ d \in Seq(Byte) /\ b \in Int /\ e \in Int /\ 1 < b /\ b <= e /\ e <= Len(d)
  /\ d[b - 1] = Slash

(* What the loop makes of the name x \o w, and what it adds to w. *)
WithSegment(x, w, d, b, e) == Append(x \o w, Slash) \o SubSeq(d, b, e)

WithPiece(w, d, b, e) == w \o SubSeq(d, b - 1, e)

(* What join_under_root() appends is one piece of the path. *)
LEMMA AppendPiece ==
  ASSUME NEW d, NEW b, NEW e, IsPiece(d, b, e), NEW x \in Seq(Byte), NEW w \in Seq(Byte)
  PROVE  WithSegment(x, w, d, b, e) = x \o WithPiece(w, d, b, e)
<1>0. /\ d \in Seq(Byte) /\ b \in Int /\ e \in Int /\ 1 < b /\ b <= e /\ e <= Len(d)
      /\ d[b - 1] = Slash
  BY Zenon DEF IsPiece
<1>1. PICK v : v = SubSeq(d, b, e) BY ZenonT(60)
<1>2. v \in Seq(Byte) BY <1>0, <1>1
<1>3. SubSeq(d, b - 1, e) = <<Slash>> \o v
  <2>1. SubSeq(d, b - 1, e) = <<d[b - 1]>> \o SubSeq(d, b, e) BY <1>0
  <2> QED BY Zenon, <1>0, <1>1, <2>1
<1>4. Slash \in Byte /\ <<Slash>> \in Seq(Byte) BY DEF Slash, Byte
<1>5. PICK y : y = x \o w BY ZenonT(60)
<1>6. y \in Seq(Byte) BY Zenon, <1>5, ConcatFacts
<1>7. Append(y, Slash) = y \o <<Slash>> BY <1>4, <1>6
<1>8. (y \o <<Slash>>) \o v = y \o (<<Slash>> \o v)
  BY ZenonT(60), <1>2, <1>4, <1>6, Associates
<1>9. <<Slash>> \o v \in Seq(Byte) BY ZenonT(60), <1>2, <1>4, ConcatFacts
<1>10. (x \o w) \o (<<Slash>> \o v) = x \o (w \o (<<Slash>> \o v))
  BY ZenonT(60), <1>9, Associates
<1> QED BY ZenonT(60), <1>1, <1>3, <1>5, <1>7, <1>8, <1>10 DEF WithSegment, WithPiece

(* The size of what is named is that of what was taken. *)
LEMMA TakenSize ==
  ASSUME NEW d, NEW n, NEW w, Descended(d, n, w), Named(d) = Taken(d, n)
  PROVE  Cardinality(DOMAIN Kept(d)) = Len(w) /\ Listed(w, Kept(d))
<1>1. d \in Seq(Byte) /\ Spells(w, Covers(d, Taken(d, n)), d) BY Zenon DEF Descended
<1>2. Spells(w, Covers(d, Named(d)), d) BY ZenonT(60), <1>1
<1>3. DOMAIN Kept(d) = Covers(d, Named(d)) /\ Listed(w, Kept(d))
  BY ZenonT(60), <1>1, <1>2, KeptFacts
<1> QED BY ZenonT(60), <1>2, <1>3 DEF Spells

(* A turn of join_under_root() takes the next segment, skips it, or finds  *)
(* the first thing that is wrong.                                          *)
LEMMA MeantSegment == ASSUME DownInv, MeantInv, join_segment PROVE MeantInv'
<1>1. /\ pc = "join" /\ Typed /\ Downward /\ ~Routed(path) /\ Len(decoded) < PATH_MAX
      /\ Understood(path, decoded) /\ Joining /\ UNCHANGED <<g_root, path, decoded>>
  BY Zenon DEF DownInv, MeantInv, join_segment
<1>2. /\ decoded \in Seq(Byte) /\ PATH_MAX \in Nat /\ fs_path \in Seq(Byte)
      /\ prefix \in Seq(Byte) /\ i \in Nat \ {0}
  BY ZenonT(60), <1>1, TypedFacts
<1>3. prefix' = prefix BY ZenonT(60), <1>1 DEF prefix
<1>4. PICK b \in i .. Len(decoded) : \E e \in b .. Len(decoded) :
        /\ NextSegment(b, e)
        /\ IF SubSeq(decoded, b, e) = <<Dot>>
           THEN i' = e + 1 /\ UNCHANGED <<pc, fs_path, answer>>
           ELSE IF IsDotDot(b, e) THEN Return("invalid") /\ UNCHANGED <<i, fs_path>>
           ELSE IF Len(fs_path) + 1 + Len(SubSeq(decoded, b, e)) >= PATH_MAX
           THEN Return("missing") /\ UNCHANGED <<i, fs_path>>
           ELSE /\ fs_path' = Append(fs_path, Slash) \o SubSeq(decoded, b, e)
                /\ i' = e + 1
                /\ UNCHANGED <<pc, answer>>
  BY Zenon DEF join_segment
<1>5. PICK e \in b .. Len(decoded) :
        /\ NextSegment(b, e)
        /\ IF SubSeq(decoded, b, e) = <<Dot>>
           THEN i' = e + 1 /\ UNCHANGED <<pc, fs_path, answer>>
           ELSE IF IsDotDot(b, e) THEN Return("invalid") /\ UNCHANGED <<i, fs_path>>
           ELSE IF Len(fs_path) + 1 + Len(SubSeq(decoded, b, e)) >= PATH_MAX
           THEN Return("missing") /\ UNCHANGED <<i, fs_path>>
           ELSE /\ fs_path' = Append(fs_path, Slash) \o SubSeq(decoded, b, e)
                /\ i' = e + 1
                /\ UNCHANGED <<pc, answer>>
  BY ZenonT(60), <1>4
<1>6. PICK w \in Seq(Byte) : fs_path = prefix \o w /\ Descended(decoded, i, w)
  BY ZenonT(60), <1>1 DEF Joining
<1>7. Follows(decoded, i, b, e) BY ZenonT(60), <1>4, <1>5 DEF Follows, NextSegment
<1>8. /\ b \in Int /\ e \in Int /\ i < b /\ 1 <= i /\ b <= e /\ e <= Len(decoded)
      /\ decoded[b - 1] = Slash
  BY ZenonT(60), <1>6, <1>7, NextIsSegment
<1>9. Len(fs_path) = Len(prefix) + Len(w) /\ Len(fs_path) < PATH_MAX
  BY ZenonT(60), <1>1, <1>2, <1>6, ConcatFacts DEF Downward
<1>10. Len(prefix) \in Nat /\ Len(w) \in Nat BY <1>2
<1>11. decoded # <<>> /\ decoded[1] = Slash BY ZenonT(60), <1>6 DEF Descended
<1>12. /\ Is(decoded, <<b, e>>, <<Dot>>) <=> SubSeq(decoded, b, e) = <<Dot>>
       /\ Is(decoded, <<b, e>>, <<Dot, Dot>>) <=> IsDotDot(b, e)
  BY ZenonT(60) DEF Is, IsDotDot
<1>13. CASE Is(decoded, <<b, e>>, <<Dot>>)
  <2>1. i' = e + 1 /\ UNCHANGED <<pc, fs_path, answer>>
    BY ZenonT(60), <1>5, <1>12, <1>13
  <2>2. Descended(decoded, e + 1, w) BY ZenonT(60), <1>6, <1>7, <1>13, DescendSkip
  <2>3. fs_path' = prefix' \o w /\ Descended(decoded', i', w)
    BY ZenonT(60), <1>1, <1>3, <1>6, <2>1, <2>2
  <2>4. Joining' BY ZenonT(60), <1>6, <2>3 DEF Joining
  <2>5. Understood(path', decoded') /\ ~Routed(path') /\ Len(decoded') < PATH_MAX /\ pc' = "join"
    BY ZenonT(60), <1>1, <2>1
  <2> QED BY ZenonT(60), <2>4, <2>5 DEF MeantInv, OpensWhatIsMeant
<1>14. CASE ~Is(decoded, <<b, e>>, <<Dot>>) /\ Is(decoded, <<b, e>>, <<Dot, Dot>>)
  <2>1. pc' = "done" /\ answer' = "invalid" /\ fs_path' = fs_path
    BY ZenonT(60), <1>5, <1>12, <1>14 DEF Return
  <2>2. Named(decoded) = Taken(decoded, i) /\ Climbs(decoded) # {}
    BY ZenonT(60), <1>6, <1>7, <1>14, EndClimb
  <2>3. Cardinality(DOMAIN Kept(decoded)) = Len(w) BY ZenonT(60), <1>6, <2>2, TakenSize
  <2>4. ~(Len(prefix) + Cardinality(DOMAIN Kept(decoded)) >= PATH_MAX)
    BY <1>2, <1>9, <1>10, <2>3
  <2>5. NameIsMeant(decoded)'
    BY ZenonT(60), <1>1, <1>3, <1>11, <2>1, <2>2, <2>4 DEF NameIsMeant
  <2> QED BY ZenonT(60), <1>1, <1>2, <2>1, <2>5, MeantByName
<1>15. CASE /\ ~Is(decoded, <<b, e>>, <<Dot>>) /\ ~Is(decoded, <<b, e>>, <<Dot, Dot>>)
            /\ Len(fs_path) + 1 + Len(SubSeq(decoded, b, e)) >= PATH_MAX
  <2>1. pc' = "done" /\ answer' = "missing" /\ fs_path' = fs_path
    BY ZenonT(60), <1>5, <1>12, <1>15 DEF Return
  <2>2. /\ Named(decoded) # {}
        /\ Cardinality(Covers(decoded, Named(decoded))) >= Len(w) + (e - b + 2)
    BY ZenonT(60), <1>6, <1>7, <1>15, EndTooLong
  <2>3. /\ DOMAIN Kept(decoded) = Covers(decoded, Named(decoded))
        /\ Cardinality(Covers(decoded, Named(decoded))) \in Nat
    BY ZenonT(60), <1>2, KeptFacts
  <2>4. Len(SubSeq(decoded, b, e)) = e - b + 1 BY ZenonT(60), <1>2, <1>5, SegmentIsWord
  <2>5. PICK c \in Nat : c = Cardinality(DOMAIN Kept(decoded)) BY ZenonT(60), <2>3
  <2>6. c >= Len(w) + (e - b + 2) BY ZenonT(60), <2>2, <2>3, <2>5
  <2>7. Len(prefix) + Len(w) + 1 + (e - b + 1) >= PATH_MAX
    BY ZenonT(60), <1>9, <1>15, <2>4
  <2>8. Len(prefix) + c >= PATH_MAX BY <1>2, <1>8, <1>10, <2>6, <2>7
  <2>9. NameIsMeant(decoded)'
    BY ZenonT(60), <1>1, <1>3, <1>11, <2>1, <2>2, <2>5, <2>8 DEF NameIsMeant
  <2> QED BY ZenonT(60), <1>1, <1>2, <2>1, <2>9, MeantByName
<1>16. CASE /\ ~Is(decoded, <<b, e>>, <<Dot>>) /\ ~Is(decoded, <<b, e>>, <<Dot, Dot>>)
            /\ ~(Len(fs_path) + 1 + Len(SubSeq(decoded, b, e)) >= PATH_MAX)
  <2>1. /\ fs_path' = Append(fs_path, Slash) \o SubSeq(decoded, b, e)
        /\ i' = e + 1 /\ UNCHANGED <<pc, answer>>
    BY ZenonT(60), <1>5, <1>12, <1>16
  <2>2. PICK v : v = w \o SubSeq(decoded, b - 1, e) BY ZenonT(60)
  <2>3. Descended(decoded, e + 1, v) BY Zenon, <1>6, <1>7, <1>16, <2>2, DescendTake
  <2>4. 1 < b BY <1>2, <1>8
  <2>5. Append(prefix \o w, Slash) \o SubSeq(decoded, b, e) = prefix \o v
    <3>1. Append(prefix \o w, Slash) \o SubSeq(decoded, b, e)
            = prefix \o (w \o SubSeq(decoded, b - 1, e))
      <4>1. IsPiece(decoded, b, e) BY ZenonT(60), <1>2, <1>8, <2>4 DEF IsPiece
      <4>2. prefix \in Seq(Byte) /\ w \in Seq(Byte) BY ZenonT(60), <1>2, <1>6
      <4>3. WithSegment(prefix, w, decoded, b, e) = prefix \o WithPiece(w, decoded, b, e)
        BY ZenonT(60), <4>1, <4>2, AppendPiece
      <4> QED BY ZenonT(60), <4>3 DEF WithSegment, WithPiece
    <3> QED BY Zenon, <2>2, <3>1
  <2>6. fs_path' = prefix' \o v /\ Descended(decoded', i', v) /\ v \in Seq(Byte)
    BY ZenonT(60), <1>1, <1>3, <1>6, <2>1, <2>3, <2>5 DEF Descended
  <2>7. Joining' BY ZenonT(60), <2>6 DEF Joining
  <2>8. Understood(path', decoded') /\ ~Routed(path') /\ Len(decoded') < PATH_MAX /\ pc' = "join"
    BY ZenonT(60), <1>1, <2>1
  <2> QED BY ZenonT(60), <2>7, <2>8 DEF MeantInv, OpensWhatIsMeant
<1> QED BY ZenonT(60), <1>13, <1>14, <1>15, <1>16

(* The parts of a concatenation. *)
LEMMA PartsOf ==
  ASSUME NEW x \in Seq(Byte), NEW w \in Seq(Byte)
  PROVE  /\ SubSeq(x \o w, 1, Len(x)) = x
         /\ SubSeq(x \o w, Len(x) + 1, Len(x) + Len(w)) = w
<1>1. PICK t : t = x \o w BY ZenonT(60)
<1>2. /\ t \in Seq(Byte) /\ Len(t) = Len(x) + Len(w)
      /\ \A k \in 1 .. Len(x) : t[k] = x[k]
      /\ \A k \in 1 .. Len(w) : t[Len(x) + k] = w[k]
  BY ZenonT(60), <1>1, ConcatFacts
<1>3. Len(x) \in Nat /\ Len(w) \in Nat OBVIOUS
<1>4. SubSeq(t, 1, Len(x)) = x
  <2>1. PICK u : u = SubSeq(t, 1, Len(x)) BY ZenonT(60)
  <2>2. Len(x) \in 0 .. Len(t) BY <1>2, <1>3
  <2>3. /\ u \in Seq(Byte) /\ Len(u) = Len(x)
        /\ \A k \in 1 .. Len(x) : u[k] = t[k]
    BY Zenon, <1>2, <2>1, <2>2, FirstBytes
  <2>4. \A k \in 1 .. Len(u) : u[k] = x[k] BY Zenon, <1>2, <2>3
  <2>5. u = x BY ZenonT(60), <2>3, <2>4, SameBytes
  <2> QED BY Zenon, <2>1, <2>5
<1>5. SubSeq(t, Len(x) + 1, Len(x) + Len(w)) = w
  <2>1. PICK u : u = SubSeq(t, Len(x) + 1, Len(x) + Len(w)) BY ZenonT(60)
  <2>2. /\ u \in Seq(Byte) /\ Len(u) = Len(w)
        /\ \A k \in 1 .. Len(w) : u[k] = t[Len(x) + 1 + k - 1]
    BY <1>2, <1>3, <2>1
  <2>3. ASSUME NEW k \in 1 .. Len(u) PROVE u[k] = w[k]
    <3>1. Len(x) + 1 + k - 1 = Len(x) + k BY <1>3, <2>2
    <3> QED BY Zenon, <1>2, <2>2, <3>1
  <2>4. u = w BY ZenonT(60), <2>2, <2>3, SameBytes
  <2> QED BY ZenonT(60), <2>1, <2>4
<1> QED BY ZenonT(60), <1>1, <1>4, <1>5

(* At the end of the path, the name is the one it means. *)
LEMMA MeantEnd == ASSUME DownInv, MeantInv, end_join PROVE MeantInv'
<1>1. /\ pc = "join" /\ Typed /\ Downward /\ ~Routed(path) /\ Len(decoded) < PATH_MAX
      /\ Understood(path, decoded) /\ Joining
      /\ \A k \in i .. Len(decoded) : decoded[k] = Slash
      /\ fs_path' = (IF fs_path = <<>> THEN <<Slash>> ELSE fs_path)
      /\ pc' = "done"
      /\ answer' = (IF decoded[Len(decoded)] = Slash THEN "missing" ELSE "name")
      /\ UNCHANGED <<g_root, path, i, decoded>>
  BY Zenon DEF DownInv, MeantInv, end_join, Return
<1>2. /\ decoded \in Seq(Byte) /\ PATH_MAX \in Nat /\ fs_path \in Seq(Byte)
      /\ prefix \in Seq(Byte)
  BY ZenonT(60), <1>1, TypedFacts
<1>3. prefix' = prefix BY ZenonT(60), <1>1 DEF prefix
<1>4. PICK w \in Seq(Byte) : fs_path = prefix \o w /\ Descended(decoded, i, w)
  BY ZenonT(60), <1>1 DEF Joining
<1>5. Named(decoded) = Taken(decoded, i) /\ Climbs(decoded) = {}
  BY ZenonT(60), <1>1, <1>4, EndAll
<1>6. Cardinality(DOMAIN Kept(decoded)) = Len(w) /\ Listed(w, Kept(decoded))
  BY ZenonT(60), <1>4, <1>5, TakenSize
<1>7. Len(fs_path) = Len(prefix) + Len(w) /\ Len(fs_path) < PATH_MAX
  BY ZenonT(60), <1>1, <1>2, <1>4, ConcatFacts DEF Downward
<1>8. PICK size : size = Len(prefix) + Cardinality(DOMAIN Kept(decoded)) OBVIOUS
<1>9. size = Len(fs_path) /\ size = Len(prefix) + Len(w) BY ZenonT(60), <1>6, <1>7, <1>8
<1>10. ~(size >= PATH_MAX) /\ (size = 0 <=> fs_path = <<>>) BY <1>2, <1>7, <1>9
<1>11. decoded # <<>> /\ decoded[1] = Slash BY ZenonT(60), <1>4 DEF Descended
<1>12. /\ SubSeq(fs_path, 1, Len(prefix)) = prefix
       /\ SubSeq(fs_path, Len(prefix) + 1, size) = w
  BY ZenonT(60), <1>2, <1>4, <1>9, PartsOf
<1>13. CASE decoded[Len(decoded)] = Slash
  <2>1. NameIsMeant(decoded)'
    BY ZenonT(60), <1>1, <1>3, <1>5, <1>8, <1>10, <1>11, <1>13 DEF NameIsMeant
  <2> QED BY Zenon, <1>1, <1>2, <2>1, MeantByName
<1>14. CASE decoded[Len(decoded)] # Slash
  <2>1. answer' = "name" BY ZenonT(60), <1>1, <1>14
  <2>2. CASE size = 0
    <3>1. fs_path' = <<Slash>> BY ZenonT(60), <1>1, <1>10, <2>2
    <3>2. NameIsMeant(decoded)'
      BY ZenonT(60), <1>1, <1>3, <1>5, <1>8, <1>10, <1>11, <1>14, <2>1, <2>2, <3>1
         DEF NameIsMeant
    <3> QED BY ZenonT(60), <1>1, <1>2, <3>2, MeantByName
  <2>3. CASE size # 0
    <3>1. fs_path' = fs_path BY ZenonT(60), <1>1, <1>10, <2>3
    <3>2. NameIsMeant(decoded)'
      BY ZenonT(60), <1>1, <1>3, <1>5, <1>6, <1>8, <1>9, <1>10, <1>11, <1>12, <1>14, <2>1,
         <2>3, <3>1 DEF NameIsMeant
    <3> QED BY ZenonT(60), <1>1, <1>2, <3>2, MeantByName
  <2> QED BY ZenonT(60), <2>2, <2>3
<1> QED BY ZenonT(60), <1>13, <1>14

(* Every step keeps what the loops know. *)
LEMMA MeantNext == DownInv /\ MeantInv /\ [Next]_vars => MeantInv'
<1> SUFFICES ASSUME DownInv, MeantInv, [Next]_vars PROVE MeantInv' OBVIOUS
<1>1. CASE Next
  BY ZenonT(60), <1>1, MeantRoute, MeantDecode, MeantBegin, MeantSegment, MeantEnd DEF Next
<1>2. CASE UNCHANGED vars
  <2>1. /\ path' = path /\ pc' = pc /\ i' = i /\ decoded' = decoded /\ fs_path' = fs_path
        /\ answer' = answer /\ prefix' = prefix
    BY ZenonT(60), <1>2 DEF vars, prefix
  <2>2. Joining => Joining' BY ZenonT(60), <2>1 DEF Joining
  <2>3. NameIsMeant(decoded) => NameIsMeant(decoded)'
    BY ZenonT(60), <2>1 DEF NameIsMeant
  <2>4. IsMeant(path) => IsMeant(path)' BY ZenonT(60), <2>1, <2>3 DEF IsMeant
  <2> QED BY ZenonT(60), <2>1, <2>2, <2>4 DEF MeantInv, OpensWhatIsMeant
<1> QED BY ZenonT(60), <1>1, <1>2

(* What the loops know is known in every state. *)
LEMMA MeantInvariance == Spec => []MeantInv
<1> QED BY PTL, DownInvariance, MeantInit, MeantNext DEF Spec

(* For every path, every root and every size of the buffers, decode_path() *)
(* and join_under_root() give open() the name that the path means, or the  *)
(* answer that is due to the first thing that is wrong with it.            *)
THEOREM NamesAreMeant == Spec => []OpensWhatIsMeant
<1>1. MeantInv => OpensWhatIsMeant BY Zenon DEF MeantInv
<1> QED BY PTL, <1>1, MeantInvariance
=============================================================================
