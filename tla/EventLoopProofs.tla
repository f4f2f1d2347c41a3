-------------------------- MODULE EventLoopProofs --------------------------
(***************************************************************************)
(* The event loop's invariants for any number of connections, any batch    *)
(* size, any timeouts and any setting of the wall clock.                   *)
(***************************************************************************)
EXTENDS EventLoop, TLAPS

(* The time, in seconds, that a step gives each prover. *)
USE SMTT(30), ZenonT(60)

(* Two sequences, one after the other: a close takes a tag out of rdlist.  *)
LEMMA ConcatProperties ==
  ASSUME NEW S, NEW s \in Seq(S), NEW t \in Seq(S)
  PROVE  /\ s \o t \in Seq(S)
         /\ Len(s \o t) = Len(s) + Len(t)
         /\ \A i \in 1 .. Len(s) + Len(t) :
              (s \o t)[i] = IF i <= Len(s) THEN s[i] ELSE t[i - Len(s)]
  OBVIOUS

(* A part of a sequence: epoll_wait() takes the first events of rdlist.    *)
LEMMA SubSeqProperties ==
  ASSUME NEW S, NEW s \in Seq(S), NEW m \in Int, NEW n \in Int,
         \A i \in m .. n : s[i] \in S
  PROVE  /\ SubSeq(s, m, n) \in Seq(S)
         /\ Len(SubSeq(s, m, n)) = IF m <= n THEN n - m + 1 ELSE 0
         /\ \A i \in 1 .. n - m + 1 : SubSeq(s, m, n)[i] = s[m + i - 1]
  OBVIOUS

(* The list hd, nx, pv runs through the set L in falling order of rank r:  *)
(* every link goes to the nearest member.  Ranks stand for the time of     *)
(* acceptance, since list_insert() puts a connection in front.             *)
Sorted(L, hd, nx, pv, r) ==
  /\ \A a, b \in L : r[a] = r[b] => a = b
  /\ hd = NULL => L = {}
  /\ hd # NULL => hd \in L /\ \A b \in L : r[b] <= r[hd]
  /\ \A a \in L : nx[a] = NULL => \A b \in L : r[a] <= r[b]
  /\ \A a \in L : nx[a] # NULL =>
       nx[a] \in L /\ r[nx[a]] < r[a] /\ \A b \in L : r[b] <= r[nx[a]] \/ r[a] <= r[b]
  /\ \A a \in L : pv[a] = NULL => \A b \in L : r[b] <= r[a]
  /\ \A a \in L : pv[a] # NULL =>
       pv[a] \in L /\ r[a] < r[pv[a]] /\ \A b \in L : r[b] <= r[a] \/ r[pv[a]] <= r[b]

Linked == \E r \in [Addrs -> Int] : Sorted(live, connections, next, prev, r)

(* The loop is past its setup and has not stopped. *)
Up == pc \in {"epoll_wait", "dispatch", "accept", "unregistered", "sweep"}

(* What the setup has opened and registered by each of its calls, and what *)
(* each place of the loop finds.                                           *)
SetupProgress ==
  /\ pc = "setup" =>
       /\ step <= Len(SetupCalls) /\ live = {} /\ batch = <<>>
       /\ own_fds = IF step <= 2 THEN {} ELSE IF step <= 4 THEN {"epoll"}
                    ELSE {"epoll", "timer"}
       /\ "listen" \in watched <=> step > 3
  /\ Up => "listen" \in watched
  /\ pc = "epoll_wait" => batch = <<>>
  /\ pc = "unregistered" => connections # NULL

(* A client in the accept queue is on its way to the accept loop. *)
QueueIsSeen ==
  ("listen" \in watched /\ pc \notin {"teardown", "returned", "undefined"}) =>
    \/ backlog = 0 \/ gave_up
    \/ InList("listen") \/ InBatch("listen") \/ pc \in {"accept", "unregistered"}

IInv ==
  /\ TypeOK /\ Linked /\ CursorIsLive /\ SetupProgress /\ QueueIsSeen
  /\ NothingLeaks

-----------------------------------------------------------------------------
(* The list. *)

(* What list_insert() writes. *)
Inserted(hd, nx, pv, c, nx2, pv2) ==
  /\ nx2 = [nx EXCEPT ![c] = hd]
  /\ pv2 = [a \in Addrs |-> CASE a = c  -> NULL
                             [] a = hd -> c
                             [] OTHER  -> pv[a]]

(* list_insert() of a new connection. *)
LEMMA InsertSorted ==
  ASSUME NEW L \in SUBSET Addrs, NEW hd \in Pointer,
         NEW nx \in [Addrs -> Pointer], NEW pv \in [Addrs -> Pointer],
         NEW r \in [Addrs -> Int], Sorted(L, hd, nx, pv, r),
         NEW c \in Addrs \ L,
         NEW nx2, NEW pv2, Inserted(hd, nx, pv, c, nx2, pv2)
  PROVE  \E r2 \in [Addrs -> Int] : Sorted(L \cup {c}, c, nx2, pv2, r2)
  <1> DEFINE top == IF hd = NULL THEN 0 ELSE r[hd] + 1
             r2  == [r EXCEPT ![c] = top]
             M   == L \cup {c}
  <1>1. c # NULL /\ hd # c /\ NULL \notin L
    BY EventLoopAssumption DEF Sorted
  <1>2. top \in Int BY DEF Pointer
  <1>3. /\ r2 \in [Addrs -> Int] /\ r2[c] = top
        /\ \A a \in L : r2[a] = r[a] /\ r2[a] \in Int
    BY <1>2
  <1>4. \A a \in L : r[a] < top BY <1>1 DEF Sorted
  <1>5. /\ nx2[c] = hd /\ pv2[c] = NULL
        /\ \A a \in L : nx2[a] = nx[a] /\ pv2[a] = IF a = hd THEN c ELSE pv[a]
    BY <1>1 DEF Inserted
  <1>6. hd # NULL => hd \in L /\ top = r[hd] + 1 BY DEF Sorted
  <1> HIDE DEF r2, top
  <1>7. \A a, b \in M : r2[a] = r2[b] => a = b
    BY <1>2, <1>3, <1>4 DEF Sorted
  <1>8. \A b \in M : r2[b] <= r2[c] BY <1>2, <1>3, <1>4
  <1>9. ASSUME NEW a \in M, nx2[a] = NULL PROVE \A b \in M : r2[a] <= r2[b]
    BY <1>9, <1>1, <1>2, <1>3, <1>4, <1>5, <1>6 DEF Sorted
  <1>10. ASSUME NEW a \in M, nx2[a] # NULL
         PROVE  /\ nx2[a] \in M /\ r2[nx2[a]] < r2[a]
                /\ \A b \in M : r2[b] <= r2[nx2[a]] \/ r2[a] <= r2[b]
    <2>1. CASE a = c
      BY <1>10, <2>1, <1>2, <1>3, <1>4, <1>5, <1>6 DEF Sorted
    <2>2. CASE a # c
      <3>1. /\ nx[a] \in L /\ r[nx[a]] < r[a]
            /\ \A b \in L : r[b] <= r[nx[a]] \/ r[a] <= r[b]
        BY Zenon, <1>10, <2>2, <1>5 DEF Sorted
      <3> QED BY <3>1, <2>2, <1>2, <1>3, <1>4, <1>5
    <2> QED BY Zenon, <2>1, <2>2
  <1>11. ASSUME NEW a \in M, pv2[a] = NULL PROVE \A b \in M : r2[b] <= r2[a]
    <2>1. CASE a = c BY <2>1, <1>8
    <2>2. CASE a # c
      <3>1. a # hd /\ pv[a] = NULL BY <1>1, <1>5, <1>11, <2>2
      <3>2. r[hd] <= r[a] /\ r[a] <= r[hd] /\ hd \in L
        BY <2>2, <3>1, <1>1, <1>6 DEF Sorted
      <3> QED BY <2>2, <3>1, <3>2 DEF Sorted
    <2> QED BY Zenon, <2>1, <2>2
  <1>12. ASSUME NEW a \in M, pv2[a] # NULL
         PROVE  /\ pv2[a] \in M /\ r2[a] < r2[pv2[a]]
                /\ \A b \in M : r2[b] <= r2[a] \/ r2[pv2[a]] <= r2[b]
    <2>1. a \in L BY <1>12, <1>5
    <2>2. CASE a = hd
      BY <2>1, <2>2, <1>1, <1>2, <1>3, <1>4, <1>5 DEF Sorted
    <2>3. CASE a # hd
      <3>1. /\ pv[a] \in L /\ r[a] < r[pv[a]]
            /\ \A b \in L : r[b] <= r[a] \/ r[pv[a]] <= r[b]
        BY Zenon, <1>12, <2>1, <2>3, <1>5 DEF Sorted
      <3> QED BY <3>1, <2>1, <2>3, <1>2, <1>3, <1>4, <1>5
    <2> QED BY Zenon, <2>2, <2>3
  <1>13. Sorted(M, c, nx2, pv2, r2)
    BY Zenon, <1>1, <1>7, <1>8, <1>9, <1>10, <1>11, <1>12 DEF Sorted
  <1> QED BY Zenon, <1>3, <1>13

(* list_remove(), wherever the connection is. *)
LEMMA RemoveSorted ==
  ASSUME NEW L \in SUBSET Addrs, NEW hd \in Pointer,
         NEW nx \in [Addrs -> Pointer], NEW pv \in [Addrs -> Pointer],
         NEW r \in [Addrs -> Int], Sorted(L, hd, nx, pv, r),
         NEW c \in L,
         NEW nx2, nx2 = [a \in Addrs |-> CASE a = c     -> NULL
                                           [] a = pv[c] -> nx[c]
                                           [] OTHER     -> nx[a]],
         NEW pv2, pv2 = [a \in Addrs |-> CASE a = c     -> NULL
                                           [] a = nx[c] -> pv[c]
                                           [] OTHER     -> pv[a]]
  PROVE  Sorted(L \ {c}, IF pv[c] = NULL THEN nx[c] ELSE hd, nx2, pv2, r)
  <1> DEFINE M  == L \ {c}
             h2 == IF pv[c] = NULL THEN nx[c] ELSE hd
  <1>1. NULL \notin L BY EventLoopAssumption
  <1>2. \A a \in M :
          /\ nx2[a] = IF a = pv[c] THEN nx[c] ELSE nx[a]
          /\ pv2[a] = IF a = nx[c] THEN pv[c] ELSE pv[a]
    OBVIOUS
  <1>3. \A a \in L : r[a] \in Int OBVIOUS
  <1>4. \A a, b \in M : r[a] = r[b] => a = b BY DEF Sorted
  <1>5. h2 = NULL => M = {}
    <2>1. CASE pv[c] = NULL /\ nx[c] = NULL
      <3>1. \A b \in L : r[c] <= r[b] /\ r[b] <= r[c] BY <2>1 DEF Sorted
      <3> QED BY <3>1, <1>3 DEF Sorted
    <2>2. CASE pv[c] # NULL BY <2>2 DEF Sorted
    <2> QED BY Zenon, <2>1, <2>2
  <1>6. h2 # NULL => h2 \in M /\ \A b \in M : r[b] <= r[h2]
    <2>1. CASE pv[c] = NULL BY <2>1, <1>3 DEF Sorted
    <2>2. CASE pv[c] # NULL
      <3>1. pv[c] \in L /\ r[c] < r[pv[c]] BY Zenon, <2>2 DEF Sorted
      <3>2. hd \in L /\ \A b \in L : r[b] <= r[hd] BY Zenon, <3>1 DEF Sorted
      <3> QED BY <2>2, <3>1, <3>2, <1>3
    <2> QED BY Zenon, <2>1, <2>2
  (* The neighbours of c, seen from themselves. *)
  <1>7. \A a \in L : nx[a] = c => a = pv[c]
    <2> SUFFICES ASSUME NEW a \in L, nx[a] = c PROVE a = pv[c] OBVIOUS
    <2>1. r[c] < r[a] /\ \A b \in L : r[b] <= r[c] \/ r[a] <= r[b]
      BY <1>1 DEF Sorted
    <2>2. pv[c] # NULL BY <2>1, <1>3 DEF Sorted
    <2>3. /\ pv[c] \in L /\ r[c] < r[pv[c]]
          /\ \A b \in L : r[b] <= r[c] \/ r[pv[c]] <= r[b]
      BY Zenon, <2>2 DEF Sorted
    <2>4. r[a] = r[pv[c]] BY <2>1, <2>3, <1>3
    <2> QED BY Zenon, <2>3, <2>4 DEF Sorted
  <1>8. \A a \in L : pv[a] = c => a = nx[c]
    <2> SUFFICES ASSUME NEW a \in L, pv[a] = c PROVE a = nx[c] OBVIOUS
    <2>1. r[a] < r[c] /\ \A b \in L : r[b] <= r[a] \/ r[c] <= r[b]
      BY <1>1 DEF Sorted
    <2>2. nx[c] # NULL BY <2>1, <1>3 DEF Sorted
    <2>3. /\ nx[c] \in L /\ r[nx[c]] < r[c]
          /\ \A b \in L : r[b] <= r[nx[c]] \/ r[c] <= r[b]
      BY Zenon, <2>2 DEF Sorted
    <2>4. r[a] = r[nx[c]] BY <2>1, <2>3, <1>3
    <2> QED BY Zenon, <2>3, <2>4 DEF Sorted
  <1>9. ASSUME NEW a \in M, nx2[a] = NULL PROVE \A b \in M : r[a] <= r[b]
    <2>1. CASE a = pv[c]
      <3>1. nx[c] = NULL /\ pv[c] # NULL BY Zenon, <1>1, <1>2, <1>9, <2>1
      <3>2. \A b \in L : r[c] <= r[b] /\ (r[b] <= r[c] \/ r[a] <= r[b])
        BY Zenon, <2>1, <3>1 DEF Sorted
      <3>3. \A b \in M : r[b] # r[c] BY Zenon DEF Sorted
      <3> QED BY <1>3, <3>2, <3>3
    <2>2. CASE a # pv[c] BY Zenon, <1>2, <1>9, <2>2 DEF Sorted
    <2> QED BY Zenon, <2>1, <2>2
  <1>10. ASSUME NEW a \in M, nx2[a] # NULL
         PROVE  /\ nx2[a] \in M /\ r[nx2[a]] < r[a]
                /\ \A b \in M : r[b] <= r[nx2[a]] \/ r[a] <= r[b]
    <2>1. CASE a = pv[c]
      <3>1. nx2[a] = nx[c] /\ nx[c] # NULL /\ pv[c] # NULL
        BY Zenon, <1>1, <1>2, <1>10, <2>1
      <3>2. /\ nx[c] \in L /\ r[nx[c]] < r[c]
            /\ \A b \in L : r[b] <= r[nx[c]] \/ r[c] <= r[b]
        BY Zenon, <3>1 DEF Sorted
      <3>3. r[c] < r[a] /\ \A b \in L : r[b] <= r[c] \/ r[a] <= r[b]
        BY Zenon, <2>1, <3>1 DEF Sorted
      <3>4. \A b \in M : r[b] # r[c] BY Zenon DEF Sorted
      <3> QED BY <1>3, <3>1, <3>2, <3>3, <3>4
    <2>2. CASE a # pv[c]
      <3>1. nx2[a] = nx[a] BY Zenon, <1>2, <2>2
      <3>2. /\ nx[a] \in L /\ r[nx[a]] < r[a]
            /\ \A b \in L : r[b] <= r[nx[a]] \/ r[a] <= r[b]
        BY Zenon, <1>10, <3>1 DEF Sorted
      <3>3. nx[a] # c BY Zenon, <1>7, <2>2
      <3> QED BY Zenon, <3>1, <3>2, <3>3
    <2> QED BY Zenon, <2>1, <2>2
  <1>11. ASSUME NEW a \in M, pv2[a] = NULL PROVE \A b \in M : r[b] <= r[a]
    <2>1. CASE a = nx[c]
      <3>1. pv[c] = NULL /\ nx[c] # NULL BY Zenon, <1>1, <1>2, <1>11, <2>1
      <3>2. \A b \in L : r[b] <= r[c] /\ (r[b] <= r[a] \/ r[c] <= r[b])
        BY Zenon, <2>1, <3>1 DEF Sorted
      <3>3. \A b \in M : r[b] # r[c] BY Zenon DEF Sorted
      <3> QED BY <1>3, <3>2, <3>3
    <2>2. CASE a # nx[c] BY Zenon, <1>2, <1>11, <2>2 DEF Sorted
    <2> QED BY Zenon, <2>1, <2>2
  <1>12. ASSUME NEW a \in M, pv2[a] # NULL
         PROVE  /\ pv2[a] \in M /\ r[a] < r[pv2[a]]
                /\ \A b \in M : r[b] <= r[a] \/ r[pv2[a]] <= r[b]
    <2>1. CASE a = nx[c]
      <3>1. pv2[a] = pv[c] /\ pv[c] # NULL /\ nx[c] # NULL
        BY Zenon, <1>1, <1>2, <1>12, <2>1
      <3>2. /\ pv[c] \in L /\ r[c] < r[pv[c]]
            /\ \A b \in L : r[b] <= r[c] \/ r[pv[c]] <= r[b]
        BY Zenon, <3>1 DEF Sorted
      <3>3. r[a] < r[c] /\ \A b \in L : r[b] <= r[a] \/ r[c] <= r[b]
        BY Zenon, <2>1, <3>1 DEF Sorted
      <3>4. \A b \in M : r[b] # r[c] BY Zenon DEF Sorted
      <3> QED BY <1>3, <3>1, <3>2, <3>3, <3>4
    <2>2. CASE a # nx[c]
      <3>1. pv2[a] = pv[a] BY Zenon, <1>2, <2>2
      <3>2. /\ pv[a] \in L /\ r[a] < r[pv[a]]
            /\ \A b \in L : r[b] <= r[a] \/ r[pv[a]] <= r[b]
        BY Zenon, <1>12, <3>1 DEF Sorted
      <3>3. pv[a] # c BY Zenon, <1>8, <2>2
      <3> QED BY Zenon, <3>1, <3>2, <3>3
    <2> QED BY Zenon, <2>1, <2>2
  <1> HIDE DEF h2
  <1>13. Sorted(M, h2, nx2, pv2, r)
    BY Zenon, <1>4, <1>5, <1>6, <1>9, <1>10, <1>11, <1>12 DEF Sorted
  <1> QED BY Zenon, <1>13 DEF h2

(* The i-th of the n connections of s, NULL before the first and after the *)
(* last.                                                                   *)
Nth(s, n, i) == IF i \in 1 .. n THEN s[i] ELSE NULL

(* The links hd, nx, pv spell out s, which runs once through L. *)
Spelling(s, n, L, hd, nx, pv) ==
  /\ s \in [1 .. n -> L]
  /\ \A i, j \in 1 .. n : s[i] = s[j] => i = j
  /\ \A a \in L : \E i \in 1 .. n : s[i] = a
  /\ hd = Nth(s, n, 1)
  /\ \A i \in 1 .. n : nx[s[i]] = Nth(s, n, i + 1) /\ pv[s[i]] = Nth(s, n, i - 1)

(* What list_remove() writes. *)
Removed(hd, nx, pv, c, hd2, nx2, pv2) ==
  /\ nx2 = [a \in Addrs |-> CASE a = c     -> NULL
                             [] a = pv[c] -> nx[c]
                             [] OTHER     -> nx[a]]
  /\ pv2 = [a \in Addrs |-> CASE a = c     -> NULL
                             [] a = nx[c] -> pv[c]
                             [] OTHER     -> pv[a]]
  /\ hd2 = IF pv[c] = NULL THEN nx[c] ELSE hd

(* list_insert() puts the new connection before the others. *)
LEMMA InsertSpelled ==
  ASSUME NEW L \in SUBSET Addrs, NEW hd, NEW nx \in [Addrs -> Pointer],
         NEW pv \in [Addrs -> Pointer], NEW n \in Nat, NEW s,
         Spelling(s, n, L, hd, nx, pv), NEW c \in Addrs \ L,
         NEW nx2, NEW pv2, Inserted(hd, nx, pv, c, nx2, pv2)
  PROVE  \E s2 : Spelling(s2, n + 1, L \cup {c}, c, nx2, pv2)
  <1> DEFINE s2 == [i \in 1 .. n + 1 |-> IF i = 1 THEN c ELSE s[i - 1]]
             M  == L \cup {c}
  <1>1. c # NULL /\ NULL \notin L BY EventLoopAssumption
  <1>2. s \in [1 .. n -> L] BY DEF Spelling
  <1>3. \A i \in 1 .. n : s[i] \in L /\ s[i] # c BY <1>2
  <1>4. s2 \in [1 .. n + 1 -> M] BY <1>2
  <1>5. s2[1] = c /\ \A i \in 1 .. n : s2[i + 1] = s[i] BY <1>2
  <1>6. \A i \in 1 .. n + 1 : i # 1 => i - 1 \in 1 .. n /\ s2[i] = s[i - 1]
    BY <1>2
  <1> HIDE DEF s2
  <1>7. ASSUME NEW i \in 1 .. n + 1, NEW j \in 1 .. n + 1
        PROVE  s2[i] = s2[j] => i = j
    <2>1. CASE i = 1 /\ j # 1 BY <2>1, <1>3, <1>5, <1>6
    <2>2. CASE i # 1 /\ j = 1 BY <2>2, <1>3, <1>5, <1>6
    <2>3. CASE i # 1 /\ j # 1 BY <2>3, <1>6 DEF Spelling
    <2> QED BY <2>1, <2>2, <2>3
  <1>8. \A a \in M : \E i \in 1 .. n + 1 : s2[i] = a
    <2> TAKE a \in M
    <2>1. CASE a = c BY <2>1, <1>5
    <2>2. CASE a \in L
      <3>1. PICK i \in 1 .. n : s[i] = a BY <2>2 DEF Spelling
      <3> QED BY <3>1, <1>5
    <2> QED BY <2>1, <2>2
  <1>9. hd = IF n = 0 THEN NULL ELSE s[1] BY DEF Spelling, Nth
  <1>10. /\ nx2[c] = hd /\ pv2[c] = NULL
         /\ \A a \in L : nx2[a] = nx[a] /\ pv2[a] = IF a = hd THEN c ELSE pv[a]
    <2>1. hd # c BY <1>1, <1>3, <1>9
    <2> QED BY <2>1 DEF Inserted
  <1>11. ASSUME NEW i \in 1 .. n + 1
         PROVE  /\ nx2[s2[i]] = Nth(s2, n + 1, i + 1)
                /\ pv2[s2[i]] = Nth(s2, n + 1, i - 1)
    <2>1. CASE i = 1
      BY <2>1, <1>5, <1>10, <1>9 DEF Nth
    <2>2. CASE i # 1
      <3>1. i - 1 \in 1 .. n /\ s2[i] = s[i - 1] /\ s[i - 1] \in L
        BY <2>2, <1>3, <1>6
      <3>2. nx[s[i - 1]] = Nth(s, n, i) /\ pv[s[i - 1]] = Nth(s, n, i - 2)
        BY <3>1 DEF Spelling
      <3>3. nx2[s2[i]] = Nth(s2, n + 1, i + 1)
        BY <3>1, <3>2, <1>5, <1>10 DEF Nth
      <3>4. s[i - 1] = hd <=> i = 2
        <4>1. 1 \in 1 .. n /\ hd = s[1] BY <3>1, <1>9
        <4>2. s[i - 1] = s[1] => i - 1 = 1 BY ZenonT(60), <4>1, <3>1 DEF Spelling
        <4> QED BY <4>1, <4>2
      <3>5. pv2[s2[i]] = Nth(s2, n + 1, i - 1)
        <4>1. CASE i = 2 BY <4>1, <3>1, <3>4, <1>5, <1>10 DEF Nth
        <4>2. CASE i # 2
          <5>1. pv2[s2[i]] = Nth(s, n, i - 2) BY <4>2, <3>1, <3>2, <3>4, <1>10
          <5>2. i - 2 \in 1 .. n /\ s2[i - 1] = s[i - 2]
            BY <4>2, <2>2, <1>5
          <5> QED BY <5>1, <5>2 DEF Nth
        <4> QED BY <4>1, <4>2
      <3> QED BY <3>3, <3>5
    <2> QED BY <2>1, <2>2
  <1>12. c = Nth(s2, n + 1, 1) BY <1>5 DEF Nth
  <1> QED BY Zenon, <1>4, <1>7, <1>8, <1>11, <1>12 DEF Spelling

(* list_remove() closes the gap. *)
LEMMA RemoveSpelled ==
  ASSUME NEW L \in SUBSET Addrs, NEW hd, NEW nx \in [Addrs -> Pointer],
         NEW pv \in [Addrs -> Pointer], NEW n \in Nat, NEW s,
         Spelling(s, n, L, hd, nx, pv), NEW c \in L,
         NEW hd2, NEW nx2, NEW pv2, Removed(hd, nx, pv, c, hd2, nx2, pv2)
  PROVE  \E s2 : Spelling(s2, n - 1, L \ {c}, hd2, nx2, pv2)
  <1>1. PICK k \in 1 .. n : s[k] = c BY DEF Spelling
  <1> DEFINE s2 == [i \in 1 .. n - 1 |-> IF i < k THEN s[i] ELSE s[i + 1]]
             M  == L \ {c}
  <1>2. s \in [1 .. n -> L] /\ NULL \notin L
    BY EventLoopAssumption DEF Spelling
  <1>3. \A i \in 1 .. n : s[i] \in L /\ (s[i] = c <=> i = k)
    <2>1. \A i, j \in 1 .. n : s[i] = s[j] => i = j BY Zenon DEF Spelling
    <2> QED BY <2>1, <1>1, <1>2
  <1>4. s2 \in [1 .. n - 1 -> M] BY <1>3
  <1>5. \A i \in 1 .. n - 1 : s2[i] = IF i < k THEN s[i] ELSE s[i + 1]
    OBVIOUS
  <1> HIDE DEF s2
  <1>6. ASSUME NEW i \in 1 .. n - 1, NEW j \in 1 .. n - 1
        PROVE  s2[i] = s2[j] => i = j
    <2> DEFINE p == IF i < k THEN i ELSE i + 1
               q == IF j < k THEN j ELSE j + 1
    <2>1. p \in 1 .. n /\ q \in 1 .. n /\ s2[i] = s[p] /\ s2[j] = s[q]
      BY <1>5
    <2>2. p = q => i = j OBVIOUS
    <2> HIDE DEF p, q
    <2>3. s[p] = s[q] => p = q BY Zenon, <2>1 DEF Spelling
    <2> QED BY <2>1, <2>2, <2>3
  <1>7. \A a \in M : \E i \in 1 .. n - 1 : s2[i] = a
    <2> TAKE a \in M
    <2>1. PICK i \in 1 .. n : s[i] = a BY DEF Spelling
    <2>2. i # k BY <2>1, <1>1
    <2>3. CASE i < k BY <2>1, <2>3, <1>5
    <2>4. CASE i > k
      <3>1. i - 1 \in 1 .. n - 1 /\ s2[i - 1] = s[i] BY <2>4, <1>5
      <3> QED BY <2>1, <3>1
    <2> QED BY <2>2, <2>3, <2>4
  <1>8. nx[c] = Nth(s, n, k + 1) /\ pv[c] = Nth(s, n, k - 1)
    BY <1>1 DEF Spelling
  <1>9. \A a \in M : /\ nx2[a] = IF a = pv[c] THEN nx[c] ELSE nx[a]
                     /\ pv2[a] = IF a = nx[c] THEN pv[c] ELSE pv[a]
    BY DEF Removed
  <1>10. hd2 = Nth(s2, n - 1, 1)
    <2>1. hd2 = IF pv[c] = NULL THEN nx[c] ELSE hd BY DEF Removed
    <2>2. hd = s[1] BY DEF Spelling, Nth
    <2>3. CASE k = 1
      <3>1. hd2 = Nth(s, n, 2) BY <2>1, <2>3, <1>8 DEF Nth
      <3> QED BY <3>1, <2>3, <1>5 DEF Nth
    <2>4. CASE k # 1
      <3>1. pv[c] # NULL BY <2>4, <1>8, <1>2, <1>3 DEF Nth
      <3> QED BY <3>1, <2>1, <2>2, <2>4, <1>5 DEF Nth
    <2> QED BY <2>3, <2>4
  <1>11. ASSUME NEW i \in 1 .. n - 1
         PROVE  /\ nx2[s2[i]] = Nth(s2, n - 1, i + 1)
                /\ pv2[s2[i]] = Nth(s2, n - 1, i - 1)
    <2>0. PICK p \in Int : p = IF i < k THEN i ELSE i + 1 OBVIOUS
    <2>1. p \in 1 .. n /\ s2[i] = s[p] /\ p # k
      <3>1. CASE i < k BY <3>1, <2>0, <1>5
      <3>2. CASE ~(i < k) BY <3>2, <2>0, <1>5
      <3> QED BY <3>1, <3>2
    <2>2. s[p] \in M BY <2>1, <1>3
    <2>3. nx[s[p]] = Nth(s, n, p + 1) /\ pv[s[p]] = Nth(s, n, p - 1)
      BY <2>1 DEF Spelling
    <2>4. s[p] = pv[c] <=> p = k - 1
      <3>1. CASE k = 1 BY <3>1, <2>1, <2>2, <1>2, <1>8 DEF Nth
      <3>2. CASE k # 1
        <4>1. k - 1 \in 1 .. n /\ pv[c] = s[k - 1] BY <3>2, <1>8 DEF Nth
        <4>2. s[p] = s[k - 1] => p = k - 1 BY Zenon, <4>1, <2>1 DEF Spelling
        <4> QED BY <4>1, <4>2
      <3> QED BY <3>1, <3>2
    <2>5. s[p] = nx[c] <=> p = k + 1
      <3>1. CASE k = n BY <3>1, <2>1, <2>2, <1>2, <1>8 DEF Nth
      <3>2. CASE k # n
        <4>1. k + 1 \in 1 .. n /\ nx[c] = s[k + 1] BY <3>2, <1>8 DEF Nth
        <4>2. s[p] = s[k + 1] => p = k + 1 BY ZenonT(60), <4>1, <2>1 DEF Spelling
        <4> QED BY <4>1, <4>2
      <3> QED BY <3>1, <3>2
    <2>6. nx2[s2[i]] = IF p = k - 1 THEN Nth(s, n, k + 1) ELSE Nth(s, n, p + 1)
      BY <2>1, <2>2, <2>3, <2>4, <1>8, <1>9
    <2>7. pv2[s2[i]] = IF p = k + 1 THEN Nth(s, n, k - 1) ELSE Nth(s, n, p - 1)
      BY <2>1, <2>2, <2>3, <2>5, <1>8, <1>9
    <2>8. Nth(s2, n - 1, i + 1) = IF p = k - 1 THEN Nth(s, n, k + 1)
                                  ELSE Nth(s, n, p + 1)
      <3>1. CASE i < k - 1
        <4>1. i + 1 \in 1 .. n - 1 /\ i + 1 < k /\ p = i BY <3>1, <2>0
        <4>2. s2[i + 1] = s[i + 1] BY <4>1, <1>5
        <4> QED BY <4>1, <4>2, <3>1 DEF Nth
      <3>2. CASE i = k - 1
        <4>1. p = k - 1 BY <3>2, <2>0
        <4> QED BY <4>1, <3>2, <1>5 DEF Nth
      <3>3. CASE i >= k
        <4>1. p = i + 1 BY <3>3, <2>0
        <4> QED BY <4>1, <3>3, <1>5 DEF Nth
      <3> QED BY <3>1, <3>2, <3>3
    <2>9. Nth(s2, n - 1, i - 1) = IF p = k + 1 THEN Nth(s, n, k - 1)
                                  ELSE Nth(s, n, p - 1)
      <3>1. CASE i < k
        <4>1. p = i BY <3>1, <2>0
        <4> QED BY <4>1, <3>1, <1>5 DEF Nth
      <3>2. CASE i = k
        <4>1. p = k + 1 BY <3>2, <2>0
        <4> QED BY <4>1, <3>2, <1>5 DEF Nth
      <3>3. CASE i > k
        <4>1. p = i + 1 BY <3>3, <2>0
        <4> QED BY <4>1, <3>3, <1>5 DEF Nth
      <3> QED BY <3>1, <3>2, <3>3
    <2> QED BY <2>6, <2>7, <2>8, <2>9
  <1> QED BY Zenon, <1>4, <1>6, <1>7, <1>10, <1>11 DEF Spelling

-----------------------------------------------------------------------------
(* The ready list and the batch. *)

(* Putting t on the ready list. *)
LEMMA EnqueueKeeps ==
  ASSUME rdlist \in Seq(Tags), NEW t \in Tags
  PROVE  /\ Enqueue(t) \in Seq(Tags)
         /\ \A u : InList(u) \/ u = t =>
              \E k \in 1 .. Len(Enqueue(t)) : Enqueue(t)[k] = u
  <1>1. CASE InList(t) BY Zenon, <1>1 DEF Enqueue, InList
  <1>2. CASE ~InList(t)
    <2>1. Enqueue(t) = Append(rdlist, t) BY Zenon, <1>2 DEF Enqueue
    <2>2. /\ Append(rdlist, t) \in Seq(Tags)
          /\ Len(Append(rdlist, t)) = Len(rdlist) + 1
          /\ Append(rdlist, t)[Len(rdlist) + 1] = t
          /\ \A k \in 1 .. Len(rdlist) : Append(rdlist, t)[k] = rdlist[k]
      OBVIOUS
    <2>3. Len(rdlist) \in Nat OBVIOUS
    <2> QED BY <2>1, <2>2, <2>3 DEF InList
  <1> QED BY Zenon, <1>1, <1>2

(* Taking t off it leaves the others. *)
LEMMA DequeueKeeps ==
  ASSUME rdlist \in Seq(Tags), NEW t \in Tags
  PROVE  /\ Dequeue(t) \in Seq(Tags)
         /\ \A u : InList(u) /\ u # t =>
              \E k \in 1 .. Len(Dequeue(t)) : Dequeue(t)[k] = u
  <1>1. CASE ~InList(t) BY Zenon, <1>1 DEF Dequeue, InList
  <1>2. CASE InList(t)
    <2> DEFINE i == CHOOSE i \in 1 .. Len(rdlist) : rdlist[i] = t
               x == SubSeq(rdlist, 1, i - 1)
               y == SubSeq(rdlist, i + 1, Len(rdlist))
    <2>1. i \in 1 .. Len(rdlist) /\ rdlist[i] = t BY Zenon, <1>2 DEF InList
    <2>2. Dequeue(t) = x \o y BY Zenon, <1>2 DEF Dequeue
    <2>3. Len(rdlist) \in Nat /\ \A k \in 1 .. Len(rdlist) : rdlist[k] \in Tags
      OBVIOUS
    <2> HIDE DEF i
    <2>4. /\ i \in Int /\ i - 1 \in Int /\ i + 1 \in Int /\ Len(rdlist) \in Int
          /\ \A k \in 1 .. i - 1 : rdlist[k] \in Tags
          /\ \A k \in i + 1 .. Len(rdlist) : rdlist[k] \in Tags
      BY <2>1, <2>3
    <2>5. /\ x \in Seq(Tags) /\ Len(x) = IF 1 <= i - 1 THEN i - 1 - 1 + 1 ELSE 0
          /\ \A k \in 1 .. i - 1 - 1 + 1 : x[k] = rdlist[1 + k - 1]
      BY <2>4, SubSeqProperties
    <2>6. /\ y \in Seq(Tags)
          /\ Len(y) = IF i + 1 <= Len(rdlist) THEN Len(rdlist) - (i + 1) + 1 ELSE 0
          /\ \A k \in 1 .. Len(rdlist) - (i + 1) + 1 : y[k] = rdlist[i + 1 + k - 1]
      BY <2>4, SubSeqProperties
    <2> HIDE DEF x, y
    <2>7. /\ x \o y \in Seq(Tags) /\ Len(x \o y) = Len(x) + Len(y)
          /\ \A k \in 1 .. Len(x) + Len(y) :
               (x \o y)[k] = IF k <= Len(x) THEN x[k] ELSE y[k - Len(x)]
      BY ZenonT(60), <2>5, <2>6, ConcatProperties
    <2>8. /\ Len(x) = i - 1 /\ Len(y) = Len(rdlist) - i
          /\ \A k \in 1 .. i - 1 : x[k] = rdlist[k]
          /\ \A k \in 1 .. Len(rdlist) - i : y[k] = rdlist[i + k]
      BY <2>1, <2>3, <2>5, <2>6
    <2>9. ASSUME NEW k \in 1 .. Len(rdlist), rdlist[k] # t
          PROVE  \E j \in 1 .. Len(x \o y) : (x \o y)[j] = rdlist[k]
      <3>1. CASE k < i
        <4>1. k \in 1 .. Len(x \o y) /\ k \in 1 .. i - 1
          BY <3>1, <2>1, <2>3, <2>7, <2>8
        <4>2. (x \o y)[k] = rdlist[k] BY <4>1, <2>1, <2>3, <2>7, <2>8
        <4> QED BY Zenon, <4>1, <4>2
      <3>2. CASE k > i
        <4>1. k - 1 \in 1 .. Len(x \o y) /\ k - i \in 1 .. Len(rdlist) - i
          BY <3>2, <2>1, <2>3, <2>7, <2>8
        <4>2. (x \o y)[k - 1] = y[k - i] BY <3>2, <4>1, <2>1, <2>3, <2>7, <2>8
        <4>3. y[k - i] = rdlist[k] BY <4>1, <2>1, <2>3, <2>8
        <4> QED BY Zenon, <4>1, <4>2, <4>3
      <3> QED BY <3>1, <3>2, <2>1, <2>9
    <2> QED BY Zenon, <2>2, <2>7, <2>9 DEF InList
  <1> QED BY Zenon, <1>1, <1>2

(* EpollWait(): what it takes off the ready list it reports. *)
LEMMA WaitReports ==
  ASSUME TypeOK, EpollWait
  PROVE  /\ batch' \in Seq(Event) /\ rdlist' \in Seq(Tags)
         /\ \A u : InList(u) => InList(u)' \/ InBatch(u)'
  <1> DEFINE n == AtMost(Len(rdlist), MAX_EVENTS)
             y == SubSeq(rdlist, n + 1, Len(rdlist))
             z == IF \E i \in 1 .. n : rdlist[i] = "shutdown"
                  THEN <<"shutdown">> ELSE <<>>
             e == [i \in 1 .. n |->
                     [tag |-> rdlist[i], err |-> rdlist[i] \in broken]]
  <1>1. batch' = e /\ rdlist' = y \o z BY Zenon DEF EpollWait
  <1>2. /\ Len(rdlist) \in Nat
        /\ \A k \in 1 .. Len(rdlist) : rdlist[k] \in Tags
    BY DEF TypeOK
  <1>3. n \in Nat /\ n <= Len(rdlist)
    BY <1>2, EventLoopAssumption DEF AtMost
  <1> HIDE DEF n
  <1>4. \A k \in n + 1 .. Len(rdlist) : rdlist[k] \in Tags BY <1>2, <1>3
  <1>5. /\ y \in Seq(Tags)
        /\ Len(y) = IF n + 1 <= Len(rdlist) THEN Len(rdlist) - (n + 1) + 1 ELSE 0
        /\ \A k \in 1 .. Len(rdlist) - (n + 1) + 1 : y[k] = rdlist[n + 1 + k - 1]
    <2>1. n + 1 \in Int /\ Len(rdlist) \in Int BY <1>2, <1>3
    <2> QED BY <1>4, <2>1, SubSeqProperties
  <1>6. z \in Seq(Tags)
    <2>1. "shutdown" \in Tags BY Zenon DEF Tags, Infrastructure
    <2>2. <<"shutdown">> \in Seq(Tags) /\ <<>> \in Seq(Tags) BY <2>1
    <2> QED BY Zenon, <2>2
  <1> HIDE DEF y, z
  <1>7. /\ y \o z \in Seq(Tags) /\ Len(y \o z) = Len(y) + Len(z)
        /\ \A k \in 1 .. Len(y) + Len(z) :
             (y \o z)[k] = IF k <= Len(y) THEN y[k] ELSE z[k - Len(y)]
    BY Zenon, <1>5, <1>6, ConcatProperties
  <1>8. /\ e \in [1 .. n -> Event]
        /\ \A k \in 1 .. n : e[k].tag = rdlist[k]
    <2>1. ASSUME NEW k \in 1 .. n PROVE e[k] \in Event /\ e[k].tag = rdlist[k]
      <3>1. rdlist[k] \in Tags BY <1>2, <1>3
      <3>2. (rdlist[k] \in broken) \in BOOLEAN OBVIOUS
      <3> QED BY Zenon, <3>1, <3>2 DEF Event
    <2> QED BY Zenon, <2>1
  <1>9. e \in Seq(Event) /\ Len(e) = n
    <2> HIDE DEF e
    <2> QED BY <1>3, <1>8
  <1> HIDE DEF e
  <1>10. ASSUME NEW k \in 1 .. Len(rdlist)
         PROVE  \/ \E j \in 1 .. Len(y \o z) : (y \o z)[j] = rdlist[k]
                \/ \E j \in 1 .. Len(e) : e[j].tag = rdlist[k]
    <2>1. CASE k <= n
      <3>1. k \in 1 .. Len(e) /\ k \in 1 .. n BY <2>1, <1>2, <1>3, <1>9
      <3> QED BY Zenon, <3>1, <1>8
    <2>2. CASE k > n
      <3>1. Len(z) \in Nat /\ Len(y) = Len(rdlist) - n
        BY <2>2, <1>2, <1>3, <1>5, <1>6
      <3>2. k - n \in 1 .. Len(y \o z) /\ k - n \in 1 .. Len(y)
        BY <2>2, <3>1, <1>2, <1>3, <1>7
      <3>3. (y \o z)[k - n] = y[k - n] BY <3>1, <3>2, <1>2, <1>3, <1>7
      <3>4. y[k - n] = rdlist[k] BY <2>2, <3>1, <3>2, <1>2, <1>3, <1>5
      <3> QED BY Zenon, <3>2, <3>3, <3>4
    <2> QED BY <2>1, <2>2, <1>2, <1>3
  <1> QED BY ZenonT(60), <1>1, <1>7, <1>9, <1>10 DEF InList, InBatch

(* The rest of the batch stays when its head is taken. *)
LEMMA TakeKeeps ==
  ASSUME TypeOK, NEW tags, NEW err, Take(tags, err)
  PROVE  /\ Head(batch).tag \in tags /\ Head(batch).tag \in Tags
         /\ batch' \in Seq(Event) /\ stale' \subseteq Addrs
         /\ \A u : InBatch(u) /\ u # Head(batch).tag => InBatch(u)'
  <1>1. /\ batch # <<>> /\ Head(batch).tag \in tags /\ batch' = Tail(batch)
        /\ stale' = stale \ {Head(batch).tag}
    BY Zenon DEF Take
  <1>2. /\ batch \in Seq(Event) /\ stale \subseteq Addrs BY Zenon DEF TypeOK
  <1>3. /\ Head(batch) \in Event /\ Head(batch) = batch[1]
        /\ Tail(batch) \in Seq(Event) /\ Len(Tail(batch)) = Len(batch) - 1
        /\ \A i \in 1 .. Len(Tail(batch)) : Tail(batch)[i] = batch[i + 1]
        /\ Len(batch) \in Nat
    BY <1>1, <1>2
  <1>4. Head(batch).tag \in Tags BY Zenon, <1>3 DEF Event
  <1>5. ASSUME NEW k \in 1 .. Len(batch), batch[k].tag # Head(batch).tag
        PROVE  \E j \in 1 .. Len(Tail(batch)) : Tail(batch)[j].tag = batch[k].tag
    <2>1. k # 1 BY Zenon, <1>3, <1>5
    <2>2. k - 1 \in 1 .. Len(Tail(batch)) /\ k - 1 + 1 = k BY <2>1, <1>3
    <2>3. Tail(batch)[k - 1] = batch[k] BY <2>2, <1>3
    <2> QED BY Zenon, <2>2, <2>3
  <1>6. stale' \subseteq Addrs BY Zenon, <1>1, <1>2
  <1> QED BY ZenonT(60), <1>1, <1>3, <1>4, <1>5, <1>6 DEF InBatch

(* close_connection(): types, and what stays on the ready list. *)
LEMMA CloseKeeps ==
  ASSUME TypeOK, NEW conn \in Addrs, close_connection(conn)
  PROVE  /\ next' \in [Addrs -> Pointer] /\ prev' \in [Addrs -> Pointer]
         /\ connections' \in Pointer /\ live' \subseteq Addrs
         /\ rdlist' \in Seq(Tags) /\ broken' \subseteq Tags
         /\ last_activity' \in [Addrs -> Int]
         /\ awaiting_writable' \in [Addrs -> BOOLEAN]
         /\ touched' \in [Addrs -> Nat] /\ moved' \in [Addrs -> Nat]
         /\ InList("listen") => InList("listen")'
  <1>1. /\ next' \in [Addrs -> Pointer] /\ prev' \in [Addrs -> Pointer]
        /\ connections' \in Pointer
    <2>1. next[conn] \in Pointer /\ prev[conn] \in Pointer /\ NULL \in Pointer
      BY Zenon DEF TypeOK, Pointer
    <2>2. \A a \in Addrs : next[a] \in Pointer /\ prev[a] \in Pointer
      BY Zenon DEF TypeOK
    <2>3. connections \in Pointer BY Zenon DEF TypeOK
    <2> QED BY <2>1, <2>2, <2>3 DEF close_connection, list_remove
  <1>2. live' \subseteq Addrs /\ broken' \subseteq Tags
    BY Zenon DEF TypeOK, close_connection
  <1>3. /\ conn \in Tags /\ "listen" # conn
        /\ rdlist \in Seq(Tags) /\ rdlist' = Dequeue(conn)
    BY EventLoopAssumption DEF TypeOK, close_connection, Tags
  <1>4. rdlist' \in Seq(Tags) /\ (InList("listen") => InList("listen")')
    BY Zenon, <1>3, DequeueKeeps DEF InList
  <1>5. /\ last_activity' \in [Addrs -> Int]
        /\ touched' \in [Addrs -> Nat] /\ moved' \in [Addrs -> Nat]
    <2>1. 0 \in Int /\ 0 \in Nat OBVIOUS
    <2> QED BY Zenon, <2>1 DEF TypeOK, close_connection, Forget
  <1>6. awaiting_writable' \in [Addrs -> BOOLEAN]
    BY Zenon DEF TypeOK, close_connection, Forget
  <1> QED BY Zenon, <1>1, <1>2, <1>4, <1>5, <1>6

(* time() and the timer's period are numbers. *)
LEMMA Times ==
  ASSUME TypeOK
  PROVE  time \in Int /\ IDLE_SWEEP_INTERVAL_SECONDS * TicksPerSecond \in Nat
  BY EventLoopAssumption DEF TypeOK, time

-----------------------------------------------------------------------------
(* Types, one action at a time. *)

USE DEF world, epoll, list, clocks, rest, Up

(* Time passes; the timer is put on the ready list. *)
LEMMA TickType == ASSUME TypeOK, Tick PROVE TypeOK'
  <1>1. "timer" \in Tags
    BY Zenon DEF Tags, Infrastructure
  <1>2. now' \in Nat /\ timer' \in Nat
    BY SMTT(30), Times DEF TypeOK, Tick
  <1>3. rdlist' \in Seq(Tags)
    <2>1. <<"timer">> \in Seq(Tags) BY <1>1
    <2> QED BY Zenon, <2>1 DEF TypeOK, Tick
  <1> QED BY Zenon, <1>1, <1>2, <1>3 DEF TypeOK, Tick

(* The wall clock is set. *)
LEMMA ClockIsSetType == ASSUME TypeOK, ClockIsSet PROVE TypeOK'
  <1>1. skew' \in Int
    BY Zenon, EventLoopAssumption DEF ClockIsSet
  <1> QED BY Zenon, <1>1 DEF TypeOK, ClockIsSet

(* A client connects. *)
LEMMA ClientConnectsType == ASSUME TypeOK, ClientConnects PROVE TypeOK'
  <1>1. "listen" \in Tags
    BY Zenon DEF Tags, Infrastructure
  <1>2. rdlist' \in Seq(Tags)
    BY Zenon, <1>1, EnqueueKeeps DEF TypeOK, ClientConnects
  <1>3. arrivals' \in Nat /\ backlog' \in Nat
    BY DEF TypeOK, ClientConnects
  <1>4. gave_up' \in BOOLEAN
    BY Zenon DEF ClientConnects
  <1> QED BY Zenon, <1>1, <1>2, <1>3, <1>4 DEF TypeOK, ClientConnects

(* A client sends, reads or hangs up. *)
LEMMA ClientActsType ==
  ASSUME TypeOK, NEW a \in live, NEW h \in BOOLEAN, ClientActs(a, h)
  PROVE  TypeOK'
  <1>1. a \in Tags
    BY Zenon DEF TypeOK, Tags
  <1>2. rdlist' \in Seq(Tags)
    BY Zenon, <1>1, EnqueueKeeps DEF TypeOK, ClientActs
  <1>3. broken' \subseteq Tags
    BY Zenon, <1>1 DEF TypeOK, ClientActs
  <1> QED BY Zenon, <1>1, <1>2, <1>3 DEF TypeOK, ClientActs

(* A descriptor of the loop breaks. *)
LEMMA BreaksType ==
  ASSUME TypeOK, NEW t \in watched, InfrastructureBreaks(t)
  PROVE  TypeOK'
  <1>1. t \in Tags
    BY Zenon DEF TypeOK, Tags
  <1>2. rdlist' \in Seq(Tags)
    BY Zenon, <1>1, EnqueueKeeps DEF TypeOK, InfrastructureBreaks
  <1>3. broken' \subseteq Tags
    BY Zenon, <1>1 DEF TypeOK, InfrastructureBreaks
  <1> QED BY Zenon, <1>1, <1>2, <1>3 DEF TypeOK, InfrastructureBreaks

(* The eventfd becomes readable. *)
LEMMA SignalType == ASSUME TypeOK, Signal PROVE TypeOK'
  <1>1. "shutdown" \in Tags
    BY Zenon DEF Tags, Infrastructure
  <1>2. rdlist' \in Seq(Tags)
    BY Zenon, <1>1, EnqueueKeeps DEF TypeOK, Signal
  <1>3. signalled' \in BOOLEAN
    BY Zenon DEF Signal
  <1> QED BY Zenon, <1>1, <1>2, <1>3 DEF TypeOK, Signal

(* A call of the setup. *)
LEMMA SetupCallType == ASSUME TypeOK, SetupProgress, SetupCall PROVE TypeOK'
  <1>1. "listen" \in Tags /\ "shutdown" \in Tags
    BY Zenon DEF Tags, Infrastructure
  <1>2. rdlist' \in Seq(Tags)
    <2>1. /\ Enqueue("listen") \in Seq(Tags) /\ Enqueue("shutdown") \in Seq(Tags)
          /\ rdlist \in Seq(Tags)
      BY Zenon, <1>1, EnqueueKeeps DEF TypeOK
    <2>2. rdlist' \in {Enqueue("listen"), Enqueue("shutdown"), rdlist}
      BY ZenonT(60) DEF SetupCall
    <2> QED BY Zenon, <2>1, <2>2
  <1>3. own_fds' \subseteq {"epoll", "timer"}
    BY ZenonT(60) DEF TypeOK, SetupCall
  <1>4. watched' \subseteq Infrastructure
    BY ZenonT(60) DEF TypeOK, SetupCall, Infrastructure
  <1>5. timer' \in Nat
    <2> DEFINE period == IDLE_SWEEP_INTERVAL_SECONDS * TicksPerSecond
    <2>1. timer' \in {now + period, timer} BY Zenon DEF SetupCall
    <2>2. period \in Nat /\ now \in Nat /\ timer \in Nat
      BY Zenon, Times DEF TypeOK
    <2> HIDE DEF period
    <2> QED BY <2>1, <2>2
  <1>6. step' \in 1 .. Len(SetupCalls) + 1
    <2>1. step' = step + 1 /\ step <= Len(SetupCalls)
      BY Zenon DEF SetupProgress, SetupCall
    <2>2. step \in 1 .. Len(SetupCalls) + 1 BY Zenon DEF TypeOK
    <2>3. Len(SetupCalls) = 7 BY DEF SetupCalls
    <2> QED BY <2>1, <2>2, <2>3
  <1>7. pc' \in Places
    BY ZenonT(60) DEF SetupCall, Places
  <1> QED BY Zenon, <1>1, <1>2, <1>3, <1>4, <1>5, <1>6, <1>7 DEF TypeOK,
             SetupCall

(* A call of the setup fails. *)
LEMMA SetupFailsType == ASSUME TypeOK, SetupFails PROVE TypeOK'
  <1>1. /\ own_fds' \subseteq {"epoll", "timer"}
        /\ watched' \subseteq Infrastructure
    BY Zenon DEF TypeOK, SetupFails
  <1>2. rdlist' \in Seq(Tags)
    BY DEF SetupFails
  <1>3. status' \in {0, -1} /\ pc' \in Places
    BY Zenon DEF SetupFails, Places
  <1> QED BY Zenon, <1>1, <1>2, <1>3 DEF TypeOK, SetupFails

(* epoll_wait() returns a batch. *)
LEMMA EpollWaitType == ASSUME TypeOK, EpollWait PROVE TypeOK'
  <1>1. batch' \in Seq(Event) /\ rdlist' \in Seq(Tags)
    BY Zenon, WaitReports
  <1>2. pc' \in Places
    BY Zenon DEF EpollWait, Places
  <1> QED BY Zenon, <1>1, <1>2 DEF TypeOK, EpollWait

(* epoll_wait() fails. *)
LEMMA EpollWaitFailsType == ASSUME TypeOK, EpollWaitFails PROVE TypeOK'
  <1>1. pc' \in Places
    BY Zenon DEF EpollWaitFails, Places
  <1> QED BY Zenon, <1>1 DEF TypeOK, EpollWaitFails

(* The batch is done. *)
LEMMA BatchDoneType == ASSUME TypeOK, BatchDone PROVE TypeOK'
  <1>1. pc' \in Places
    BY Zenon DEF BatchDone, Places
  <1> QED BY Zenon, <1>1 DEF TypeOK, BatchDone

(* accept4() finds the queue empty. *)
LEMMA AcceptDryType == ASSUME TypeOK, AcceptDry PROVE TypeOK'
  <1>1. pc' \in Places
    BY Zenon DEF AcceptDry, Places
  <1> QED BY Zenon, <1>1 DEF TypeOK, AcceptDry

(* The sweep is done. *)
LEMMA SweepDoneType == ASSUME TypeOK, SweepDone PROVE TypeOK'
  <1>1. pc' \in Places
    BY Zenon DEF SweepDone, Places
  <1> QED BY Zenon, <1>1 DEF TypeOK, SweepDone

(* accept4() fails for want of resources. *)
LEMMA AcceptGivesUpType == ASSUME TypeOK, AcceptGivesUp PROVE TypeOK'
  <1>1. pc' \in Places /\ gave_up' \in BOOLEAN
    BY Zenon DEF AcceptGivesUp, Places
  <1> QED BY Zenon, <1>1 DEF TypeOK, AcceptGivesUp

(* A client is lost. *)
LEMMA AcceptLosesType == ASSUME TypeOK, AcceptLoses PROVE TypeOK'
  <1>1. pc' \in Places
    BY ZenonT(60) DEF AcceptLoses, AcceptMore, Places
  <1>2. backlog' \in Nat
    BY DEF TypeOK, AcceptLoses, Queued
  <1> QED BY Zenon, <1>1, <1>2 DEF TypeOK, AcceptLoses

(* An error on a descriptor of the loop. *)
LEMMA InfrastructureErrorType == ASSUME TypeOK, InfrastructureError PROVE TypeOK'
  <1>1. batch' \in Seq(Event) /\ stale' \subseteq Addrs
    BY Zenon, TakeKeeps DEF InfrastructureError
  <1>2. pc' \in Places /\ status' \in {0, -1}
    BY Zenon DEF InfrastructureError, Stop, Places
  <1> QED BY Zenon, <1>1, <1>2 DEF TypeOK, InfrastructureError

(* The shutdown eventfd. *)
LEMMA ShutdownType == ASSUME TypeOK, Shutdown PROVE TypeOK'
  <1>1. batch' \in Seq(Event) /\ stale' \subseteq Addrs
    BY Zenon, TakeKeeps DEF Shutdown
  <1>2. pc' \in Places /\ status' \in {0, -1}
    BY Zenon DEF TypeOK, Shutdown, Stop, Places
  <1> QED BY Zenon, <1>1, <1>2 DEF TypeOK, Shutdown

(* The listen socket. *)
LEMMA ListenType == ASSUME TypeOK, Listen PROVE TypeOK'
  <1>1. batch' \in Seq(Event) /\ stale' \subseteq Addrs
    BY Zenon, TakeKeeps DEF Listen
  <1>2. pc' \in Places
    BY Zenon DEF Listen, Places
  <1> QED BY Zenon, <1>1, <1>2 DEF TypeOK, Listen

(* The timer. *)
LEMMA TimerType == ASSUME TypeOK, Timer PROVE TypeOK'
  <1>1. batch' \in Seq(Event) /\ stale' \subseteq Addrs
    BY Zenon, TakeKeeps DEF Timer
  <1>2. pc' \in Places /\ cur' \in Pointer
    BY Zenon DEF TypeOK, Timer, Places
  <1> QED BY Zenon, <1>1, <1>2 DEF TypeOK, Timer

(* A hang-up closes its connection. *)
LEMMA HangUpType == ASSUME TypeOK, HangUp PROVE TypeOK'
  <1>1. batch' \in Seq(Event) /\ stale' \subseteq Addrs
    BY Zenon, TakeKeeps DEF HangUp
  <1>2. Head(batch).tag \in Addrs
    BY Zenon, TakeKeeps DEF TypeOK, HangUp
  <1>3. close_connection(Head(batch).tag)
    BY Zenon DEF HangUp
  <1> QED BY ZenonT(60), CloseKeeps, <1>1, <1>2, <1>3 DEF TypeOK, HangUp

(* A handler closes its connection. *)
LEMMA HandlerClosesType == ASSUME TypeOK, HandlerCloses PROVE TypeOK'
  <1>1. batch' \in Seq(Event) /\ stale' \subseteq Addrs
    BY Zenon, TakeKeeps DEF HandlerCloses
  <1>2. Head(batch).tag \in Addrs
    BY Zenon, TakeKeeps DEF TypeOK, HandlerCloses
  <1>3. close_connection(Head(batch).tag)
    BY Zenon DEF HandlerCloses
  <1> QED BY ZenonT(60), CloseKeeps, <1>1, <1>2, <1>3 DEF TypeOK, HandlerCloses

(* A handler reads, or completes a response. *)
LEMMA ReadsType == ASSUME TypeOK, HandlerReadsOrFinishes PROVE TypeOK'
  <1>1. batch' \in Seq(Event) /\ stale' \subseteq Addrs
    BY Zenon, TakeKeeps DEF HandlerReadsOrFinishes
  <1>2. Head(batch).tag \in Addrs /\ now \in Nat
    BY Zenon, TakeKeeps DEF TypeOK, HandlerReadsOrFinishes
  <1>3. /\ last_activity' \in [Addrs -> Int] /\ touched' \in [Addrs -> Nat]
        /\ moved' \in [Addrs -> Nat]
    BY ZenonT(60), <1>2, Times DEF TypeOK, HandlerReadsOrFinishes, Touch
  <1>4. awaiting_writable' \in [Addrs -> BOOLEAN]
    BY Zenon, <1>2 DEF TypeOK, HandlerReadsOrFinishes
  <1> QED BY ZenonT(60), <1>1, <1>2, <1>3, <1>4 DEF TypeOK, HandlerReadsOrFinishes

(* A handler writes some more. *)
LEMMA WritesType == ASSUME TypeOK, HandlerWritesSome PROVE TypeOK'
  <1>1. batch' \in Seq(Event) /\ stale' \subseteq Addrs
    BY ZenonT(60), TakeKeeps DEF HandlerWritesSome
  <1>2. Head(batch).tag \in Addrs /\ now \in Nat
    <2>1. Head(batch).tag \in {a \in live : awaiting_writable[a]}
      BY Zenon DEF HandlerWritesSome, Take
    <2> QED BY <2>1 DEF TypeOK
  <1>3. moved' \in [Addrs -> Nat]
    BY Zenon, <1>2 DEF TypeOK, HandlerWritesSome
  <1> QED BY ZenonT(60), <1>1, <1>2, <1>3 DEF TypeOK, HandlerWritesSome

(* A handler finds nothing to do. *)
LEMMA FindsNothingType == ASSUME TypeOK, HandlerFindsNothing PROVE TypeOK'
  <1>1. batch' \in Seq(Event) /\ stale' \subseteq Addrs
    BY Zenon, TakeKeeps DEF HandlerFindsNothing
  <1> QED BY Zenon, <1>1 DEF TypeOK, HandlerFindsNothing

(* The event of a freed connection. *)
LEMMA FreedType == ASSUME TypeOK, FreedConnection PROVE TypeOK'
  <1>1. batch' \in Seq(Event) /\ stale' \subseteq Addrs
    BY Zenon, TakeKeeps DEF FreedConnection
  <1>2. pc' \in Places
    BY Zenon DEF FreedConnection, Places
  <1> QED BY Zenon, <1>1, <1>2 DEF TypeOK, FreedConnection

(* A client is accepted. *)
LEMMA AcceptType == ASSUME TypeOK, Accept PROVE TypeOK'
  <1>1. backlog' \in Nat
    BY DEF TypeOK, Accept, Queued
  <1>2. pc' \in Places
    BY ZenonT(60) DEF Accept, AcceptMore, Places
  <1>3. PICK conn \in Addrs \ live, early \in BOOLEAN, added \in BOOLEAN :
           /\ list_insert(conn)
           /\ live' = live \cup {conn}
           /\ last_activity' = [last_activity EXCEPT ![conn] = time]
           /\ touched' = [touched EXCEPT ![conn] = now]
           /\ moved' = [moved EXCEPT ![conn] = now]
           /\ rdlist' = IF added /\ early THEN Append(rdlist, conn) ELSE rdlist
    BY Zenon DEF Accept
  <1>4. conn \in Pointer /\ NULL \in Pointer /\ conn \in Tags
    BY Zenon DEF Pointer, Tags
  <1>5. next' \in [Addrs -> Pointer] /\ connections' \in Pointer
    BY ZenonT(60), <1>3, <1>4 DEF TypeOK, list_insert
  <1>6. prev' \in [Addrs -> Pointer]
    BY <1>3, <1>4 DEF TypeOK, list_insert
  <1>7. /\ last_activity' \in [Addrs -> Int] /\ touched' \in [Addrs -> Nat]
        /\ moved' \in [Addrs -> Nat] /\ live' \subseteq Addrs
    BY ZenonT(60), <1>3, Times DEF TypeOK
  <1>8. rdlist' \in Seq(Tags)
    BY <1>3, <1>4 DEF TypeOK
  <1> QED BY ZenonT(60), <1>1, <1>2, <1>3, <1>4, <1>5, <1>6, <1>7, <1>8 DEF TypeOK,
             Accept

(* A connection that could not be registered is closed. *)
LEMMA AcceptUndoneType ==
  ASSUME TypeOK, SetupProgress, AcceptUndone PROVE TypeOK'
  <1>1. connections \in Addrs /\ close_connection(connections)
    BY Zenon DEF TypeOK, SetupProgress, AcceptUndone, Pointer
  <1>2. pc' \in Places
    BY ZenonT(60) DEF AcceptUndone, AcceptMore, Places
  <1> QED BY ZenonT(60), CloseKeeps, <1>1, <1>2 DEF TypeOK, AcceptUndone

(* The sweep looks at a connection. *)
LEMMA SweepNextType == ASSUME TypeOK, SweepNext PROVE TypeOK'
  <1>1. cur \in Addrs /\ cur' \in Pointer
    BY DEF TypeOK, SweepNext, Pointer, SavedNext
  <1>2. stale' \subseteq Addrs
    BY ZenonT(60), <1>1 DEF TypeOK, SweepNext, close_connection
  <1> QED BY ZenonT(60), CloseKeeps, <1>1, <1>2 DEF TypeOK, SweepNext

(* The teardown closes a connection. *)
LEMMA CloseNextType == ASSUME TypeOK, CloseNext PROVE TypeOK'
  <1>1. connections \in Addrs /\ close_connection(connections)
    BY Zenon DEF TypeOK, CloseNext, Pointer
  <1> QED BY ZenonT(60), CloseKeeps, <1>1 DEF TypeOK, CloseNext

(* event_loop_run() returns. *)
LEMMA ReturnType == ASSUME TypeOK, Return PROVE TypeOK'
  <1>1. /\ own_fds' \subseteq {"epoll", "timer"}
        /\ watched' \subseteq Infrastructure /\ stale' \subseteq Addrs
    BY Zenon DEF Return
  <1>2. rdlist' \in Seq(Tags) /\ batch' \in Seq(Event)
    BY DEF Return
  <1>3. pc' \in Places
    BY Zenon DEF Return, Places
  <1> QED BY ZenonT(60), <1>1, <1>2, <1>3 DEF TypeOK, Return

(* Types are preserved. *)
LEMMA TypeStep == ASSUME TypeOK, SetupProgress, [Next]_vars PROVE TypeOK'
  <1>1. CASE LoopStep
    BY ZenonT(60), <1>1, SetupCallType, SetupFailsType, EpollWaitType,
       BatchDoneType,
       InfrastructureErrorType, ShutdownType, ListenType, TimerType, HangUpType,
       HandlerClosesType, ReadsType, WritesType, FindsNothingType, FreedType,
       AcceptType, AcceptUndoneType, AcceptLosesType, AcceptDryType,
       AcceptGivesUpType,
       SweepNextType, SweepDoneType, CloseNextType, ReturnType DEF LoopStep
  <1>2. CASE World
    BY Zenon, <1>2, TickType, ClockIsSetType, ClientConnectsType, SignalType,
       EpollWaitFailsType, ClientActsType, BreaksType DEF World
  <1>3. CASE UNCHANGED vars BY Zenon, <1>3 DEF TypeOK, vars
  <1> QED BY Zenon, <1>1, <1>2, <1>3 DEF Next, Over

-----------------------------------------------------------------------------
(* The list, the cursor and what is left at the end. *)

(* A step leaves the list alone, puts one connection in, or takes one out. *)
LEMMA ListChanges ==
  ASSUME TypeOK, Linked, CursorIsLive, SetupProgress, [Next]_vars
  PROVE  \/ UNCHANGED list
         \/ \E conn \in Addrs \ live :
              list_insert(conn) /\ live' = live \cup {conn}
         \/ \E conn \in live : close_connection(conn)
  <1>1. CASE SetupCall BY Zenon, <1>1 DEF SetupCall
  <1>2. CASE SetupFails BY Zenon, <1>2 DEF SetupFails
  <1>3. CASE EpollWait BY Zenon, <1>3 DEF EpollWait
  <1>4. CASE BatchDone BY Zenon, <1>4 DEF BatchDone
  <1>5. CASE InfrastructureError BY Zenon, <1>5 DEF InfrastructureError
  <1>6. CASE Shutdown BY Zenon, <1>6 DEF Shutdown
  <1>7. CASE Listen BY Zenon, <1>7 DEF Listen
  <1>8. CASE Timer BY Zenon, <1>8 DEF Timer
  <1>9. CASE HangUp
    BY Zenon, <1>9, TakeKeeps DEF HangUp
  <1>10. CASE HandlerCloses
    BY Zenon, <1>10, TakeKeeps DEF HandlerCloses
  <1>11. CASE HandlerReadsOrFinishes BY Zenon, <1>11 DEF HandlerReadsOrFinishes
  <1>12. CASE HandlerWritesSome BY Zenon, <1>12 DEF HandlerWritesSome
  <1>13. CASE HandlerFindsNothing BY Zenon, <1>13 DEF HandlerFindsNothing
  <1>14. CASE FreedConnection BY Zenon, <1>14 DEF FreedConnection
  <1>15. CASE Accept BY Zenon, <1>15 DEF Accept
  <1>16. CASE AcceptLoses BY Zenon, <1>16 DEF AcceptLoses
  <1>31. CASE AcceptUndone
    BY Zenon, <1>31 DEF AcceptUndone, SetupProgress, Linked, Sorted
  <1>17. CASE AcceptDry BY Zenon, <1>17 DEF AcceptDry
  <1>18. CASE AcceptGivesUp BY Zenon, <1>18 DEF AcceptGivesUp
  <1>19. CASE SweepNext BY Zenon, <1>19 DEF SweepNext, CursorIsLive
  <1>20. CASE SweepDone BY Zenon, <1>20 DEF SweepDone
  <1>21. CASE CloseNext BY Zenon, <1>21 DEF CloseNext, Linked, Sorted
  <1>22. CASE Return BY Zenon, <1>22 DEF Return
  <1>23. CASE Tick BY Zenon, <1>23 DEF Tick
  <1>24. CASE ClockIsSet BY Zenon, <1>24 DEF ClockIsSet
  <1>25. CASE ClientConnects BY Zenon, <1>25 DEF ClientConnects
  <1>26. CASE Signal BY Zenon, <1>26 DEF Signal
  <1>27. CASE EpollWaitFails BY Zenon, <1>27 DEF EpollWaitFails
  <1>28. CASE \E a \in live, h \in BOOLEAN : ClientActs(a, h)
    BY Zenon, <1>28 DEF ClientActs
  <1>29. CASE \E t \in watched : InfrastructureBreaks(t)
    BY Zenon, <1>29 DEF InfrastructureBreaks
  <1>30. CASE UNCHANGED vars BY Zenon, <1>30 DEF vars
  <1> QED
    BY ZenonT(60), <1>1, <1>2, <1>3, <1>4, <1>5, <1>6, <1>7, <1>8, <1>9, <1>10,
       <1>11, <1>12, <1>13, <1>14, <1>15, <1>16, <1>17, <1>18, <1>19, <1>20,
       <1>21, <1>22, <1>23, <1>24, <1>25, <1>26, <1>27, <1>28, <1>29, <1>30,
       <1>31 DEF Next, LoopStep, World, Over

(* So it stays sorted. *)
LEMMA LinkedStep ==
  ASSUME TypeOK, Linked, CursorIsLive, SetupProgress, [Next]_vars
  PROVE  Linked'
  <1>1. CASE UNCHANGED list BY Zenon, <1>1 DEF Linked
  <1>2. /\ live \in SUBSET Addrs /\ connections \in Pointer
        /\ next \in [Addrs -> Pointer] /\ prev \in [Addrs -> Pointer]
    BY Zenon DEF TypeOK
  <1>3. PICK r \in [Addrs -> Int] : Sorted(live, connections, next, prev, r)
    BY Zenon DEF Linked
  <1>4. ASSUME NEW conn \in Addrs \ live,
               list_insert(conn), live' = live \cup {conn}
        PROVE  Linked'
    <2>1. /\ Inserted(connections, next, prev, conn, next', prev')
          /\ connections' = conn
      BY Zenon, <1>4 DEF list_insert, Inserted
    <2>2. \E s \in [Addrs -> Int] :
            Sorted(live \cup {conn}, conn, next', prev', s)
      BY Zenon, <1>2, <1>3, <1>4, <2>1, InsertSorted
    <2> QED BY Zenon, <1>4, <2>1, <2>2 DEF Linked
  <1>5. ASSUME NEW conn \in live, close_connection(conn)
        PROVE  Linked'
    <2>1. /\ next' = [a \in Addrs |-> CASE a = conn       -> NULL
                                        [] a = prev[conn] -> next[conn]
                                        [] OTHER          -> next[a]]
          /\ prev' = [a \in Addrs |-> CASE a = conn       -> NULL
                                        [] a = next[conn] -> prev[conn]
                                        [] OTHER          -> prev[a]]
          /\ connections' = IF prev[conn] = NULL THEN next[conn] ELSE connections
          /\ live' = live \ {conn}
      BY Zenon, <1>5 DEF close_connection, list_remove
    <2>2. Sorted(live \ {conn},
                 IF prev[conn] = NULL THEN next[conn] ELSE connections,
                 next', prev', r)
      BY ZenonT(60), <1>2, <1>3, <2>1, RemoveSorted
    <2> QED BY Zenon, <1>3, <2>1, <2>2 DEF Linked
  <1> QED BY Zenon, <1>1, <1>4, <1>5, ListChanges

(* The successor the sweep has saved is not the connection it frees. *)
LEMMA CursorStep ==
  ASSUME TypeOK, Linked, CursorIsLive, [Next]_vars PROVE CursorIsLive'
  <1>1. CASE SetupCall
    BY ZenonT(60), <1>1 DEF CursorIsLive, SetupCall
  <1>2. CASE SetupFails
    BY <1>2 DEF CursorIsLive, SetupFails
  <1>3. CASE EpollWait
    BY <1>3 DEF CursorIsLive, EpollWait
  <1>4. CASE BatchDone
    BY <1>4 DEF CursorIsLive, BatchDone
  <1>5. CASE InfrastructureError
    BY <1>5 DEF CursorIsLive, InfrastructureError, Stop
  <1>6. CASE Shutdown
    BY <1>6 DEF CursorIsLive, Shutdown, Stop
  <1>7. CASE Listen
    BY <1>7 DEF CursorIsLive, Listen
  <1>8. CASE Timer BY Zenon, <1>8 DEF CursorIsLive, Timer, Linked, Sorted
  <1>9. CASE HangUp
    BY <1>9 DEF CursorIsLive, HangUp, Take
  <1>10. CASE HandlerCloses
    BY <1>10 DEF CursorIsLive, HandlerCloses, Take
  <1>11. CASE HandlerReadsOrFinishes
    BY <1>11 DEF CursorIsLive, HandlerReadsOrFinishes, Take
  <1>12. CASE HandlerWritesSome
    BY <1>12 DEF CursorIsLive, HandlerWritesSome, Take
  <1>13. CASE HandlerFindsNothing
    BY <1>13 DEF CursorIsLive, HandlerFindsNothing, Take
  <1>14. CASE FreedConnection
    BY <1>14 DEF CursorIsLive, FreedConnection
  <1>15. CASE Accept
    BY <1>15 DEF CursorIsLive, Accept, AcceptMore
  <1>16. CASE AcceptLoses
    BY <1>16 DEF CursorIsLive, AcceptLoses, AcceptMore
  <1>31. CASE AcceptUndone
    BY <1>31 DEF CursorIsLive, AcceptUndone, AcceptMore
  <1>17. CASE AcceptDry
    BY <1>17 DEF CursorIsLive, AcceptDry
  <1>18. CASE AcceptGivesUp
    BY <1>18 DEF CursorIsLive, AcceptGivesUp
  <1>19. CASE SweepNext
    <2>1. cur \in live /\ cur' = next[cur] /\ live' \in {live, live \ {cur}}
      BY Zenon, <1>19 DEF CursorIsLive, SweepNext, SavedNext, close_connection
    <2>2. PICK r \in [Addrs -> Int] : Sorted(live, connections, next, prev, r)
      BY Zenon DEF Linked
    <2>3. next[cur] # NULL => next[cur] \in live /\ r[next[cur]] < r[cur]
      BY ZenonT(60), <2>1, <2>2 DEF Sorted
    <2>4. next[cur] # NULL => next[cur] # cur BY <2>1, <2>3 DEF TypeOK
    <2> QED BY Zenon, <2>1, <2>3, <2>4 DEF CursorIsLive
  <1>20. CASE SweepDone
    BY <1>20 DEF CursorIsLive, SweepDone
  <1>21. CASE CloseNext
    BY <1>21 DEF CursorIsLive, CloseNext
  <1>22. CASE Return
    BY <1>22 DEF CursorIsLive, Return
  <1>23. CASE Tick
    BY Zenon, <1>23 DEF CursorIsLive, Tick
  <1>24. CASE ClockIsSet
    BY Zenon, <1>24 DEF CursorIsLive, ClockIsSet
  <1>25. CASE ClientConnects
    BY Zenon, <1>25 DEF CursorIsLive, ClientConnects
  <1>26. CASE Signal
    BY Zenon, <1>26 DEF CursorIsLive, Signal
  <1>27. CASE EpollWaitFails
    BY Zenon, <1>27 DEF CursorIsLive, EpollWaitFails
  <1>28. CASE \E a \in live, h \in BOOLEAN : ClientActs(a, h)
    BY Zenon, <1>28 DEF CursorIsLive, ClientActs
  <1>29. CASE \E t \in watched : InfrastructureBreaks(t)
    BY Zenon, <1>29 DEF CursorIsLive, InfrastructureBreaks
  <1>30. CASE UNCHANGED vars
    BY Zenon, <1>30 DEF CursorIsLive, vars
  <1> QED
    BY Zenon, <1>1, <1>2, <1>3, <1>4, <1>5, <1>6, <1>7, <1>8, <1>9, <1>10,
       <1>11, <1>12, <1>13, <1>14, <1>15, <1>16, <1>17, <1>18, <1>19, <1>20,
       <1>21, <1>22, <1>23, <1>24, <1>25, <1>26, <1>27, <1>28, <1>29, <1>30,
       <1>31 DEF Next, LoopStep, World, Over

(* Which call of the setup is which. *)
LEMMA SevenCalls == Len(SetupCalls) = 7
  BY DEF SetupCalls

(* ... in the order of event_loop_run(). *)
LEMMA Calls ==
  ASSUME NEW n \in 1 .. 7
  PROVE  /\ SetupCalls[n] = "epoll_create1" <=> n = 2
         /\ SetupCalls[n] = "add listen" <=> n = 3
         /\ SetupCalls[n] = "timerfd_create" <=> n = 4
         /\ SetupCalls[n] \in {"set_nonblocking", "epoll_create1"} <=> n <= 2
         /\ SetupCalls[n] \in {"add listen", "timerfd_create"} <=> n = 3 \/ n = 4
  <1>1. CASE n = 1 BY <1>1 DEF SetupCalls
  <1>2. CASE n = 2 BY <1>2 DEF SetupCalls
  <1>3. CASE n = 3 BY <1>3 DEF SetupCalls
  <1>4. CASE n = 4 BY <1>4 DEF SetupCalls
  <1>5. CASE n = 5 BY <1>5 DEF SetupCalls
  <1>6. CASE n = 6 BY <1>6 DEF SetupCalls
  <1>7. CASE n = 7 BY <1>7 DEF SetupCalls
  <1>8. n = 1 \/ n = 2 \/ n = 3 \/ n = 4 \/ n = 5 \/ n = 6 \/ n = 7 OBVIOUS
  <1> QED BY ZenonT(60), <1>1, <1>2, <1>3, <1>4, <1>5, <1>6, <1>7, <1>8

(* The setup opens and registers in order, and the loop starts with all of *)
(* it.                                                                     *)
LEMMA SetupStep ==
  ASSUME TypeOK, SetupProgress, [Next]_vars PROVE SetupProgress'
  <1>1. CASE SetupCall
    <2>1. step \in 1 .. Len(SetupCalls) + 1 BY Zenon DEF TypeOK
    <2>2. /\ step <= Len(SetupCalls) /\ live = {} /\ batch = <<>>
          /\ own_fds = IF step <= 2 THEN {} ELSE IF step <= 4 THEN {"epoll"}
                       ELSE {"epoll", "timer"}
          /\ "listen" \in watched <=> step > 3
      BY Zenon, <1>1 DEF SetupProgress, SetupCall
    <2>3. step \in 1 .. 7 BY <2>1, <2>2, SevenCalls
    <2>4. /\ step' = step + 1 /\ live' = live /\ batch' = batch
          /\ pc' = IF step = Len(SetupCalls) THEN "epoll_wait" ELSE "setup"
      BY Zenon, <1>1 DEF SetupCall
    <2>5. own_fds' = IF step' <= 2 THEN {} ELSE IF step' <= 4 THEN {"epoll"}
                     ELSE {"epoll", "timer"}
      <3>1. own_fds' = IF step = 2 THEN own_fds \cup {"epoll"}
                       ELSE IF step = 4 THEN own_fds \cup {"timer"} ELSE own_fds
        BY ZenonT(60), <1>1, <2>3, Calls DEF SetupCall
      <3>2. CASE step <= 1 BY <2>2, <2>3, <2>4, <3>1, <3>2
      <3>3. CASE step = 2 BY <2>2, <2>4, <3>1, <3>3
      <3>4. CASE step = 3 BY <2>2, <2>4, <3>1, <3>4
      <3>5. CASE step = 4 BY <2>2, <2>4, <3>1, <3>5
      <3>6. CASE step > 4 BY <2>2, <2>3, <2>4, <3>1, <3>6
      <3> QED BY <2>3, <3>2, <3>3, <3>4, <3>5, <3>6
    <2>6. "listen" \in watched' <=> step' > 3
      <3>1. "listen" \in watched' <=> step = 3 \/ "listen" \in watched
        BY ZenonT(60), <1>1, <2>3, Calls DEF SetupCall
      <3> QED BY <2>2, <2>3, <2>4, <3>1
    <2> QED BY <2>2, <2>3, <2>4, <2>5, <2>6, SevenCalls DEF SetupProgress
  <1>2. CASE SetupFails
    BY <1>2 DEF SetupProgress, SetupFails
  <1>3. CASE EpollWait
    BY <1>3 DEF SetupProgress, EpollWait
  <1>4. CASE BatchDone
    BY <1>4 DEF SetupProgress, BatchDone
  <1>5. CASE InfrastructureError
    BY <1>5 DEF SetupProgress, InfrastructureError, Stop, Take
  <1>6. CASE Shutdown
    BY <1>6 DEF SetupProgress, Shutdown, Stop, Take
  <1>7. CASE Listen
    BY <1>7 DEF SetupProgress, Listen, Take
  <1>8. CASE Timer
    BY <1>8 DEF SetupProgress, Timer, Take
  <1>9. CASE HangUp
    BY <1>9 DEF SetupProgress, HangUp, Take
  <1>10. CASE HandlerCloses
    BY <1>10 DEF SetupProgress, HandlerCloses, Take
  <1>11. CASE HandlerReadsOrFinishes
    BY <1>11 DEF SetupProgress, HandlerReadsOrFinishes, Take
  <1>12. CASE HandlerWritesSome
    BY <1>12 DEF SetupProgress, HandlerWritesSome, Take
  <1>13. CASE HandlerFindsNothing
    BY <1>13 DEF SetupProgress, HandlerFindsNothing, Take
  <1>14. CASE FreedConnection
    BY <1>14 DEF SetupProgress, FreedConnection, Take
  <1>15. CASE Accept
    <2>1. /\ pc = "accept" /\ UNCHANGED <<watched, batch>>
          /\ pc' \in {"accept", "unregistered"} /\ connections' \in Addrs
      BY ZenonT(60), <1>15 DEF Accept, AcceptMore, list_insert
    <2> QED BY <2>1, EventLoopAssumption DEF SetupProgress
  <1>16. CASE AcceptLoses
    BY <1>16 DEF SetupProgress, AcceptLoses, AcceptMore
  <1>31. CASE AcceptUndone
    BY <1>31 DEF SetupProgress, AcceptUndone, AcceptMore
  <1>17. CASE AcceptDry
    BY <1>17 DEF SetupProgress, AcceptDry
  <1>18. CASE AcceptGivesUp
    BY <1>18 DEF SetupProgress, AcceptGivesUp
  <1>19. CASE SweepNext
    BY <1>19 DEF SetupProgress, SweepNext
  <1>20. CASE SweepDone
    BY <1>20 DEF SetupProgress, SweepDone
  <1>21. CASE CloseNext
    BY <1>21 DEF SetupProgress, CloseNext
  <1>22. CASE Return
    BY <1>22 DEF SetupProgress, Return
  <1>23. CASE Tick
    BY Zenon, <1>23 DEF SetupProgress, Tick
  <1>24. CASE ClockIsSet
    BY Zenon, <1>24 DEF SetupProgress, ClockIsSet
  <1>25. CASE ClientConnects
    BY Zenon, <1>25 DEF SetupProgress, ClientConnects
  <1>26. CASE Signal
    BY ZenonT(60), <1>26 DEF SetupProgress, Signal
  <1>27. CASE EpollWaitFails
    BY <1>27 DEF SetupProgress, EpollWaitFails
  <1>28. CASE \E a \in live, h \in BOOLEAN : ClientActs(a, h)
    BY Zenon, <1>28 DEF SetupProgress, ClientActs
  <1>29. CASE \E t \in watched : InfrastructureBreaks(t)
    BY Zenon, <1>29 DEF SetupProgress, InfrastructureBreaks
  <1>30. CASE UNCHANGED vars
    BY Zenon, <1>30 DEF SetupProgress, vars
  <1> QED
    BY ZenonT(60), <1>1, <1>2, <1>3, <1>4, <1>5, <1>6, <1>7, <1>8, <1>9, <1>10,
       <1>11, <1>12, <1>13, <1>14, <1>15, <1>16, <1>17, <1>18, <1>19, <1>20,
       <1>21, <1>22, <1>23, <1>24, <1>25, <1>26, <1>27, <1>28, <1>29, <1>30,
       <1>31 DEF Next, LoopStep, World, Over

(* Whatever path it takes out, nothing is left open. *)
LEMMA LeakStep ==
  ASSUME TypeOK, Linked, SetupProgress, NothingLeaks, [Next]_vars
  PROVE  NothingLeaks'
  <1>1. CASE SetupCall
    BY ZenonT(60), <1>1 DEF NothingLeaks, SetupCall
  <1>2. CASE SetupFails
    <2>1. /\ step \in 1 .. Len(SetupCalls) + 1
          /\ step <= Len(SetupCalls) /\ live = {}
          /\ own_fds = IF step <= 2 THEN {} ELSE IF step <= 4 THEN {"epoll"}
                       ELSE {"epoll", "timer"}
      BY Zenon, <1>2 DEF TypeOK, SetupProgress, SetupFails
    <2>2. own_fds \ SetupCloses(SetupCalls[step]) = {}
      <3>1. step \in 1 .. 7 BY <2>1, SevenCalls
      <3>2. SetupCloses(SetupCalls[step]) =
              IF step <= 2 THEN {} ELSE IF step <= 4 THEN {"epoll"}
              ELSE {"epoll", "timer"}
        <4>1. CASE step <= 2 BY ZenonT(60), <3>1, <4>1, Calls DEF SetupCloses
        <4>2. CASE step = 3 \/ step = 4
          <5>1. ~(step <= 2) /\ step <= 4 BY <3>1, <4>2
          <5> QED BY Zenon, <3>1, <4>2, <5>1, Calls DEF SetupCloses
        <4>3. CASE step > 4
          <5>1. ~(step <= 2) /\ ~(step <= 4) /\ step # 3 /\ step # 4
            BY <3>1, <4>3
          <5> QED BY Zenon, <3>1, <5>1, Calls DEF SetupCloses
        <4> QED BY <3>1, <4>1, <4>2, <4>3
      <3> QED BY Zenon, <2>1, <3>2
    <2> QED BY Zenon, <1>2, <2>1, <2>2 DEF NothingLeaks, SetupFails
  <1>3. CASE EpollWait
    BY <1>3 DEF NothingLeaks, EpollWait
  <1>4. CASE BatchDone
    BY <1>4 DEF NothingLeaks, BatchDone
  <1>5. CASE InfrastructureError
    BY <1>5 DEF NothingLeaks, InfrastructureError, Stop, Take
  <1>6. CASE Shutdown
    BY <1>6 DEF NothingLeaks, Shutdown, Stop, Take
  <1>7. CASE Listen
    BY <1>7 DEF NothingLeaks, Listen, Take
  <1>8. CASE Timer
    BY <1>8 DEF NothingLeaks, Timer, Take
  <1>9. CASE HangUp
    BY <1>9 DEF NothingLeaks, HangUp, Take
  <1>10. CASE HandlerCloses
    BY <1>10 DEF NothingLeaks, HandlerCloses, Take
  <1>11. CASE HandlerReadsOrFinishes
    BY <1>11 DEF NothingLeaks, HandlerReadsOrFinishes, Take
  <1>12. CASE HandlerWritesSome
    BY <1>12 DEF NothingLeaks, HandlerWritesSome, Take
  <1>13. CASE HandlerFindsNothing
    BY <1>13 DEF NothingLeaks, HandlerFindsNothing, Take
  <1>14. CASE FreedConnection
    BY <1>14 DEF NothingLeaks, FreedConnection, Take
  <1>15. CASE Accept
    BY <1>15 DEF NothingLeaks, Accept, AcceptMore
  <1>16. CASE AcceptLoses
    BY <1>16 DEF NothingLeaks, AcceptLoses, AcceptMore
  <1>31. CASE AcceptUndone
    BY <1>31 DEF NothingLeaks, AcceptUndone, AcceptMore
  <1>17. CASE AcceptDry
    BY <1>17 DEF NothingLeaks, AcceptDry
  <1>18. CASE AcceptGivesUp
    BY <1>18 DEF NothingLeaks, AcceptGivesUp
  <1>19. CASE SweepNext
    BY <1>19 DEF NothingLeaks, SweepNext
  <1>20. CASE SweepDone
    BY <1>20 DEF NothingLeaks, SweepDone
  <1>21. CASE CloseNext
    BY <1>21 DEF NothingLeaks, CloseNext
  <1>22. CASE Return BY Zenon, <1>22 DEF NothingLeaks, Return, Linked, Sorted
  <1>23. CASE Tick
    BY <1>23 DEF NothingLeaks, Tick
  <1>24. CASE ClockIsSet
    BY <1>24 DEF NothingLeaks, ClockIsSet
  <1>25. CASE ClientConnects
    BY <1>25 DEF NothingLeaks, ClientConnects
  <1>26. CASE Signal
    BY <1>26 DEF NothingLeaks, Signal
  <1>27. CASE EpollWaitFails
    BY <1>27 DEF NothingLeaks, EpollWaitFails
  <1>28. CASE \E a \in live, h \in BOOLEAN : ClientActs(a, h)
    BY <1>28 DEF NothingLeaks, ClientActs
  <1>29. CASE \E t \in watched : InfrastructureBreaks(t)
    BY <1>29 DEF NothingLeaks, InfrastructureBreaks
  <1>30. CASE UNCHANGED vars
    BY Zenon, <1>30 DEF NothingLeaks, vars
  <1> QED
    BY ZenonT(60), <1>1, <1>2, <1>3, <1>4, <1>5, <1>6, <1>7, <1>8, <1>9, <1>10,
       <1>11, <1>12, <1>13, <1>14, <1>15, <1>16, <1>17, <1>18, <1>19, <1>20,
       <1>21, <1>22, <1>23, <1>24, <1>25, <1>26, <1>27, <1>28, <1>29, <1>30,
       <1>31 DEF Next, LoopStep, World, Over

-----------------------------------------------------------------------------
(* The accept queue. *)

(* No connection is taken for the listen socket. *)
LEMMA ListenIsNoAddress == "listen" \notin Addrs
  BY EventLoopAssumption

(* A sleeping loop has looked at everything it was told of. *)
LEMMA AsleepIsDrained ==
  ASSUME SetupProgress, QueueIsSeen, Asleep PROVE backlog = 0 \/ gave_up
  <1>1. pc = "epoll_wait" /\ rdlist = <<>> /\ batch = <<>> /\ "listen" \in watched
    BY Zenon DEF SetupProgress, Asleep
  <1>2. Len(rdlist) = 0 /\ Len(batch) = 0 BY <1>1
  <1>3. ~InList("listen") /\ ~InBatch("listen") BY <1>2 DEF InList, InBatch
  <1> QED BY Zenon, <1>1, <1>3 DEF QueueIsSeen

(* No step forgets a client in the queue. *)
LEMMA QueueStep ==
  ASSUME TypeOK, CursorIsLive, SetupProgress, QueueIsSeen, [Next]_vars
  PROVE  QueueIsSeen'
  <1> USE DEF QueueIsSeen, InList, InBatch
  <1>1. CASE SetupCall
    <2> DEFINE call == SetupCalls[step]
    <2>1. "listen" \in Tags /\ "shutdown" \in Tags /\ rdlist \in Seq(Tags)
      BY Zenon DEF TypeOK, Tags, Infrastructure
    <2>2. rdlist' \in {Enqueue("listen"), Enqueue("shutdown"), rdlist}
      BY ZenonT(60), <1>1 DEF SetupCall
    <2>9. /\ \E k \in 1 .. Len(Enqueue("listen")) : Enqueue("listen")[k] = "listen"
          /\ InList("listen") =>
               \E k \in 1 .. Len(Enqueue("shutdown")) :
                 Enqueue("shutdown")[k] = "listen"
      BY Zenon, <2>1, EnqueueKeeps
    <2>3. InList("listen") => InList("listen")'
      <3> HIDE DEF Enqueue
      <3>1. CASE rdlist' = Enqueue("listen") BY Zenon, <2>9, <3>1
      <3>2. CASE rdlist' = Enqueue("shutdown") BY Zenon, <2>9, <3>2
      <3>3. CASE rdlist' = rdlist BY Zenon, <3>3
      <3> QED BY Zenon, <2>2, <3>1, <3>2, <3>3
    <2>4. call = "add listen" /\ backlog > 0 => rdlist' = Enqueue("listen")
      BY ZenonT(60), <1>1 DEF SetupCall
    <2>5. call = "add listen" /\ backlog > 0 => InList("listen")'
      BY Zenon, <2>4, <2>9
    <2>6. call # "add listen" => ("listen" \in watched' <=> "listen" \in watched)
      BY ZenonT(60), <1>1 DEF SetupCall
    <2>7. backlog > 0 \/ backlog = 0 BY DEF TypeOK
    <2>8. /\ pc = "setup" /\ UNCHANGED <<backlog, gave_up, batch>>
      BY Zenon, <1>1 DEF SetupCall
    <2> HIDE DEF InList, call
    <2> QED BY ZenonT(60), <2>3, <2>5, <2>6, <2>7, <2>8
  <1>2. CASE SetupFails
    BY Zenon, <1>2 DEF SetupFails
  <1>3. CASE EpollWait
    <2>1. InList("listen") => InList("listen")' \/ InBatch("listen")'
      BY ZenonT(60), <1>3, WaitReports
    <2>2. ~InBatch("listen")
      <3>1. Len(batch) = 0 BY <1>3 DEF SetupProgress, EpollWait
      <3> QED BY <3>1
    <2> HIDE DEF InList, InBatch
    <2> QED BY Zenon, <1>3, <2>1, <2>2 DEF EpollWait
  <1>4. CASE BatchDone
    BY Zenon, <1>4 DEF BatchDone
  <1>5. CASE InfrastructureError
    BY Zenon, <1>5 DEF InfrastructureError, Stop
  <1>6. CASE Shutdown
    BY Zenon, <1>6 DEF Shutdown, Stop
  <1>7. CASE Listen
    BY Zenon, <1>7 DEF Listen
  <1>8. CASE Timer
    <2>1. Head(batch).tag # "listen" /\ pc = "dispatch"
      BY Zenon, <1>8 DEF Timer, Take
    <2> QED BY Zenon, <1>8, <2>1, TakeKeeps DEF Timer
  <1>9. CASE HangUp
    <2>1. Head(batch).tag \in Addrs /\ Head(batch).tag # "listen"
      BY ZenonT(60), <1>9, TakeKeeps, ListenIsNoAddress DEF TypeOK, HangUp
    <2>2. InList("listen") => InList("listen")'
      BY Zenon, <1>9, <2>1, CloseKeeps DEF HangUp
    <2>3. InBatch("listen") => InBatch("listen")'
      BY Zenon, <1>9, <2>1, TakeKeeps DEF HangUp
    <2> HIDE DEF InList, InBatch
    <2> QED BY ZenonT(60), <1>9, <2>2, <2>3 DEF HangUp
  <1>10. CASE HandlerCloses
    <2>1. Head(batch).tag \in Addrs /\ Head(batch).tag # "listen"
      BY ZenonT(60), <1>10, TakeKeeps, ListenIsNoAddress DEF TypeOK, HandlerCloses
    <2>2. InList("listen") => InList("listen")'
      BY Zenon, <1>10, <2>1, CloseKeeps DEF HandlerCloses
    <2>3. InBatch("listen") => InBatch("listen")'
      BY Zenon, <1>10, <2>1, TakeKeeps DEF HandlerCloses
    <2> HIDE DEF InList, InBatch
    <2> QED BY Zenon, <1>10, <2>2, <2>3 DEF HandlerCloses
  <1>11. CASE HandlerReadsOrFinishes
    <2>0. Head(batch).tag \in live /\ pc = "dispatch"
      BY Zenon, <1>11 DEF HandlerReadsOrFinishes, Take
    <2>1. Head(batch).tag # "listen" /\ pc = "dispatch"
      BY ZenonT(60), <2>0, ListenIsNoAddress DEF TypeOK
    <2> QED BY Zenon, <1>11, <2>1, TakeKeeps DEF HandlerReadsOrFinishes
  <1>12. CASE HandlerWritesSome
    <2>1. Head(batch).tag \in {a \in live : awaiting_writable[a]}
      BY ZenonT(60), <1>12 DEF HandlerWritesSome, Take
    <2>2. Head(batch).tag # "listen" BY <2>1, EventLoopAssumption DEF TypeOK
    <2> QED BY Zenon, <1>12, <2>2, TakeKeeps DEF HandlerWritesSome
  <1>13. CASE HandlerFindsNothing
    <2>0. Head(batch).tag \in live /\ pc = "dispatch"
      BY Zenon, <1>13 DEF HandlerFindsNothing, Take
    <2>1. Head(batch).tag # "listen" /\ pc = "dispatch"
      BY ZenonT(60), <2>0, ListenIsNoAddress DEF TypeOK
    <2> QED BY Zenon, <1>13, <2>1, TakeKeeps DEF HandlerFindsNothing
  <1>14. CASE FreedConnection
    BY Zenon, <1>14 DEF FreedConnection
  <1>15. CASE Accept
    BY Zenon, <1>15 DEF Accept, AcceptMore
  <1>16. CASE AcceptLoses
    BY Zenon, <1>16 DEF AcceptLoses, AcceptMore
  <1>31. CASE AcceptUndone
    <2>1. pc = "unregistered" /\ pc' \in {"accept", "dispatch"}
      BY Zenon, <1>31 DEF AcceptUndone, AcceptMore
    <2> QED BY Zenon, <1>31, <2>1 DEF AcceptUndone, AcceptMore
  <1>17. CASE AcceptDry
    BY Zenon, <1>17 DEF AcceptDry
  <1>18. CASE AcceptGivesUp
    BY Zenon, <1>18 DEF AcceptGivesUp
  <1>19. CASE SweepNext
    <2>1. cur \in Addrs BY ZenonT(60), <1>19 DEF TypeOK, SweepNext, Pointer
    <2>2. InList("listen") => InList("listen")'
      BY Zenon, <1>19, <2>1, CloseKeeps DEF SweepNext
    <2>3. InBatch("listen") => InBatch("listen")' BY Zenon, <1>19 DEF SweepNext
    <2> HIDE DEF InList, InBatch
    <2> QED BY Zenon, <1>19, <2>2, <2>3 DEF SweepNext
  <1>20. CASE SweepDone
    BY Zenon, <1>20 DEF SweepDone
  <1>21. CASE CloseNext
    BY Zenon, <1>21 DEF CloseNext
  <1>22. CASE Return
    BY Zenon, <1>22 DEF Return
  <1>23. CASE Tick BY Zenon, <1>23, AsleepIsDrained DEF Tick
  <1>24. CASE ClockIsSet
    BY Zenon, <1>24 DEF ClockIsSet
  <1>25. CASE ClientConnects
    <2>1. "listen" \in Tags /\ rdlist \in Seq(Tags)
      BY Zenon DEF TypeOK, Tags, Infrastructure
    <2>2. "listen" \in watched => InList("listen")'
      BY Zenon, <1>25, <2>1, EnqueueKeeps DEF ClientConnects
    <2> HIDE DEF InList
    <2> QED BY Zenon, <1>25, <2>2 DEF ClientConnects
  <1>26. CASE Signal
    <2>1. "shutdown" \in Tags /\ rdlist \in Seq(Tags)
      BY Zenon DEF TypeOK, Tags, Infrastructure
    <2>2. InList("listen") => InList("listen")'
      BY Zenon, <1>26, <2>1, EnqueueKeeps DEF Signal
    <2> HIDE DEF InList
    <2> QED BY Zenon, <1>26, <2>2 DEF Signal
  <1>27. CASE EpollWaitFails
    BY Zenon, <1>27 DEF EpollWaitFails
  <1>28. CASE \E a \in live, h \in BOOLEAN : ClientActs(a, h)
    <2>1. PICK a \in live, h \in BOOLEAN : ClientActs(a, h) BY ZenonT(60), <1>28
    <2>2. a \in Tags /\ rdlist \in Seq(Tags) BY Zenon DEF TypeOK, Tags
    <2>3. InList("listen") => InList("listen")'
      BY Zenon, <2>1, <2>2, EnqueueKeeps DEF ClientActs
    <2> HIDE DEF InList
    <2> QED BY Zenon, <2>1, <2>3 DEF ClientActs
  <1>29. CASE \E t \in watched : InfrastructureBreaks(t)
    <2>1. PICK t \in watched : InfrastructureBreaks(t) BY Zenon, <1>29
    <2>2. t \in Tags /\ rdlist \in Seq(Tags) BY Zenon DEF TypeOK, Tags
    <2>3. InList("listen") => InList("listen")'
      BY Zenon, <2>1, <2>2, EnqueueKeeps DEF InfrastructureBreaks
    <2> HIDE DEF InList
    <2> QED BY Zenon, <2>1, <2>3 DEF InfrastructureBreaks
  <1>30. CASE UNCHANGED vars
    BY Zenon, <1>30 DEF vars
  <1> QED
    BY ZenonT(60), <1>1, <1>2, <1>3, <1>4, <1>5, <1>6, <1>7, <1>8, <1>9, <1>10,
       <1>11, <1>12, <1>13, <1>14, <1>15, <1>16, <1>17, <1>18, <1>19, <1>20,
       <1>21, <1>22, <1>23, <1>24, <1>25, <1>26, <1>27, <1>28, <1>29, <1>30,
       <1>31 DEF Next, LoopStep, World, Over

-----------------------------------------------------------------------------
(* The inductive invariant, and what follows from it. *)

(* event_loop_run() starts with nothing. *)
LEMMA InitStep == ASSUME Init PROVE IInv
  <1>1. TypeOK
    <2>1. /\ now \in Nat /\ skew \in Int /\ backlog \in Nat /\ arrivals \in Nat
          /\ timer \in Nat /\ status \in {0, -1}
      BY EventLoopAssumption DEF Init
    <2>2. /\ signalled \in BOOLEAN /\ broken \subseteq Tags
          /\ watched \subseteq Infrastructure /\ stale \subseteq Addrs
          /\ own_fds \subseteq {"epoll", "timer"} /\ gave_up \in BOOLEAN
          /\ live \subseteq Addrs /\ connections \in Pointer /\ cur \in Pointer
          /\ pc \in Places
      BY Zenon DEF Init, Pointer, Places
    <2>3. rdlist \in Seq(Tags) /\ batch \in Seq(Event) BY DEF Init
    <2>4. step \in 1 .. Len(SetupCalls) + 1 BY SevenCalls DEF Init
    <2>5. /\ prev \in [Addrs -> Pointer] /\ next \in [Addrs -> Pointer]
          /\ awaiting_writable \in [Addrs -> BOOLEAN]
      BY Zenon DEF Init, Pointer
    <2>6. /\ last_activity \in [Addrs -> Int]
          /\ touched \in [Addrs -> Nat] /\ moved \in [Addrs -> Nat]
      BY DEF Init
    <2> QED BY ZenonT(60), <2>1, <2>2, <2>3, <2>4, <2>5, <2>6 DEF TypeOK
  <1>2. Linked
    <2>1. [a \in Addrs |-> 0] \in [Addrs -> Int] OBVIOUS
    <2>2. Sorted(live, connections, next, prev, [a \in Addrs |-> 0])
      BY Zenon DEF Init, Sorted
    <2> QED BY Zenon, <2>1, <2>2 DEF Linked
  <1>3. CursorIsLive /\ NothingLeaks BY DEF Init, CursorIsLive, NothingLeaks
  <1>4. SetupProgress BY SevenCalls DEF Init, SetupProgress
  <1>5. QueueIsSeen BY Zenon DEF Init, QueueIsSeen
  <1> QED BY ZenonT(60), <1>1, <1>2, <1>3, <1>4, <1>5 DEF IInv

(* Every step of the loop and of the world keeps the invariant. *)
LEMMA NextStep == ASSUME IInv, [Next]_vars PROVE IInv'
  BY Zenon, TypeStep, LinkedStep, CursorStep, SetupStep, QueueStep, LeakStep
     DEF IInv

(* The inductive invariant. *)
THEOREM Invariance == Spec => []IInv
  BY InitStep, NextStep, PTL DEF Spec

(* Every variable of the loop, its connections and the kernel's queues     *)
(* keeps its type, for any number of connections and any batch size.       *)
THEOREM TypeCorrect == Spec => []TypeOK
  <1>1. IInv => TypeOK BY Zenon DEF IInv
  <1> QED BY <1>1, Invariance, PTL

(* The sweep's saved cursor is never a freed connection, however many      *)
(* there are: list_remove() leaves the list in order of acceptance, so the *)
(* successor is another connection.                                        *)
THEOREM SweepIsSafe == Spec => []CursorIsLive
  <1>1. IInv => CursorIsLive BY Zenon DEF IInv
  <1> QED BY <1>1, Invariance, PTL

(* No edge of the listen socket is lost: a loop that sleeps with clients   *)
(* queued has had an accept4() error, whatever MAX_EVENTS leaves for the   *)
(* next batch.                                                             *)
THEOREM AcceptEdgesAreKept == Spec => []AcceptQueueDrained
  <1>1. IInv => AcceptQueueDrained
    BY Zenon, AsleepIsDrained DEF IInv, AcceptQueueDrained
  <1> QED BY <1>1, Invariance, PTL

(* On every path out of event_loop_run() its connections, its epoll        *)
(* instance and its timer are gone.                                        *)
THEOREM NothingIsLeaked == Spec => []NothingLeaks
  <1>1. IInv => NothingLeaks BY Zenon DEF IInv
  <1> QED BY <1>1, Invariance, PTL

-----------------------------------------------------------------------------
(* The loop implements LoopContract. *)

(* What the caller sees at each place of the code. *)
LEMMA Phases ==
  ASSUME pc \in Places
  PROVE  /\ phase = "setup" <=> pc = "setup"
         /\ phase = "running" <=> Up
         /\ phase = "stopping" <=> pc = "teardown"
         /\ phase = "returned" <=> pc = "returned"
         /\ phase = "undefined" <=> pc = "undefined"
  BY DEF phase, Places, Up

(* A step of the loop is a step of the contract or none at all. *)
LEMMA ContractStep ==
  ASSUME TypeOK, TypeOK', [Next]_vars PROVE [Contract!Next]_Contract!vars
  <1>1. pc \in Places /\ pc' \in Places /\ status \in {0, -1} /\ status' \in {0, -1}
    BY Zenon DEF TypeOK
  <1>2. /\ phase = "setup" <=> pc = "setup"
        /\ phase = "running" <=> Up
        /\ phase = "stopping" <=> pc = "teardown"
    BY Zenon, <1>1, Phases
  <1>3. /\ phase' = "setup" <=> pc' = "setup"
        /\ phase' = "running" <=> Up'
        /\ phase' = "stopping" <=> pc' = "teardown"
        /\ phase' = "returned" <=> pc' = "returned"
        /\ phase' = "undefined" <=> pc' = "undefined"
    BY <1>1 DEF phase, Places, Up
  <1>4. pc' = pc => phase' = phase BY Zenon DEF phase
  <1>5. CASE SetupCall
    <2>1. /\ pc = "setup" /\ pc' \in {"setup", "epoll_wait"}
          /\ UNCHANGED <<status, signalled>>
      BY Zenon, <1>5 DEF SetupCall
    <2> QED BY <1>2, <1>3, <2>1 DEF Contract!Next, Contract!Starts,
               Contract!vars
  <1>6. CASE SetupFails
    BY Zenon, <1>6, <1>2, <1>3 DEF SetupFails, Contract!Next,
       Contract!StartFails
  <1>7. CASE InfrastructureError \/ Shutdown \/ EpollWaitFails
    <2>1. /\ pc \in {"dispatch", "epoll_wait"} /\ pc' = "teardown"
          /\ UNCHANGED signalled
      BY Zenon, <1>7 DEF InfrastructureError, Shutdown, EpollWaitFails, Take,
         Stop
    <2> QED BY Zenon, <1>1, <1>2, <1>3, <2>1 DEF Contract!Next, Contract!Stops
  <1>8. CASE Return
    BY Zenon, <1>8, <1>2, <1>3 DEF Return, Contract!Next, Contract!Returns
  <1>9. CASE FreedConnection
    <2>1. pc = "dispatch" /\ pc' = "undefined" /\ UNCHANGED <<status, signalled>>
      BY Zenon, <1>9 DEF FreedConnection, Take
    <2> QED BY Zenon, <1>2, <1>3, <2>1 DEF Contract!Next, Contract!Undefined
  <1>10. CASE Signal
    BY Zenon, <1>10, <1>4 DEF Signal, Contract!Next, Contract!Signal
  <1>11. CASE \/ EpollWait \/ BatchDone \/ Listen \/ Timer
              \/ Accept \/ AcceptUndone \/ AcceptLoses \/ AcceptDry
              \/ AcceptGivesUp \/ SweepDone
    <2>1. Up /\ Up'
      BY ZenonT(60), <1>11 DEF Up, EpollWait, BatchDone, Listen, Timer, Take,
         Accept, AcceptUndone, AcceptLoses, AcceptDry, AcceptGivesUp, AcceptMore,
         SweepDone
    <2>2. UNCHANGED <<status, signalled>>
      BY ZenonT(60), <1>11 DEF EpollWait, BatchDone, Listen, Timer, Accept,
         AcceptUndone, AcceptLoses, AcceptDry, AcceptGivesUp, SweepDone
    <2> QED BY Zenon, <1>2, <1>3, <2>1, <2>2 DEF Contract!vars
  <1>12. CASE \/ HangUp \/ HandlerCloses \/ HandlerReadsOrFinishes
              \/ HandlerWritesSome \/ HandlerFindsNothing \/ SweepNext \/ CloseNext
    <2>1. UNCHANGED <<pc, status, signalled>>
      BY Zenon, <1>12 DEF HangUp, HandlerCloses, HandlerReadsOrFinishes,
         HandlerWritesSome, HandlerFindsNothing, SweepNext, CloseNext
    <2> QED BY Zenon, <1>4, <2>1 DEF Contract!vars
  <1>13. CASE \/ Tick \/ ClockIsSet \/ ClientConnects
              \/ \E a \in live, h \in BOOLEAN : ClientActs(a, h)
              \/ \E t \in watched : InfrastructureBreaks(t)
              \/ UNCHANGED vars
    <2>1. UNCHANGED <<pc, status, signalled>>
      BY Zenon, <1>13 DEF Tick, ClockIsSet, ClientConnects, ClientActs,
         InfrastructureBreaks, vars
    <2> QED BY Zenon, <1>4, <2>1 DEF Contract!vars
  <1> QED
    BY ZenonT(60), <1>5, <1>6, <1>7, <1>8, <1>9, <1>10, <1>11, <1>12, <1>13
       DEF Next, LoopStep, World, Over

(* event_loop_run() is to its caller what LoopContract says, on which      *)
(* WorkerPool is built: it starts or fails once, stops once, and returns   *)
(* the status it stopped with.                                             *)
THEOREM LoopMeetsContract == Spec => ImplementsContract
  <1>1. Init => Contract!Init
    BY Zenon DEF Init, phase, Contract!Init
  <1>2. TypeOK /\ TypeOK' /\ [Next]_vars => [Contract!Next]_Contract!vars
    BY Zenon, ContractStep
  <1> QED
    BY <1>1, <1>2, TypeCorrect, PTL DEF Spec, ImplementsContract, Contract!Spec
-----------------------------------------------------------------------------
(***************************************************************************)
(* The idle sweep, for every timeout, sweep interval, clock resolution and *)
(* number of connections, and whatever the wall clock is set to; and the   *)
(* list it walks.                                                          *)
(***************************************************************************)

period == IDLE_SWEEP_INTERVAL_SECONDS * TicksPerSecond
idle   == idle_timeout_seconds * TicksPerSecond

Settings == Skews \cup {0}

(* last_activity is the tick of the last activity, by some setting of the  *)
(* wall clock, rounded.                                                    *)
Stamps ==
  /\ skew \in Settings
  /\ \A a \in live : \E s \in Settings :
       last_activity[a] = (touched[a] + s) \div TicksPerSecond

Says(err) ==
  \E k \in 1 .. Len(batch) : batch[k].tag = "timer" /\ batch[k].err = err

(* timer - period is when the timer last expired, or was armed.  Until the *)
(* sweep it caused is over, the clock stands there; a broken timer is      *)
(* about to end the loop.                                                  *)
TimerRuns ==
  /\ pc = "setup" => broken = {}
  /\ pc = "setup" /\ step > 5 => now = timer - period
  /\ Up => timer - period <= now /\ now < timer
  /\ Up /\ "timer" \notin broken /\ InList("timer") => now = timer - period
  /\ Up /\ Says(FALSE) => now = timer - period
  /\ pc = "sweep" => now = timer - period
  /\ Up /\ "timer" \in broken => InList("timer") \/ Says(TRUE)

(* The connection had not expired at the timer's last expiration, or only  *)
(* by a jump of the clock.                                                 *)
Fresh(a) == timer - period - touched[a] < idle + MaxJump

SweepToCome == InList("timer") \/ InBatch("timer")

(* A connection is fresh, or the sweep has yet to come to it. *)
Swept ==
  /\ Up /\ pc # "sweep" => \A a \in live : Fresh(a) \/ SweepToCome
  /\ pc = "sweep" =>
       \E r \in [Addrs -> Int] :
         /\ Sorted(live, connections, next, prev, r)
         /\ \A a \in live :
              Fresh(a) \/ SweepToCome \/ (cur # NULL /\ r[a] <= r[cur])

TInv == IInv /\ Stamps /\ TimerRuns /\ Swept

USE DEF world, epoll, list, clocks, rest

-----------------------------------------------------------------------------
(* Whole seconds and ticks. *)

(* Products with the clock's resolution, for the solver's sake. *)
LEMMA Products ==
  ASSUME NEW T \in Nat \ {0}, NEW a \in Int, NEW b \in Int
  PROVE  /\ T * a \in Int /\ T * b \in Int /\ T * (a - b) = T * a - T * b
         /\ a <= b => T * a <= T * b
  OBVIOUS

(* Division rounds down. *)
LEMMA Rounds ==
  ASSUME NEW T \in Nat \ {0}, NEW x \in Int
  PROVE  /\ x \div T \in Int
         /\ T * (x \div T) <= x /\ x < T * (x \div T) + T
  OBVIOUS

(* Less than k seconds apart by time(): less than k seconds apart. *)
LEMMA LessApart ==
  ASSUME NEW T \in Nat \ {0}, NEW x \in Int, NEW y \in Int, NEW k \in Nat \ {0},
         x \div T - y \div T < k
  PROVE  x - y < T * k
  <1> DEFINE p == x \div T
             q == y \div T
  <1>1. /\ p \in Int /\ T * p <= x /\ x < T * p + T
        /\ q \in Int /\ T * q <= y /\ y < T * q + T
    BY Rounds
  <1>2. p - q <= k - 1 BY <1>1
  <1> HIDE DEF p, q
  <1>3. /\ T * (p - q) = T * p - T * q /\ T * p \in Int /\ T * q \in Int
        /\ p - q \in Int /\ k - 1 \in Int
    BY <1>1, Products
  <1>4. T * (p - q) <= T * (k - 1) BY <1>2, <1>3, Products
  <1>5. T * (k - 1) = T * k - T * 1 /\ T * 1 = T /\ T * k \in Int BY Products
  <1> QED BY <1>1, <1>3, <1>4, <1>5

(* k seconds apart by time(): more than k - 1 seconds apart. *)
LEMMA MoreApart ==
  ASSUME NEW T \in Nat \ {0}, NEW x \in Int, NEW y \in Int, NEW k \in Nat \ {0},
         x \div T - y \div T >= k
  PROVE  x - y > T * (k - 1)
  <1> DEFINE p == x \div T
             q == y \div T
  <1>1. /\ p \in Int /\ T * p <= x /\ x < T * p + T
        /\ q \in Int /\ T * q <= y /\ y < T * q + T
    BY Rounds
  <1>2. k <= p - q BY <1>1
  <1> HIDE DEF p, q
  <1>3. /\ T * (p - q) = T * p - T * q /\ T * p \in Int /\ T * q \in Int
        /\ p - q \in Int
    BY <1>1, Products
  <1>4. T * k <= T * (p - q) BY <1>2, <1>3, Products
  <1>5. T * (k - 1) = T * k - T * 1 /\ T * 1 = T /\ T * k \in Int BY Products
  <1> QED BY <1>1, <1>3, <1>4, <1>5

(* Two settings of the clock are no more than MaxJump apart. *)
LEMMA Jumps ==
  /\ MaxJump \in Nat
  /\ \A s, t \in Settings : s \in Int /\ t \in Int /\ s - t <= MaxJump
  BY EventLoopAssumption DEF Settings

(* The two times in ticks. *)
LEMMA Spans ==
  /\ period \in Nat \ {0} /\ idle \in Nat \ {0}
  /\ idle = TicksPerSecond * idle_timeout_seconds
  /\ (idle_timeout_seconds + IDLE_SWEEP_INTERVAL_SECONDS) * TicksPerSecond
       = idle + period
  /\ (idle_timeout_seconds - 1) * TicksPerSecond
       = TicksPerSecond * (idle_timeout_seconds - 1)
  <1> DEFINE T == TicksPerSecond
             i == IDLE_SWEEP_INTERVAL_SECONDS
             d == idle_timeout_seconds
  <1>1. T \in Nat \ {0} /\ i \in Nat \ {0} /\ d \in Nat \ {0}
    BY EventLoopAssumption
  <1> HIDE DEF T, i, d
  <1>2. i * T \in Nat \ {0} /\ d * T \in Nat \ {0} BY <1>1
  <1>3. d * T = T * d /\ (d - 1) * T = T * (d - 1) BY <1>1
  <1>4. (d + i) * T = d * T + i * T BY <1>1
  <1> QED BY <1>2, <1>3, <1>4 DEF T, i, d, period, idle

-----------------------------------------------------------------------------
(* Nothing comes onto the ready list or into a batch from nowhere. *)

(* Enqueue() adds only its argument. *)
LEMMA EnqueueOnly ==
  ASSUME rdlist \in Seq(Tags), NEW t \in Tags,
         NEW k \in 1 .. Len(Enqueue(t))
  PROVE  InList(Enqueue(t)[k]) \/ Enqueue(t)[k] = t
  <1>1. CASE InList(t) BY Zenon, <1>1 DEF Enqueue, InList
  <1>2. CASE ~InList(t)
    <2>1. Enqueue(t) = Append(rdlist, t) BY Zenon, <1>2 DEF Enqueue
    <2>2. /\ Len(Append(rdlist, t)) = Len(rdlist) + 1 /\ Len(rdlist) \in Nat
          /\ Append(rdlist, t)[Len(rdlist) + 1] = t
          /\ \A j \in 1 .. Len(rdlist) : Append(rdlist, t)[j] = rdlist[j]
      OBVIOUS
    <2>3. k \in 1 .. Len(rdlist) \/ k = Len(rdlist) + 1 BY <2>1, <2>2
    <2> QED BY Zenon, <2>1, <2>2, <2>3 DEF InList
  <1> QED BY Zenon, <1>1, <1>2

(* Dequeue() adds nothing. *)
LEMMA DequeueOnly ==
  ASSUME rdlist \in Seq(Tags), NEW t \in Tags,
         NEW k \in 1 .. Len(Dequeue(t))
  PROVE  InList(Dequeue(t)[k])
  <1>1. CASE ~InList(t) BY Zenon, <1>1 DEF Dequeue, InList
  <1>2. CASE InList(t)
    <2> DEFINE i == CHOOSE i \in 1 .. Len(rdlist) : rdlist[i] = t
               x == SubSeq(rdlist, 1, i - 1)
               y == SubSeq(rdlist, i + 1, Len(rdlist))
    <2>1. i \in 1 .. Len(rdlist) /\ rdlist[i] = t BY Zenon, <1>2 DEF InList
    <2>2. Dequeue(t) = x \o y BY Zenon, <1>2 DEF Dequeue
    <2>3. Len(rdlist) \in Nat /\ \A j \in 1 .. Len(rdlist) : rdlist[j] \in Tags
      OBVIOUS
    <2> HIDE DEF i
    <2>4. /\ i \in Int /\ i - 1 \in Int /\ i + 1 \in Int /\ Len(rdlist) \in Int
          /\ \A j \in 1 .. i - 1 : rdlist[j] \in Tags
          /\ \A j \in i + 1 .. Len(rdlist) : rdlist[j] \in Tags
      BY <2>1, <2>3
    <2>5. /\ x \in Seq(Tags) /\ Len(x) = IF 1 <= i - 1 THEN i - 1 - 1 + 1 ELSE 0
          /\ \A j \in 1 .. i - 1 - 1 + 1 : x[j] = rdlist[1 + j - 1]
      BY <2>4, SubSeqProperties
    <2>6. /\ y \in Seq(Tags)
          /\ Len(y) = IF i + 1 <= Len(rdlist) THEN Len(rdlist) - (i + 1) + 1 ELSE 0
          /\ \A j \in 1 .. Len(rdlist) - (i + 1) + 1 : y[j] = rdlist[i + 1 + j - 1]
      BY <2>4, SubSeqProperties
    <2> HIDE DEF x, y
    <2>7. /\ x \o y \in Seq(Tags) /\ Len(x \o y) = Len(x) + Len(y)
          /\ \A j \in 1 .. Len(x) + Len(y) :
               (x \o y)[j] = IF j <= Len(x) THEN x[j] ELSE y[j - Len(x)]
      BY ZenonT(60), <2>5, <2>6, ConcatProperties
    <2>8. /\ Len(x) = i - 1 /\ Len(y) = Len(rdlist) - i
          /\ \A j \in 1 .. i - 1 : x[j] = rdlist[j]
          /\ \A j \in 1 .. Len(rdlist) - i : y[j] = rdlist[i + j]
      BY <2>1, <2>3, <2>5, <2>6
    <2>9. k \in 1 .. Len(x \o y) BY Zenon, <2>2
    <2>10. CASE k < i
      <3>1. k \in 1 .. Len(rdlist) /\ (x \o y)[k] = rdlist[k]
        BY <2>1, <2>3, <2>7, <2>8, <2>9, <2>10
      <3> QED BY ZenonT(60), <2>2, <3>1 DEF InList
    <2>11. CASE k >= i
      <3>1. k + 1 \in 1 .. Len(rdlist) /\ k - (i - 1) \in 1 .. Len(rdlist) - i
        BY <2>1, <2>3, <2>7, <2>8, <2>9, <2>11
      <3>2. (x \o y)[k] = y[k - (i - 1)] BY <2>1, <2>3, <2>7, <2>8, <2>9, <2>11
      <3>3. y[k - (i - 1)] = rdlist[i + (k - (i - 1))] BY Zenon, <2>8, <3>1
      <3>4. i + (k - (i - 1)) = k + 1 BY <2>1, <3>1
      <3> QED BY ZenonT(60), <2>2, <3>1, <3>2, <3>3, <3>4 DEF InList
    <2> QED BY <2>1, <2>10, <2>11
  <1> QED BY Zenon, <1>1, <1>2

(* epoll_wait() reports what was on the ready list, errors included. *)
LEMMA WaitOnly ==
  ASSUME TypeOK, EpollWait
  PROVE  /\ InList("timer")' => InList("timer")
         /\ Says(FALSE)' => InList("timer") /\ "timer" \notin broken
         /\ InList("timer") /\ "timer" \in broken => InList("timer")' \/ Says(TRUE)'
  <1> DEFINE n == AtMost(Len(rdlist), MAX_EVENTS)
             y == SubSeq(rdlist, n + 1, Len(rdlist))
             z == IF \E i \in 1 .. n : rdlist[i] = "shutdown"
                  THEN <<"shutdown">> ELSE <<>>
             e == [i \in 1 .. n |->
                     [tag |-> rdlist[i], err |-> rdlist[i] \in broken]]
  <1>1. batch' = e /\ rdlist' = y \o z BY ZenonT(60) DEF EpollWait
  <1>2. /\ Len(rdlist) \in Nat
        /\ \A k \in 1 .. Len(rdlist) : rdlist[k] \in Tags
    BY DEF TypeOK
  <1>3. n \in Nat /\ n <= Len(rdlist)
    BY <1>2, EventLoopAssumption DEF AtMost
  <1> HIDE DEF n
  <1>4. \A k \in n + 1 .. Len(rdlist) : rdlist[k] \in Tags BY <1>2, <1>3
  <1>5. /\ y \in Seq(Tags)
        /\ Len(y) = IF n + 1 <= Len(rdlist) THEN Len(rdlist) - (n + 1) + 1 ELSE 0
        /\ \A k \in 1 .. Len(rdlist) - (n + 1) + 1 : y[k] = rdlist[n + 1 + k - 1]
    <2>1. n + 1 \in Int /\ Len(rdlist) \in Int BY <1>2, <1>3
    <2> QED BY <1>4, <2>1, SubSeqProperties
  <1>6. /\ z \in Seq(Tags) /\ Len(z) \in Nat
        /\ \A k \in 1 .. Len(z) : z[k] # "timer"
    <2>1. "shutdown" \in Tags BY Zenon DEF Tags, Infrastructure
    <2>2. /\ <<"shutdown">> \in Seq(Tags) /\ <<>> \in Seq(Tags)
          /\ Len(<<"shutdown">>) = 1 /\ Len(<<>>) = 0
          /\ <<"shutdown">>[1] # "timer"
      BY <2>1
    <2>3. CASE z = <<"shutdown">> BY <2>2, <2>3
    <2>4. CASE z = <<>> BY <2>2, <2>4
    <2> QED BY Zenon, <2>3, <2>4
  <1> HIDE DEF y, z
  <1>7. /\ y \o z \in Seq(Tags) /\ Len(y \o z) = Len(y) + Len(z)
        /\ \A k \in 1 .. Len(y) + Len(z) :
             (y \o z)[k] = IF k <= Len(y) THEN y[k] ELSE z[k - Len(y)]
    BY Zenon, <1>5, <1>6, ConcatProperties
  <1>8. /\ DOMAIN e = 1 .. n
        /\ \A k \in 1 .. n :
             e[k].tag = rdlist[k] /\ e[k].err = (rdlist[k] \in broken)
    BY Zenon
  <1>9. Len(e) = n BY <1>3
  <1> HIDE DEF e
  <1>10. ASSUME NEW k \in 1 .. Len(y \o z), (y \o z)[k] = "timer"
         PROVE  InList("timer")
    <2>1. CASE k <= Len(y)
      <3>1. k \in 1 .. Len(rdlist) - (n + 1) + 1 /\ n + k \in 1 .. Len(rdlist)
        BY <2>1, <1>2, <1>3, <1>5
      <3>2. (y \o z)[k] = y[k] BY <2>1, <1>5, <1>6, <1>7
      <3>3. y[k] = rdlist[n + k] BY <3>1, <1>2, <1>3, <1>5
      <3> QED BY ZenonT(60), <1>10, <3>1, <3>2, <3>3 DEF InList
    <2>2. CASE k > Len(y)
      <3>1. k - Len(y) \in 1 .. Len(z) BY <2>2, <1>5, <1>6, <1>7
      <3>2. (y \o z)[k] = z[k - Len(y)] BY <2>2, <1>5, <1>6, <1>7
      <3> QED BY ZenonT(60), <1>10, <3>1, <3>2, <1>6
    <2> QED BY <2>1, <2>2, <1>5
  <1>11. ASSUME NEW k \in 1 .. Len(e), e[k].tag = "timer", e[k].err = FALSE
         PROVE  InList("timer") /\ "timer" \notin broken
    <2>1. k \in 1 .. n /\ k \in 1 .. Len(rdlist) BY <1>2, <1>3, <1>9
    <2> QED BY Zenon, <2>1, <1>8, <1>11 DEF InList
  <1>12. ASSUME InList("timer"), "timer" \in broken
         PROVE  InList("timer")' \/ Says(TRUE)'
    <2>1. PICK k \in 1 .. Len(rdlist) : rdlist[k] = "timer"
      BY Zenon, <1>12 DEF InList
    <2>2. CASE k <= n
      <3>1. k \in 1 .. n /\ k \in 1 .. Len(e) BY <2>2, <1>2, <1>3, <1>9
      <3>2. e[k].tag = "timer" /\ e[k].err = ("timer" \in broken)
        BY ZenonT(60), <3>1, <2>1, <1>8
      <3>3. e[k].err = TRUE BY ZenonT(60), <3>2, <1>12
      <3> QED BY ZenonT(60), <3>1, <3>2, <3>3, <1>1 DEF Says
    <2>3. CASE k > n
      <3>1. Len(y) = Len(rdlist) - n BY <2>3, <1>2, <1>3, <1>5
      <3>2. k - n \in 1 .. Len(y \o z) /\ k - n \in 1 .. Len(y)
        BY <2>3, <3>1, <1>2, <1>3, <1>6, <1>7
      <3>3. (y \o z)[k - n] = y[k - n] BY <3>1, <3>2, <1>2, <1>3, <1>6, <1>7
      <3>4. y[k - n] = rdlist[k] BY <2>3, <3>1, <3>2, <1>2, <1>3, <1>5
      <3> QED BY Zenon, <1>1, <2>1, <3>2, <3>3, <3>4 DEF InList
    <2>4. k <= n \/ k > n BY <2>1, <1>2, <1>3
    <2> QED BY Zenon, <2>2, <2>3, <2>4
  <1> QED BY Zenon, <1>1, <1>10, <1>11, <1>12 DEF InList, Says

(* Taking the head of the batch leaves exactly the rest. *)
LEMMA TakeOnly ==
  ASSUME TypeOK, NEW tags, NEW err, Take(tags, err)
  PROVE  /\ \A b \in BOOLEAN : Says(b)' => Says(b)
         /\ \A b \in BOOLEAN :
              Says(b) /\ (Head(batch).tag # "timer" \/ b # err) => Says(b)'
         /\ Head(batch).tag = "timer" => Says(err)
  <1>1. /\ batch # <<>> /\ batch' = Tail(batch) /\ Head(batch).err = err
        /\ batch \in Seq(Event)
    BY Zenon DEF Take, TypeOK
  <1>2. /\ Head(batch) = batch[1] /\ Len(Tail(batch)) = Len(batch) - 1
        /\ \A i \in 1 .. Len(Tail(batch)) : Tail(batch)[i] = batch[i + 1]
        /\ Len(batch) \in Nat \ {0}
    BY <1>1
  <1>3. ASSUME NEW k \in 1 .. Len(Tail(batch))
        PROVE  \E j \in 1 .. Len(batch) : batch[j] = Tail(batch)[k]
    <2>1. k + 1 \in 1 .. Len(batch) BY <1>2
    <2> QED BY Zenon, <1>2, <2>1
  <1>4. ASSUME NEW k \in 1 .. Len(batch), batch[k] # Head(batch)
        PROVE  \E j \in 1 .. Len(Tail(batch)) : Tail(batch)[j] = batch[k]
    <2>1. k # 1 BY ZenonT(60), <1>2, <1>4
    <2>2. k - 1 \in 1 .. Len(Tail(batch)) /\ k - 1 + 1 = k BY <2>1, <1>2
    <2>3. Tail(batch)[k - 1] = batch[k] BY <2>2, <1>2
    <2> QED BY Zenon, <2>2, <2>3
  <1>5. 1 \in 1 .. Len(batch) BY <1>2
  <1>6. \A b \in BOOLEAN : Says(b)' => Says(b) BY Zenon, <1>1, <1>3 DEF Says
  <1>7. \A b \in BOOLEAN :
          Says(b) /\ (Head(batch).tag # "timer" \/ b # err) => Says(b)'
    BY ZenonT(60), <1>1, <1>4 DEF Says
  <1> QED BY ZenonT(60), <1>1, <1>2, <1>5, <1>6, <1>7 DEF Says

-----------------------------------------------------------------------------
(* What the steps do to the timer's event. *)

(* The timer's place on the ready list, its state and its expiration stay. *)
TimerAlone ==
  /\ now' = now /\ timer' = timer
  /\ InList("timer")' <=> InList("timer")
  /\ ("timer" \in broken') <=> ("timer" \in broken)

(* No connection has the timer's tag. *)
LEMMA TimerIsNoAddress == "timer" \notin Addrs
  BY EventLoopAssumption

(* Another tag is queued. *)
LEMMA EnqueueOther ==
  ASSUME TypeOK, NEW t \in Tags, t # "timer", rdlist' = Enqueue(t)
  PROVE  InList("timer")' <=> InList("timer")
  <1>1. rdlist \in Seq(Tags) BY Zenon DEF TypeOK
  <1>2. \A u : InList(u) \/ u = t =>
          \E k \in 1 .. Len(Enqueue(t)) : Enqueue(t)[k] = u
    BY Zenon, <1>1, EnqueueKeeps
  <1>3. \A k \in 1 .. Len(Enqueue(t)) : InList(Enqueue(t)[k]) \/ Enqueue(t)[k] = t
    BY Zenon, <1>1, EnqueueOnly
  <1> QED BY ZenonT(60), <1>2, <1>3 DEF InList

(* The ready list, after Append(). *)
LEMMA AppendOther ==
  ASSUME TypeOK, NEW t \in Tags, t # "timer", rdlist' = Append(rdlist, t)
  PROVE  InList("timer")' <=> InList("timer")
  <1>1. /\ Len(Append(rdlist, t)) = Len(rdlist) + 1 /\ Len(rdlist) \in Nat
        /\ Append(rdlist, t)[Len(rdlist) + 1] = t
        /\ \A j \in 1 .. Len(rdlist) : Append(rdlist, t)[j] = rdlist[j]
    BY DEF TypeOK
  <1>2. \A k \in 1 .. Len(Append(rdlist, t)) :
          k \in 1 .. Len(rdlist) \/ k = Len(rdlist) + 1
    BY <1>1
  <1>3. \A k \in 1 .. Len(rdlist) : k \in 1 .. Len(Append(rdlist, t))
    BY <1>1
  <1>4. InList("timer")' => InList("timer") BY Zenon, <1>1, <1>2 DEF InList
  <1>5. InList("timer") => InList("timer")' BY Zenon, <1>1, <1>3 DEF InList
  <1> QED BY ZenonT(60), <1>4, <1>5

(* close_connection() touches one connection and no infrastructure. *)
LEMMA CloseFrame ==
  ASSUME TypeOK, NEW conn \in Addrs, close_connection(conn)
  PROVE  /\ live' = live \ {conn}
         /\ \A a \in Addrs \ {conn} :
              touched'[a] = touched[a] /\ last_activity'[a] = last_activity[a]
         /\ InList("timer")' <=> InList("timer")
         /\ ("timer" \in broken') <=> ("timer" \in broken)
  <1>1. /\ live' = live \ {conn} /\ rdlist' = Dequeue(conn)
        /\ broken' = broken \ {conn}
        /\ last_activity' = Forget(last_activity, conn, 0)
        /\ touched' = Forget(touched, conn, 0)
    BY ZenonT(60) DEF close_connection
  <1>2. \A a \in Addrs \ {conn} :
          touched'[a] = touched[a] /\ last_activity'[a] = last_activity[a]
    BY <1>1 DEF TypeOK, Forget
  <1>3. rdlist \in Seq(Tags) /\ conn \in Tags /\ "timer" # conn
    BY ZenonT(60), TimerIsNoAddress DEF TypeOK, Tags
  <1>4. \A u : InList(u) /\ u # conn =>
          \E k \in 1 .. Len(Dequeue(conn)) : Dequeue(conn)[k] = u
    BY Zenon, <1>3, DequeueKeeps
  <1>5. \A k \in 1 .. Len(Dequeue(conn)) : InList(Dequeue(conn)[k])
    BY Zenon, <1>3, DequeueOnly
  <1>6. InList("timer")' <=> InList("timer")
    BY ZenonT(60), <1>1, <1>3, <1>4, <1>5 DEF InList
  <1> QED BY Zenon, <1>1, <1>2, <1>3, <1>6

(* An event of something else is taken. *)
LEMMA TakeOther ==
  ASSUME TypeOK, NEW tags, NEW err, Take(tags, err), "timer" \notin tags
  PROVE  /\ Says(FALSE)' => Says(FALSE)
         /\ Says(TRUE) => Says(TRUE)'
         /\ InBatch("timer") => InBatch("timer")'
  <1>1. Head(batch).tag # "timer" BY Zenon, TakeKeeps
  <1>2. TRUE \in BOOLEAN /\ FALSE \in BOOLEAN OBVIOUS
  <1> QED BY Zenon, <1>1, <1>2, TakeKeeps, TakeOnly

(* A step of the loop that leaves the timer alone. *)
LEMMA TimerKeeps ==
  ASSUME TimerRuns, TimerAlone, Up, Up',
         pc' = "sweep" => pc = "sweep" \/ Says(FALSE),
         Says(FALSE)' => Says(FALSE), Says(TRUE) => Says(TRUE)'
  PROVE  TimerRuns'
  <1>1. pc' # "setup" OBVIOUS
  <1>2. timer - period <= now /\ now < timer BY Zenon DEF TimerRuns
  <1> QED BY ZenonT(60), <1>1, <1>2 DEF TimerRuns, TimerAlone, period

(* A step outside the sweep that closes connections or touches them. *)
LEMMA SweptKeeps ==
  ASSUME Swept, Up, pc # "sweep", Up', pc' # "sweep", timer' = timer,
         \A a \in live' : Fresh(a)' \/ (a \in live /\ touched'[a] = touched[a]),
         SweepToCome => SweepToCome'
  PROVE  Swept'
  <1>1. ASSUME NEW a \in live' PROVE Fresh(a)' \/ SweepToCome'
    <2>1. CASE a \in live /\ touched'[a] = touched[a]
      <3>1. Fresh(a) \/ SweepToCome BY Zenon, <2>1 DEF Swept
      <3>2. Fresh(a)' <=> Fresh(a) BY Zenon, <2>1 DEF Fresh, period, idle
      <3> QED BY Zenon, <3>1, <3>2
    <2> QED BY Zenon, <2>1
  <1> QED BY Zenon, <1>1 DEF Swept

-----------------------------------------------------------------------------
(* The stamps. *)

(* A stamp taken now is the clock, rounded. *)
LEMMA Stamped ==
  ASSUME TypeOK, Stamps, NEW conn \in Addrs, UNCHANGED <<now, skew>>,
         last_activity' = [last_activity EXCEPT ![conn] = time],
         touched' = [touched EXCEPT ![conn] = now],
         live' \subseteq live \cup {conn}
  PROVE  Stamps'
  <1>1. time = (now + skew) \div TicksPerSecond /\ skew \in Settings
    BY Zenon DEF Stamps, time
  <1>2. /\ last_activity'[conn] = time /\ touched'[conn] = now
        /\ \A a \in Addrs \ {conn} :
             last_activity'[a] = last_activity[a] /\ touched'[a] = touched[a]
    BY ZenonT(60) DEF TypeOK
  <1>3. live \subseteq Addrs BY ZenonT(60) DEF TypeOK
  <1>4. ASSUME NEW a \in live'
        PROVE  \E s \in Settings :
                 last_activity'[a] = (touched'[a] + s) \div TicksPerSecond
    <2>1. CASE a = conn BY Zenon, <2>1, <1>1, <1>2
    <2>2. CASE a # conn
      <3>1. a \in live /\ a \in Addrs \ {conn} BY Zenon, <2>2, <1>3
      <3> QED BY Zenon, <3>1, <1>2 DEF Stamps
    <2> QED BY Zenon, <2>1, <2>2
  <1> QED BY Zenon, <1>1, <1>4 DEF Stamps, Settings

(* Closing a connection leaves the stamps of the others. *)
LEMMA CloseStamps ==
  ASSUME TypeOK, Stamps, NEW conn \in Addrs, UNCHANGED <<now, skew>>,
         close_connection(conn)
  PROVE  Stamps'
  <1>1. live \subseteq Addrs BY Zenon DEF TypeOK
  <1> QED BY ZenonT(60), <1>1, CloseFrame DEF Stamps, Settings

(* last_activity stays the rounded time of the last activity. *)
LEMMA StampsStep ==
  ASSUME IInv, Stamps, [Next]_vars PROVE Stamps'
  <1>1. TypeOK /\ Linked /\ CursorIsLive BY Zenon DEF IInv
  <1>2. CASE Tick
    <2>1. UNCHANGED <<skew, live, last_activity, touched>>
      BY Zenon, <1>2 DEF Tick
    <2> QED BY Zenon, <2>1 DEF Stamps, Settings
  <1>3. CASE ClockIsSet
    <2>1. skew' \in Settings /\ UNCHANGED <<live, last_activity, touched>>
      BY Zenon, <1>3 DEF ClockIsSet, Settings
    <2> QED BY Zenon, <2>1 DEF Stamps, Settings
  <1>4. CASE HangUp \/ HandlerCloses
    <2>1. /\ Head(batch).tag \in Addrs /\ close_connection(Head(batch).tag)
          /\ UNCHANGED <<now, skew>>
      BY ZenonT(60), <1>1, <1>4, TakeKeeps DEF HangUp, HandlerCloses, TypeOK
    <2> QED BY ZenonT(60), <1>1, <2>1, CloseStamps
  <1>5. CASE SweepNext
    <2>1. /\ cur \in Addrs /\ UNCHANGED <<now, skew>>
          /\ \/ close_connection(cur)
             \/ UNCHANGED <<live, last_activity, touched>>
      BY ZenonT(60), <1>1, <1>5 DEF SweepNext, TypeOK, Pointer
    <2> QED BY ZenonT(60), <1>1, <2>1, CloseStamps DEF Stamps, Settings
  <1>6. CASE CloseNext
    <2>1. /\ connections \in Addrs /\ close_connection(connections)
          /\ UNCHANGED <<now, skew>>
      BY ZenonT(60), <1>1, <1>6 DEF CloseNext, TypeOK, Pointer
    <2> QED BY ZenonT(60), <1>1, <2>1, CloseStamps
  <1>13. CASE AcceptUndone
    <2>1. /\ connections \in Addrs /\ close_connection(connections)
          /\ UNCHANGED <<now, skew>>
      BY ZenonT(60), <1>1, <1>13 DEF AcceptUndone, TypeOK, Pointer, IInv,
         SetupProgress
    <2> QED BY ZenonT(60), <1>1, <2>1, CloseStamps
  <1>7. CASE HandlerReadsOrFinishes
    <2>1. /\ Head(batch).tag \in Addrs /\ Touch(Head(batch).tag)
          /\ UNCHANGED <<now, skew, live>>
      BY ZenonT(60), <1>1, <1>7, TakeKeeps DEF HandlerReadsOrFinishes, TypeOK
    <2> QED BY ZenonT(60), <1>1, <2>1, Stamped DEF Touch
  <1>8. CASE Accept
    <2>1. PICK conn \in Addrs \ live :
            /\ live' = live \cup {conn}
            /\ last_activity' = [last_activity EXCEPT ![conn] = time]
            /\ touched' = [touched EXCEPT ![conn] = now]
      BY Zenon, <1>8 DEF Accept
    <2>2. UNCHANGED <<now, skew>> BY Zenon, <1>8 DEF Accept
    <2> QED BY ZenonT(60), <1>1, <2>1, <2>2, Stamped
  <1>9. CASE UNCHANGED <<now, skew, live, last_activity, touched>>
    BY Zenon, <1>9 DEF Stamps, Settings
  <1>10. CASE \/ SetupCall \/ SetupFails \/ EpollWait \/ BatchDone
              \/ InfrastructureError \/ Shutdown \/ Listen \/ Timer
    BY ZenonT(60), <1>10, <1>9 DEF SetupCall, SetupFails, EpollWait, BatchDone,
       InfrastructureError, Shutdown, Listen, Timer
  <1>11. CASE \/ HandlerWritesSome \/ HandlerFindsNothing \/ FreedConnection
              \/ AcceptLoses \/ AcceptDry \/ AcceptGivesUp \/ SweepDone \/ Return
    BY ZenonT(60), <1>11, <1>9 DEF HandlerWritesSome, HandlerFindsNothing,
       FreedConnection, AcceptLoses, AcceptDry, AcceptGivesUp, SweepDone, Return
  <1>12. CASE \/ ClientConnects \/ Signal \/ EpollWaitFails
              \/ \E a \in live, h \in BOOLEAN : ClientActs(a, h)
              \/ \E t \in watched : InfrastructureBreaks(t)
              \/ UNCHANGED vars
    BY Zenon, <1>12, <1>9 DEF ClientConnects, Signal, EpollWaitFails,
       ClientActs, InfrastructureBreaks, vars
  <1> QED
    BY Zenon, <1>2, <1>3, <1>4, <1>5, <1>6, <1>7, <1>8, <1>10, <1>11, <1>12,
       <1>13 DEF Next, LoopStep, World, Over

-----------------------------------------------------------------------------
(* The timer and the sweep. *)

(* Once the loop is over nothing is said of either. *)
LEMMA LoopIsOver ==
  ASSUME pc' \in {"teardown", "returned", "undefined"}
  PROVE  TimerRuns' /\ Swept'
  BY Zenon DEF TimerRuns, Swept

(* The setup arms the timer and starts with no connection. *)
LEMMA TimeInSetup ==
  ASSUME IInv, TimerRuns, SetupCall PROVE TimerRuns' /\ Swept'
  <1>1. /\ pc = "setup" /\ broken = {} /\ live = {} /\ batch = <<>> /\ now \in Nat
        /\ timer \in Nat /\ step \in 1 .. 7 /\ rdlist \in Seq(Tags)
        /\ step > 5 => now = timer - period
    <2>1. pc = "setup" BY ZenonT(60) DEF SetupCall
    <2>2. /\ now \in Nat /\ timer \in Nat /\ rdlist \in Seq(Tags)
          /\ step \in 1 .. Len(SetupCalls) + 1
      BY Zenon DEF IInv, TypeOK
    <2>3. step <= Len(SetupCalls) /\ live = {} /\ batch = <<>>
      BY Zenon, <2>1 DEF IInv, SetupProgress
    <2>4. broken = {} /\ (step > 5 => now = timer - period)
      BY Zenon, <2>1 DEF TimerRuns
    <2>5. step \in 1 .. 7 BY <2>2, <2>3, SevenCalls
    <2> QED BY ZenonT(60), <2>1, <2>2, <2>3, <2>4, <2>5
  <1>2. /\ UNCHANGED <<now, broken, live, batch>> /\ step' = step + 1
        /\ timer' = IF SetupCalls[step] = "timerfd_settime"
                    THEN now + period ELSE timer
        /\ pc' = IF step = 7 THEN "epoll_wait" ELSE "setup"
    BY Zenon, SevenCalls DEF SetupCall, period
  <1>3. SetupCalls[step] = "timerfd_settime" <=> step = 5
    <2>1. CASE step = 1 BY <2>1 DEF SetupCalls
    <2>2. CASE step = 2 BY <2>2 DEF SetupCalls
    <2>3. CASE step = 3 BY <2>3 DEF SetupCalls
    <2>4. CASE step = 4 BY <2>4 DEF SetupCalls
    <2>5. CASE step = 5 BY <2>5 DEF SetupCalls
    <2>6. CASE step = 6 BY <2>6 DEF SetupCalls
    <2>7. CASE step = 7 BY <2>7 DEF SetupCalls
    <2>8. \/ step = 1 \/ step = 2 \/ step = 3 \/ step = 4 \/ step = 5
          \/ step = 6 \/ step = 7
      BY <1>1
    <2> QED BY ZenonT(60), <2>1, <2>2, <2>3, <2>4, <2>5, <2>6, <2>7, <2>8
  <1>4. period \in Nat \ {0} BY ZenonT(60), Spans
  <1>5. step' > 5 => now = timer' - period BY <1>1, <1>2, <1>3, <1>4
  <1>6. pc' = "epoll_wait" => now = timer' - period
    BY <1>1, <1>2, <1>5
  <1>7. now = timer' - period => timer' - period <= now /\ now < timer'
    BY <1>1, <1>2, <1>4
  <1>8. ~Says(FALSE)' /\ "timer" \notin broken'
    <2>1. Len(batch') = 0 BY <1>1, <1>2
    <2>2. ~ \E k \in 1 .. 0 : TRUE OBVIOUS
    <2> QED BY ZenonT(60), <1>1, <1>2, <2>1, <2>2 DEF Says
  <1>9. pc' \in {"epoll_wait", "setup"} BY Zenon, <1>2
  <1>10. TimerRuns'
    BY ZenonT(60), <1>1, <1>2, <1>5, <1>6, <1>7, <1>8, <1>9 DEF TimerRuns, period
  <1> QED BY ZenonT(60), <1>1, <1>2, <1>9, <1>10 DEF Swept

(* Time passes: an expiration brings the next sweep. *)
LEMMA TimeTicks ==
  ASSUME IInv, TimerRuns, Swept, Tick PROVE TimerRuns' /\ Swept'
  <1>1. /\ pc = "epoll_wait" /\ pc' = pc /\ rdlist = <<>> /\ batch = <<>>
        /\ now' = now + 1
        /\ UNCHANGED <<batch, broken, live, touched>>
        /\ IF now + 1 = timer
           THEN rdlist' = <<"timer">> /\ timer' = timer + period
           ELSE UNCHANGED <<rdlist, timer>>
    BY Zenon DEF Tick, Asleep, IInv, SetupProgress, period
  <1>2. ~InList("timer") /\ \A b : ~Says(b) /\ ~Says(b)'
    <2>1. Len(rdlist) = 0 /\ Len(batch) = 0 BY <1>1
    <2>2. ~ \E k \in 1 .. 0 : TRUE OBVIOUS
    <2> QED BY ZenonT(60), <1>1, <2>1, <2>2 DEF InList, Says
  <1>3. /\ now \in Nat /\ timer \in Nat /\ period \in Nat \ {0}
        /\ timer - period <= now /\ now < timer /\ "timer" \notin broken
    BY ZenonT(60), <1>1, <1>2, Spans DEF IInv, TypeOK, TimerRuns
  <1>4. CASE now + 1 = timer
    <2>1. rdlist' = <<"timer">> /\ timer' = timer + period BY Zenon, <1>1, <1>4
    <2>2. InList("timer")'
      <3>1. Len(rdlist') = 1 /\ rdlist'[1] = "timer" /\ 1 \in 1 .. 1 BY <2>1
      <3> QED BY Zenon, <3>1 DEF InList
    <2>3. now' = timer' - period /\ timer' - period <= now' /\ now' < timer'
      BY <1>1, <1>3, <1>4, <2>1
    <2>4. TimerRuns' BY ZenonT(60), <1>1, <1>2, <1>3, <2>3 DEF TimerRuns, period
    <2> QED BY Zenon, <1>1, <2>2, <2>4 DEF Swept, SweepToCome
  <1>5. CASE now + 1 # timer
    <2>1. UNCHANGED <<rdlist, timer>> BY ZenonT(60), <1>1, <1>5
    <2>2. timer' - period <= now' /\ now' < timer' BY <1>1, <1>3, <1>5, <2>1
    <2>3. ~InList("timer")' BY Zenon, <1>2, <2>1 DEF InList
    <2>4. TimerRuns'
      BY ZenonT(60), <1>1, <1>2, <1>3, <2>2, <2>3 DEF TimerRuns, period
    <2>5. SweepToCome => SweepToCome'
      BY Zenon, <1>1, <2>1 DEF SweepToCome, InList, InBatch
    <2> QED BY ZenonT(60), <1>1, <2>1, <2>4, <2>5, SweptKeeps
  <1> QED BY Zenon, <1>4, <1>5

(* What happens to the sockets meanwhile, except to the timer. *)
LEMMA TimeOutside ==
  ASSUME IInv, TimerRuns, Swept,
         TimerAlone, UNCHANGED <<pc, step, batch, list, touched, cur>>,
         pc = "setup" => broken' = broken
  PROVE  TimerRuns' /\ Swept'
  <1>1. \A b : Says(b)' <=> Says(b) BY Zenon DEF Says
  <1>2. SweepToCome => SweepToCome'
    BY Zenon DEF SweepToCome, InBatch, TimerAlone
  <1>3. CASE Up
    <2>1. TimerRuns' BY ZenonT(60), <1>1, <1>3, TimerKeeps
    <2>2. CASE pc # "sweep"
      BY ZenonT(60), <1>2, <1>3, <2>1, <2>2, SweptKeeps DEF TimerAlone
    <2>3. CASE pc = "sweep"
      <3>1. \A a : Fresh(a)' <=> Fresh(a)
        BY Zenon DEF Fresh, TimerAlone, period, idle
      <3>2. PICK r \in [Addrs -> Int] :
              /\ Sorted(live, connections, next, prev, r)
              /\ \A a \in live :
                   Fresh(a) \/ SweepToCome \/ (cur # NULL /\ r[a] <= r[cur])
        BY Zenon, <2>3 DEF Swept
      <3>3. \A a \in live' :
              Fresh(a)' \/ SweepToCome' \/ (cur' # NULL /\ r[a] <= r[cur'])
        BY ZenonT(60), <1>2, <3>1, <3>2
      <3> QED BY ZenonT(60), <2>1, <2>3, <3>2, <3>3 DEF Swept
    <2> QED BY Zenon, <2>2, <2>3
  <1>4. CASE ~Up
    BY Zenon, <1>4 DEF TimerRuns, Swept, TimerAlone, period
  <1> QED BY Zenon, <1>3, <1>4

(* A descriptor of the loop reports an error. *)
LEMMA TimeBreaks ==
  ASSUME IInv, TimerRuns, Swept, NEW t \in watched, InfrastructureBreaks(t)
  PROVE  TimerRuns' /\ Swept'
  <1>1. /\ pc = "epoll_wait" /\ pc' = pc /\ batch = <<>>
        /\ UNCHANGED <<now, timer, batch, list, touched, step, cur>>
        /\ broken' = broken \cup {t} /\ rdlist' = Enqueue(t)
    BY ZenonT(60) DEF InfrastructureBreaks, IInv, SetupProgress
  <1>2. TypeOK /\ t \in Tags /\ rdlist \in Seq(Tags)
    BY ZenonT(60) DEF IInv, TypeOK, Tags
  <1>3. CASE t # "timer"
    <2>1. TimerAlone BY ZenonT(60), <1>1, <1>2, <1>3, EnqueueOther DEF TimerAlone
    <2> QED BY ZenonT(60), <1>1, <2>1, TimeOutside
  <1>4. CASE t = "timer"
    <2>1. InList("timer")' BY ZenonT(60), <1>1, <1>2, <1>4, EnqueueKeeps DEF InList
    <2>2. \A b : ~Says(b)'
      <3>1. Len(batch) = 0 BY <1>1
      <3>2. ~ \E k \in 1 .. 0 : TRUE OBVIOUS
      <3> QED BY ZenonT(60), <1>1, <3>1, <3>2 DEF Says
    <2>3. "timer" \in broken' BY Zenon, <1>1, <1>4
    <2>4. TimerRuns' BY ZenonT(60), <1>1, <2>1, <2>2, <2>3 DEF TimerRuns, period
    <2> QED BY ZenonT(60), <1>1, <2>1, <2>4 DEF Swept, SweepToCome
  <1> QED BY Zenon, <1>3, <1>4

(* Going to sleep and waking up. *)
LEMMA TimeWaits ==
  ASSUME IInv, TimerRuns, Swept, EpollWait PROVE TimerRuns' /\ Swept'
  <1>1. /\ pc = "epoll_wait" /\ pc' = "dispatch"
        /\ UNCHANGED <<now, timer, broken, live, touched>>
    BY Zenon DEF EpollWait
  <1>2. TypeOK BY Zenon DEF IInv
  <1>3. ~InBatch("timer") /\ ~Says(TRUE)
    <2>1. Len(batch) = 0 BY <1>1 DEF IInv, SetupProgress
    <2>2. ~ \E k \in 1 .. 0 : TRUE OBVIOUS
    <2> QED BY ZenonT(60), <2>1, <2>2 DEF InBatch, Says
  <1>4. /\ InList("timer")' => InList("timer")
        /\ Says(FALSE)' => InList("timer") /\ "timer" \notin broken
        /\ InList("timer") /\ "timer" \in broken => InList("timer")' \/ Says(TRUE)'
    BY Zenon, <1>2, WaitOnly
  <1>5. SweepToCome => SweepToCome'
    BY Zenon, <1>2, <1>3, WaitReports DEF SweepToCome
  <1>6. timer - period <= now /\ now < timer BY Zenon, <1>1 DEF TimerRuns
  <1>7. TimerRuns'
    BY ZenonT(60), <1>1, <1>3, <1>4, <1>6 DEF TimerRuns, period
  <1> QED BY ZenonT(60), <1>1, <1>5, <1>7, SweptKeeps

(* The loop takes an event of a connection, or accepts. *)
LEMMA TimeHandles ==
  ASSUME IInv, Stamps, TimerRuns, Swept,
         \/ Listen \/ HangUp \/ HandlerCloses \/ HandlerReadsOrFinishes
         \/ HandlerWritesSome \/ HandlerFindsNothing
  PROVE  TimerRuns' /\ Swept'
  <1>1. TypeOK /\ live \subseteq Addrs BY Zenon DEF IInv, TypeOK
  <1>2. PICK tags \in SUBSET (Addrs \cup {"listen"}) :
          Take(tags, TRUE) \/ Take(tags, FALSE)
    <2>1. live \in SUBSET (Addrs \cup {"listen"}) BY Zenon, <1>1
    <2>2. {a \in live : awaiting_writable[a]} \in SUBSET (Addrs \cup {"listen"})
      BY Zenon, <1>1
    <2>3. {"listen"} \in SUBSET (Addrs \cup {"listen"}) BY Zenon
    <2> QED
      BY Zenon, <2>1, <2>2, <2>3 DEF Listen, HangUp, HandlerCloses,
         HandlerReadsOrFinishes, HandlerWritesSome, HandlerFindsNothing
  <1>3. "timer" \notin tags
    <2>1. "timer" # "listen" OBVIOUS
    <2> QED BY Zenon, <1>2, <2>1, TimerIsNoAddress
  <1>4. /\ Says(FALSE)' => Says(FALSE)
        /\ Says(TRUE) => Says(TRUE)'
        /\ InBatch("timer") => InBatch("timer")'
    BY Zenon, <1>1, <1>2, <1>3, TakeOther
  <1>5. /\ pc = "dispatch" /\ pc' \in {"dispatch", "accept"} /\ Up /\ Up'
        /\ UNCHANGED <<now, timer>>
    BY Zenon DEF Listen, HangUp, HandlerCloses, HandlerReadsOrFinishes,
       HandlerWritesSome, HandlerFindsNothing, Take
  <1>6. timer - period <= now /\ now \in Nat /\ timer \in Nat
    BY ZenonT(60), <1>1, <1>5 DEF TimerRuns, TypeOK
  <1>7. /\ InList("timer")' <=> InList("timer")
        /\ ("timer" \in broken') <=> ("timer" \in broken)
        /\ \A a \in live' : Fresh(a)' \/ (a \in live /\ touched'[a] = touched[a])
    <2>1. CASE Listen \/ HandlerWritesSome \/ HandlerFindsNothing
      <3>1. UNCHANGED <<rdlist, broken, live, touched>>
        BY Zenon, <2>1 DEF Listen, HandlerWritesSome, HandlerFindsNothing
      <3> QED BY Zenon, <3>1 DEF InList
    <2>2. CASE HangUp \/ HandlerCloses
      <3>1. Head(batch).tag \in Addrs /\ close_connection(Head(batch).tag)
        BY ZenonT(60), <1>1, <2>2, TakeKeeps DEF HangUp, HandlerCloses
      <3> QED BY ZenonT(60), <1>1, <3>1, CloseFrame
    <2>3. CASE HandlerReadsOrFinishes
      <3>1. PICK c \in live : touched' = [touched EXCEPT ![c] = now]
        BY ZenonT(60), <1>1, <2>3, TakeKeeps DEF HandlerReadsOrFinishes, Touch
      <3>2. UNCHANGED <<rdlist, broken, live>>
        BY ZenonT(60), <2>3 DEF HandlerReadsOrFinishes
      <3>3. /\ touched'[c] = now
            /\ \A a \in live \ {c} : touched'[a] = touched[a]
        BY ZenonT(60), <1>1, <3>1 DEF TypeOK
      <3>4. timer - period - now < idle + MaxJump BY <1>6, Spans, Jumps
      <3>5. Fresh(c)' BY ZenonT(60), <1>5, <3>3, <3>4 DEF Fresh, period, idle
      <3> QED BY ZenonT(60), <3>2, <3>3, <3>5 DEF InList
    <2> QED BY Zenon, <2>1, <2>2, <2>3
  <1>8. TimerRuns'
    BY ZenonT(60), <1>4, <1>5, <1>7, TimerKeeps DEF TimerAlone
  <1>9. SweepToCome => SweepToCome' BY Zenon, <1>4, <1>7 DEF SweepToCome
  <1> QED BY ZenonT(60), <1>5, <1>7, <1>8, <1>9, SweptKeeps

(* A connection is fresh when it is accepted. *)
LEMMA TimeAccepts ==
  ASSUME IInv, TimerRuns, Swept, Accept PROVE TimerRuns' /\ Swept'
  <1>1. TypeOK /\ live \subseteq Addrs BY ZenonT(60) DEF IInv, TypeOK
  <1>2. /\ pc = "accept" /\ pc' \in {"accept", "unregistered"}
        /\ UNCHANGED <<now, timer, batch, broken>>
    BY ZenonT(60) DEF Accept, AcceptMore
  <1>3. PICK conn \in Addrs \ live, early \in BOOLEAN, added \in BOOLEAN :
          /\ live' = live \cup {conn}
          /\ touched' = [touched EXCEPT ![conn] = now]
          /\ rdlist' = IF added /\ early THEN Append(rdlist, conn) ELSE rdlist
    BY Zenon DEF Accept
  <1>4. InList("timer")' <=> InList("timer")
    <2>1. conn \in Tags /\ conn # "timer" BY Zenon, TimerIsNoAddress DEF Tags
    <2>2. rdlist' = Append(rdlist, conn) \/ rdlist' = rdlist BY Zenon, <1>3
    <2> QED BY ZenonT(60), <1>1, <2>1, <2>2, AppendOther DEF InList
  <1>5. TimerAlone BY Zenon, <1>2, <1>4 DEF TimerAlone
  <1>6. TimerRuns' BY ZenonT(60), <1>2, <1>5, TimerKeeps DEF Says
  <1>7. timer - period <= now /\ now \in Nat /\ timer \in Nat
    BY ZenonT(60), <1>1, <1>2 DEF TimerRuns, TypeOK
  <1>8. timer - period - now < idle + MaxJump BY <1>7, Spans, Jumps
  <1>9. touched'[conn] = now /\ \A a \in live : touched'[a] = touched[a]
    BY ZenonT(60), <1>1, <1>3 DEF TypeOK
  <1>10. Fresh(conn)' BY Zenon, <1>2, <1>8, <1>9 DEF Fresh, period, idle
  <1>11. \A a \in live' : Fresh(a)' \/ (a \in live /\ touched'[a] = touched[a])
    BY Zenon, <1>3, <1>9, <1>10
  <1>12. SweepToCome => SweepToCome'
    BY Zenon, <1>2, <1>4 DEF SweepToCome, InBatch
  <1> QED BY ZenonT(60), <1>2, <1>6, <1>11, <1>12, SweptKeeps

(* A connection that is closed unregistered leaves the others as they are. *)
LEMMA TimeUndoes ==
  ASSUME IInv, TimerRuns, Swept, AcceptUndone PROVE TimerRuns' /\ Swept'
  <1>1. TypeOK /\ connections \in Addrs /\ close_connection(connections)
    BY ZenonT(60) DEF IInv, TypeOK, SetupProgress, AcceptUndone, Pointer
  <1>2. /\ pc = "unregistered" /\ pc' \in {"dispatch", "accept"}
        /\ UNCHANGED <<now, timer, batch>>
    BY ZenonT(60) DEF AcceptUndone, AcceptMore
  <1>3. /\ InList("timer")' <=> InList("timer")
        /\ ("timer" \in broken') <=> ("timer" \in broken)
        /\ \A a \in live' : a \in live /\ touched'[a] = touched[a]
    <2>1. live \subseteq Addrs BY Zenon, <1>1 DEF TypeOK
    <2>2. /\ live' = live \ {connections}
          /\ \A a \in Addrs \ {connections} : touched'[a] = touched[a]
          /\ InList("timer")' <=> InList("timer")
          /\ ("timer" \in broken') <=> ("timer" \in broken)
      BY ZenonT(60), <1>1, CloseFrame
    <2> HIDE DEF InList
    <2> QED BY Zenon, <2>1, <2>2
  <1>4. TimerRuns' BY ZenonT(60), <1>2, <1>3, TimerKeeps DEF TimerAlone, Says
  <1>5. SweepToCome => SweepToCome'
    BY Zenon, <1>2, <1>3 DEF SweepToCome, InBatch
  <1> QED BY ZenonT(60), <1>2, <1>3, <1>4, <1>5, SweptKeeps

(* The timer's event starts the sweep at the first connection. *)
LEMMA TimeSweeps ==
  ASSUME IInv, TimerRuns, Swept, Timer PROVE TimerRuns' /\ Swept'
  <1>1. TypeOK /\ Linked BY Zenon DEF IInv
  <1>2. /\ Take({"timer"}, FALSE) /\ pc = "dispatch" /\ pc' = "sweep"
        /\ cur' = connections
        /\ UNCHANGED <<now, timer, rdlist, broken, list, touched>>
    BY Zenon DEF Timer, Take
  <1>3. Head(batch).tag = "timer" BY Zenon, <1>2 DEF Take
  <1>4. /\ Says(FALSE) /\ (Says(FALSE)' => Says(FALSE))
        /\ Says(TRUE) => Says(TRUE)'
    <2>1. TRUE \in BOOLEAN /\ FALSE \in BOOLEAN /\ TRUE # FALSE OBVIOUS
    <2> QED BY ZenonT(60), <1>1, <1>2, <1>3, <2>1, TakeOnly
  <1>5. now = timer - period BY Zenon, <1>2, <1>4 DEF TimerRuns
  <1>6. "timer" \in broken => InList("timer") \/ Says(TRUE)
    BY Zenon, <1>2 DEF TimerRuns
  <1>7. PICK r \in [Addrs -> Int] : Sorted(live, connections, next, prev, r)
    BY Zenon, <1>1 DEF Linked
  <1>8. \A a \in live : connections # NULL /\ r[a] <= r[connections]
    BY Zenon, <1>7 DEF Sorted
  <1>9. Swept' BY Zenon, <1>2, <1>7, <1>8 DEF Swept
  <1>10. timer - period <= now /\ now < timer BY Zenon, <1>2 DEF TimerRuns
  <1>11. InList("timer")' <=> InList("timer") BY Zenon, <1>2 DEF InList
  <1>12. TimerRuns'
    BY ZenonT(60), <1>2, <1>4, <1>5, <1>6, <1>10, <1>11 DEF TimerRuns, period
  <1> QED BY Zenon, <1>9, <1>12

(* The sweep closes a connection or finds it fresh, and goes on to the     *)
(* next older one.                                                         *)
LEMMA TimeSweepsOn ==
  ASSUME IInv, Stamps, TimerRuns, Swept, SweepNext PROVE TimerRuns' /\ Swept'
  <1>1. TypeOK /\ Linked /\ CursorIsLive BY Zenon DEF IInv
  <1>2. /\ pc = "sweep" /\ pc' = "sweep" /\ cur # NULL /\ cur' = next[cur]
        /\ UNCHANGED <<now, timer, batch>>
    BY ZenonT(60) DEF SweepNext, SavedNext
  <1>3. cur \in live /\ cur \in Addrs
    BY ZenonT(60), <1>1, <1>2 DEF CursorIsLive, TypeOK
  <1>4. now = timer - period BY Zenon, <1>2 DEF TimerRuns
  <1>5. PICK r \in [Addrs -> Int] :
          /\ Sorted(live, connections, next, prev, r)
          /\ \A a \in live :
               Fresh(a) \/ SweepToCome \/ (cur # NULL /\ r[a] <= r[cur])
    BY ZenonT(60), <1>2 DEF Swept
  <1>6. \A a \in live : r[a] \in Int BY <1>1 DEF TypeOK
  <1>7. ASSUME NEW a \in live, a # cur, r[a] <= r[cur]
        PROVE  next[cur] # NULL /\ r[a] <= r[next[cur]]
    <2>1. r[a] # r[cur] BY ZenonT(60), <1>3, <1>5, <1>7 DEF Sorted
    <2>2. ~(r[cur] <= r[a]) BY <1>3, <1>6, <1>7, <2>1
    <2> QED BY ZenonT(60), <1>3, <1>5, <1>7, <2>2 DEF Sorted
  <1>8. CASE Expired(cur)
    <2>1. close_connection(cur) BY Zenon, <1>8 DEF SweepNext
    <2>2. /\ live' = live \ {cur}
          /\ \A a \in Addrs \ {cur} : touched'[a] = touched[a]
          /\ InList("timer")' <=> InList("timer")
          /\ ("timer" \in broken') <=> ("timer" \in broken)
      BY ZenonT(60), <1>1, <1>3, <2>1, CloseFrame
    <2>3. TimerAlone BY Zenon, <1>2, <2>2 DEF TimerAlone
    <2>4. TimerRuns' BY Zenon, <1>2, <2>3, TimerKeeps DEF Says
    <2>5. SweepToCome => SweepToCome'
      BY Zenon, <1>2, <2>2 DEF SweepToCome, InBatch
    <2>6. ASSUME NEW a \in live'
          PROVE  Fresh(a)' \/ SweepToCome' \/ (cur' # NULL /\ r[a] <= r[cur'])
      <3>1. a \in live /\ a # cur /\ a \in Addrs \ {cur}
        BY ZenonT(60), <1>1, <2>2 DEF TypeOK
      <3>2. Fresh(a)' <=> Fresh(a)
        BY Zenon, <1>2, <2>2, <3>1 DEF Fresh, period, idle
      <3> QED BY ZenonT(60), <1>2, <1>5, <1>7, <2>5, <3>1, <3>2
    <2>7. Sorted(live', connections', next', prev', r)
      <3>1. /\ next' = [a \in Addrs |-> CASE a = cur       -> NULL
                                          [] a = prev[cur] -> next[cur]
                                          [] OTHER         -> next[a]]
            /\ prev' = [a \in Addrs |-> CASE a = cur       -> NULL
                                          [] a = next[cur] -> prev[cur]
                                          [] OTHER         -> prev[a]]
            /\ connections' = IF prev[cur] = NULL THEN next[cur] ELSE connections
        BY ZenonT(60), <2>1 DEF close_connection, list_remove
      <3>2. /\ live \in SUBSET Addrs /\ connections \in Pointer
            /\ next \in [Addrs -> Pointer] /\ prev \in [Addrs -> Pointer]
        BY ZenonT(60), <1>1 DEF TypeOK
      <3>3. Sorted(live, connections, next, prev, r) BY ZenonT(60), <1>5
      <3>4. Sorted(live \ {cur},
                   IF prev[cur] = NULL THEN next[cur] ELSE connections,
                   next', prev', r)
        BY ZenonT(60), <1>3, <3>1, <3>2, <3>3, RemoveSorted
      <3> QED BY Zenon, <2>2, <3>1, <3>4
    <2> QED BY Zenon, <1>2, <2>4, <2>6, <2>7 DEF Swept
  <1>9. CASE ~Expired(cur)
    <2>1. UNCHANGED <<list, touched, rdlist, broken>>
      BY Zenon, <1>9 DEF SweepNext
    <2>2. TimerAlone BY Zenon, <1>2, <2>1 DEF TimerAlone, InList
    <2>3. TimerRuns' BY Zenon, <1>2, <2>2, TimerKeeps DEF Says
    <2>4. SweepToCome => SweepToCome'
      BY Zenon, <1>2, <2>1 DEF SweepToCome, InBatch, InList
    <2>5. Fresh(cur)
      <3>1. PICK s \in Settings :
              last_activity[cur] = (touched[cur] + s) \div TicksPerSecond
        BY ZenonT(60), <1>3 DEF Stamps
      <3>2. /\ now \in Nat /\ touched[cur] \in Nat /\ skew \in Int /\ s \in Int
            /\ s - skew <= MaxJump /\ MaxJump \in Nat
        BY ZenonT(60), <1>1, <1>3, Jumps DEF Stamps, TypeOK
      <3>3. /\ TicksPerSecond \in Nat \ {0} /\ idle_timeout_seconds \in Nat \ {0}
        BY EventLoopAssumption
      <3> DEFINE x == now + skew
                 y == touched[cur] + s
                 p == x \div TicksPerSecond
                 q == y \div TicksPerSecond
      <3>4. ~(p - q >= idle_timeout_seconds)
        BY ZenonT(60), <1>9, <3>1 DEF Expired, time
      <3>5. x \in Int /\ y \in Int BY <3>2
      <3>6. x - y = now - touched[cur] - (s - skew) BY <3>2
      <3> HIDE DEF x, y
      <3>7. p \in Int /\ q \in Int BY <3>3, <3>5, Rounds
      <3>8. p - q < idle_timeout_seconds
        <4> HIDE DEF p, q
        <4> QED BY <3>3, <3>4, <3>7
      <3>9. x - y < idle BY ZenonT(60), <3>3, <3>5, <3>8, LessApart, Spans
      <3>10. now - touched[cur] < idle + MaxJump
        BY <3>2, <3>6, <3>9, Spans
      <3> QED BY Zenon, <1>4, <3>10 DEF Fresh
    <2>6. ASSUME NEW a \in live
          PROVE  Fresh(a)' \/ SweepToCome' \/ (cur' # NULL /\ r[a] <= r[cur'])
      <3>1. Fresh(a)' <=> Fresh(a)
        BY Zenon, <1>2, <2>1 DEF Fresh, period, idle
      <3> QED BY ZenonT(60), <1>2, <1>5, <1>7, <2>4, <2>5, <3>1
    <2> QED BY Zenon, <1>2, <1>5, <2>1, <2>3, <2>6 DEF Swept
  <1> QED BY Zenon, <1>8, <1>9

(* When the sweep is over, every connection is fresh. *)
LEMMA TimeSweptAll ==
  ASSUME IInv, TimerRuns, Swept, SweepDone PROVE TimerRuns' /\ Swept'
  <1>1. /\ pc = "sweep" /\ pc' = "dispatch" /\ cur = NULL
        /\ UNCHANGED <<now, timer, rdlist, batch, broken, live, touched>>
    BY Zenon DEF SweepDone
  <1>2. TimerAlone BY Zenon, <1>1 DEF TimerAlone, InList
  <1>3. TimerRuns' BY ZenonT(60), <1>1, <1>2, TimerKeeps DEF Says
  <1>4. \A a \in live : Fresh(a) \/ SweepToCome BY Zenon, <1>1 DEF Swept
  <1>5. SweepToCome => SweepToCome'
    BY Zenon, <1>1 DEF SweepToCome, InBatch, InList
  <1>6. \A a \in live : Fresh(a) => Fresh(a)'
    BY Zenon, <1>1 DEF Fresh, period, idle
  <1> QED BY ZenonT(60), <1>1, <1>3, <1>4, <1>5, <1>6 DEF Swept

(* Every step. *)
LEMMA TimeStep ==
  ASSUME IInv, Stamps, TimerRuns, Swept, [Next]_vars PROVE TimerRuns' /\ Swept'
  <1>1. TypeOK /\ live \subseteq Addrs BY Zenon DEF IInv, TypeOK
  <1>2. CASE \/ SetupFails \/ InfrastructureError \/ Shutdown \/ FreedConnection
             \/ CloseNext \/ Return \/ EpollWaitFails
    <2>1. pc' \in {"teardown", "returned", "undefined"}
      BY Zenon, <1>2 DEF SetupFails, InfrastructureError, Shutdown, Stop,
         FreedConnection, CloseNext, Return, EpollWaitFails
    <2> QED BY Zenon, <2>1, LoopIsOver
  <1>3. CASE BatchDone \/ AcceptDry \/ AcceptGivesUp \/ AcceptLoses
    <2>1. /\ pc \in {"dispatch", "accept"}
          /\ pc' \in {"epoll_wait", "dispatch", "accept"}
          /\ UNCHANGED <<now, timer, rdlist, batch, broken, live, touched>>
      BY Zenon, <1>3 DEF BatchDone, AcceptDry, AcceptGivesUp, AcceptLoses,
         AcceptMore
    <2>2. TimerAlone BY Zenon, <2>1 DEF TimerAlone, InList
    <2>3. TimerRuns' BY ZenonT(60), <2>1, <2>2, TimerKeeps DEF Says
    <2>4. SweepToCome => SweepToCome'
      BY Zenon, <2>1 DEF SweepToCome, InBatch, InList
    <2> QED BY ZenonT(60), <2>1, <2>3, <2>4, SweptKeeps
  <1>4. CASE ClockIsSet \/ UNCHANGED vars
    <2>1. UNCHANGED <<pc, step, batch, list, touched, cur, now, timer, rdlist,
                      broken>>
      BY Zenon, <1>4 DEF ClockIsSet, vars
    <2>2. TimerAlone BY Zenon, <2>1 DEF TimerAlone, InList
    <2> QED BY Zenon, <2>1, <2>2, TimeOutside
  <1>5. CASE ClientConnects \/ Signal
    <2>1. PICK t \in {"listen", "shutdown"} :
            rdlist' = Enqueue(t) \/ rdlist' = rdlist
      BY Zenon, <1>5 DEF ClientConnects, Signal
    <2>2. t \in Tags /\ t # "timer" BY <2>1 DEF Tags, Infrastructure
    <2>3. InList("timer")' <=> InList("timer")
      BY ZenonT(60), <1>1, <2>1, <2>2, EnqueueOther DEF InList
    <2>4. UNCHANGED <<pc, step, batch, list, touched, cur, now, timer, broken>>
      BY Zenon, <1>5 DEF ClientConnects, Signal
    <2> QED BY Zenon, <2>3, <2>4, TimeOutside DEF TimerAlone
  <1>6. CASE \E a \in live, h \in BOOLEAN : ClientActs(a, h)
    <2>1. PICK a \in live, h \in BOOLEAN : ClientActs(a, h) BY Zenon, <1>6
    <2>2. /\ pc = "epoll_wait" /\ rdlist' = Enqueue(a)
          /\ broken' = IF h THEN broken \cup {a} ELSE broken
          /\ UNCHANGED <<pc, step, batch, list, touched, cur, now, timer>>
      BY Zenon, <2>1 DEF ClientActs
    <2>3. a \in Tags /\ a # "timer"
      BY Zenon, <1>1, TimerIsNoAddress DEF Tags
    <2>4. InList("timer")' <=> InList("timer")
      BY ZenonT(60), <1>1, <2>2, <2>3, EnqueueOther
    <2>5. TimerAlone BY ZenonT(60), <2>2, <2>3, <2>4 DEF TimerAlone
    <2> QED BY Zenon, <2>2, <2>5, TimeOutside
  <1>7. CASE \E t \in watched : InfrastructureBreaks(t)
    BY Zenon, <1>7, TimeBreaks
  <1> QED
    BY ZenonT(60), <1>2, <1>3, <1>4, <1>5, <1>6, <1>7, TimeInSetup, TimeTicks,
       TimeWaits, TimeHandles, TimeAccepts, TimeUndoes, TimeSweeps,
       TimeSweepsOn, TimeSweptAll DEF Next, LoopStep, World, Over

-----------------------------------------------------------------------------
(* The inductive invariant of the idle sweep. *)
THEOREM TimeInvariance == Spec => []TInv
  <1>1. Init => TInv
    <2> SUFFICES ASSUME Init PROVE TInv OBVIOUS
    <2>1. /\ pc = "setup" /\ step = 1 /\ broken = {} /\ skew = 0 /\ live = {}
      BY Zenon DEF Init
    <2>2. ~(step > 5) BY <2>1
    <2>3. TimerRuns BY Zenon, <2>1, <2>2 DEF TimerRuns
    <2>4. Stamps /\ Swept BY Zenon, <2>1 DEF Stamps, Settings, Swept
    <2> QED BY ZenonT(60), <2>3, <2>4, InitStep DEF TInv
  <1>2. TInv /\ [Next]_vars => TInv'
    BY Zenon, NextStep, StampsStep, TimeStep DEF TInv
  <1> QED BY <1>1, <1>2, PTL DEF Spec

(* A sleeping loop has no connection that is a whole sweep interval past   *)
(* its deadline, or that and a jump of the wall clock where it is set, for *)
(* every timeout, interval, clock resolution and number of connections     *)
(* (IDLE_SWEEP_INTERVAL_SECONDS, sweep_idle_connections).                  *)
THEOREM NobodyLingers == Spec => []NoLinger
  <1>1. ASSUME TInv, Asleep, NEW a \in live
        PROVE  now - touched[a]
                 < (idle_timeout_seconds + IDLE_SWEEP_INTERVAL_SECONDS)
                     * TicksPerSecond + MaxJump
    <2>1. /\ pc = "epoll_wait" /\ rdlist = <<>> /\ batch = <<>> /\ now \in Nat
          /\ timer \in Nat /\ touched[a] \in Nat /\ now < timer
      BY ZenonT(60), <1>1 DEF TInv, IInv, TypeOK, SetupProgress, TimerRuns, Asleep
    <2>2. ~SweepToCome
      <3>1. Len(rdlist) = 0 /\ Len(batch) = 0 BY <2>1
      <3>2. ~ \E k \in 1 .. 0 : TRUE OBVIOUS
      <3> QED BY Zenon, <3>1, <3>2 DEF SweepToCome, InList, InBatch
    <2>3. Fresh(a) BY ZenonT(60), <1>1, <2>1, <2>2 DEF TInv, Swept
    <2>4. now - touched[a] < idle + period + MaxJump
      BY <2>1, <2>3, Spans, Jumps DEF Fresh
    <2> QED BY ZenonT(60), <2>4, Spans
  <1>2. TInv => NoLinger BY Zenon, <1>1 DEF NoLinger
  <1> QED BY <1>2, TimeInvariance, PTL

(* The sweep closes nothing that was active within the timeout, less the   *)
(* second that two roundings of time() may lose and a jump of the clock    *)
(* (sweep_idle_connections).                                               *)
THEOREM SweepSparesTheActive == Spec => SweepNotEarly
  <1>1. ASSUME TInv, [Next]_vars, NEW a \in Addrs, Sweeps(a)
        PROVE  now - touched[a]
                 > (idle_timeout_seconds - 1) * TicksPerSecond - MaxJump
    <2>1. pc = "sweep" /\ a \in live /\ a \notin live'
      BY ZenonT(60), <1>1 DEF Sweeps
    <2>2. SweepNext
      <3>1. CASE ClientConnects \/ Signal \/ SweepDone \/ UNCHANGED vars
        BY ZenonT(60), <2>1, <3>1 DEF ClientConnects, Signal, SweepDone, vars
      <3> QED
        BY ZenonT(60), <1>1, <2>1, <3>1 DEF Next, LoopStep, World, Over, SetupCall,
           SetupFails, EpollWait, BatchDone, InfrastructureError, Shutdown,
           Listen, Timer, HangUp, HandlerCloses, HandlerReadsOrFinishes,
           HandlerWritesSome, HandlerFindsNothing, FreedConnection, Take,
           Accept, AcceptUndone, AcceptLoses, AcceptDry, AcceptGivesUp, CloseNext,
           Return, Tick, Asleep, ClockIsSet, EpollWaitFails, ClientActs,
           InfrastructureBreaks, Running
    <2>3. a = cur /\ Expired(a)
      BY Zenon, <2>1, <2>2 DEF SweepNext, close_connection
    <2>4. PICK s \in Settings :
            last_activity[a] = (touched[a] + s) \div TicksPerSecond
      BY ZenonT(60), <1>1, <2>1 DEF TInv, Stamps
    <2>5. /\ now \in Nat /\ touched[a] \in Nat /\ skew \in Int /\ s \in Int
          /\ skew - s <= MaxJump /\ MaxJump \in Nat
      BY ZenonT(60), <1>1, Jumps DEF TInv, IInv, TypeOK, Stamps
    <2>6. /\ TicksPerSecond \in Nat \ {0} /\ idle_timeout_seconds \in Nat \ {0}
      BY EventLoopAssumption
    <2> DEFINE x == now + skew
               y == touched[a] + s
               bound == TicksPerSecond * (idle_timeout_seconds - 1)
    <2>7. x \div TicksPerSecond - y \div TicksPerSecond >= idle_timeout_seconds
      BY Zenon, <2>3, <2>4 DEF Expired, time
    <2>8. x \in Int /\ y \in Int /\ x - y = now - touched[a] + (skew - s)
      BY <2>5
    <2> HIDE DEF x, y
    <2>9. x - y > bound BY ZenonT(60), <2>6, <2>7, <2>8, MoreApart
    <2>10. bound \in Int BY <2>6
    <2> HIDE DEF bound
    <2>11. now - touched[a] > bound - MaxJump BY <2>5, <2>8, <2>9, <2>10
    <2> QED BY Zenon, <2>11, Spans DEF bound
  <1>2. TInv /\ [Next]_vars =>
          [\A a \in Addrs : Sweeps(a) =>
             now - touched[a]
               > (idle_timeout_seconds - 1) * TicksPerSecond - MaxJump]_vars
    BY Zenon, <1>1
  <1> QED BY <1>2, TimeInvariance, PTL DEF Spec, SweepNotEarly

-----------------------------------------------------------------------------
(* The list the sweep walks. *)

INSTANCE FiniteSetTheorems

(* ListIsExact with what its induction needs: live is finite, and s misses *)
(* none of it.                                                             *)
SpelledOut ==
  /\ IsFiniteSet(live)
  /\ \E s : Spelling(s, Cardinality(live), live, connections, next, prev)

(* Every step keeps it so. *)
LEMMA SpelledStep ==
  ASSUME TypeOK, Linked, CursorIsLive, SetupProgress, SpelledOut, [Next]_vars
  PROVE  SpelledOut'
  <1>1. CASE UNCHANGED list BY ZenonT(60), <1>1 DEF SpelledOut
  <1>2. /\ live \in SUBSET Addrs
        /\ next \in [Addrs -> Pointer] /\ prev \in [Addrs -> Pointer]
    BY ZenonT(60) DEF TypeOK
  <1>3. PICK n \in Nat : n = Cardinality(live)
    BY ZenonT(60), FS_CardinalityType DEF SpelledOut
  <1>4. PICK s : Spelling(s, n, live, connections, next, prev)
    BY ZenonT(60), <1>3 DEF SpelledOut
  <1>5. ASSUME NEW conn \in Addrs \ live,
               list_insert(conn), live' = live \cup {conn}
        PROVE  SpelledOut'
    <2>1. /\ Inserted(connections, next, prev, conn, next', prev')
          /\ connections' = conn
      BY ZenonT(60), <1>5 DEF list_insert, Inserted
    <2>2. \E t : Spelling(t, n + 1, live', connections', next', prev')
      BY ZenonT(60), <1>2, <1>4, <1>5, <2>1, InsertSpelled
    <2>3. IsFiniteSet(live') /\ Cardinality(live') = n + 1
      BY ZenonT(60), <1>3, <1>5, FS_AddElement DEF SpelledOut
    <2> QED BY ZenonT(60), <2>2, <2>3 DEF SpelledOut
  <1>6. ASSUME NEW conn \in live, close_connection(conn)
        PROVE  SpelledOut'
    <2>1. /\ Removed(connections, next, prev, conn, connections', next', prev')
          /\ live' = live \ {conn}
      BY ZenonT(60), <1>6 DEF close_connection, list_remove, Removed
    <2>2. \E t : Spelling(t, n - 1, live', connections', next', prev')
      BY ZenonT(60), <1>2, <1>4, <1>6, <2>1, RemoveSpelled
    <2>3. IsFiniteSet(live') /\ Cardinality(live') = n - 1
      BY ZenonT(60), <1>3, <1>6, <2>1, FS_RemoveElement DEF SpelledOut
    <2> QED BY ZenonT(60), <2>2, <2>3 DEF SpelledOut
  <1> QED BY ZenonT(60), <1>1, <1>5, <1>6, ListChanges

(* The loop starts with an empty list. *)
LEMMA SpelledInit == ASSUME Init PROVE SpelledOut
  <1>1. live = {} /\ connections = NULL BY ZenonT(60) DEF Init
  <1>2. IsFiniteSet(live) /\ Cardinality(live) = 0 BY ZenonT(60), <1>1, FS_EmptySet
  <1>3. Spelling([i \in 1 .. 0 |-> NULL], 0, live, connections, next, prev)
    BY <1>1 DEF Spelling, Nth
  <1> QED BY ZenonT(60), <1>2, <1>3 DEF SpelledOut

(* A list that is spelled out is exact. *)
LEMMA SpelledIsExact == ASSUME SpelledOut PROVE ListIsExact
  <1>1. PICK n : n = Cardinality(live) OBVIOUS
  <1>2. PICK s : Spelling(s, n, live, connections, next, prev)
    BY ZenonT(60), <1>1 DEF SpelledOut
  <1>3. /\ s \in [1 .. n -> live] /\ DOMAIN s = 1 .. n
        /\ \A i, j \in DOMAIN s : s[i] = s[j] => i = j
    BY <1>2 DEF Spelling
  <1>4. Spells(s)
    <2>1. connections = IF 1 \in DOMAIN s THEN s[1] ELSE NULL
      BY ZenonT(60), <1>2, <1>3 DEF Spelling, Nth
    <2>2. ASSUME NEW i \in DOMAIN s
          PROVE  /\ next[s[i]] = IF i + 1 \in DOMAIN s THEN s[i + 1] ELSE NULL
                 /\ prev[s[i]] = IF i - 1 \in DOMAIN s THEN s[i - 1] ELSE NULL
      <3>1. next[s[i]] = Nth(s, n, i + 1) /\ prev[s[i]] = Nth(s, n, i - 1)
        BY ZenonT(60), <1>2, <1>3, <2>2 DEF Spelling
      <3> QED BY ZenonT(60), <3>1, <1>3 DEF Nth
    <2> QED BY ZenonT(60), <2>1, <2>2 DEF Spells
  <1> QED BY ZenonT(60), <1>1, <1>3, <1>4 DEF ListIsExact

(* However many connections there are, and in whatever order accept,       *)
(* hang-ups, handlers, the sweep and the teardown take them out, the list  *)
(* of event_loop_t reaches each of them once, forwards and backwards, and  *)
(* nothing else (list_insert, list_remove).                                *)
THEOREM EveryConnectionIsListed == Spec => []ListIsExact
  <1>1. IInv /\ SpelledOut /\ [Next]_vars => SpelledOut'
    BY Zenon, SpelledStep DEF IInv
  <1> QED BY <1>1, SpelledInit, SpelledIsExact, Invariance, PTL DEF Spec
=============================================================================
