--------------------------- MODULE RaftLogProofs ---------------------------
(***************************************************************************)
(* The logs of the nodes match, in every cluster of odd size, for every    *)
(* number of terms, commands, failing saves, restarts and concurrent       *)
(* calls, under the conditions under which elections are safe.             *)
(*                                                                         *)
(* The argument: leaderLog[t] records the log of the one leader of term t, *)
(* which only grows.  An entry of term t, wherever it is found, was put    *)
(* there by that leader, with everything the leader had before it.         *)
(*                                                                         *)
(* And what can still be chosen is in every later leader's log.  An entry  *)
(* of term t at index i of the log of t's leader is chosen when a majority *)
(* has acknowledged that log up to i while in term t, and can still be     *)
(* chosen when a majority has done so or has not left t yet.               *)
(***************************************************************************)
EXTENDS RaftInvariants, TLAPS

(* The logs a and b have the same first k entries.                         *)
Agree(a, b, k) == k <= Len(a) /\ k <= Len(b) /\ \A j \in 1 .. k : a[j] = b[j]

(* Every entry of l is in its place, and up to it l is the log of the      *)
(* leader of the entry's term, as L records them.                          *)
Rooted(l, L) ==
    \A i \in 1 .. Len(l) : /\ l[i].index = i
                           /\ l[i].term \in DOMAIN L
                           /\ Agree(l, L[l[i].term], i)

(* No entry of l is of a later term than t.                                *)
Below(l, t) == \A i \in 1 .. Len(l) : l[i].term <= t

(* The logs of leaders are only added to.                                  *)
Grown(L, M) == \A t \in DOMAIN L : t \in DOMAIN M /\ Agree(L[t], M[t], Len(L[t]))

(* The entries of a request, and the one before them, are from the log F   *)
(* of the leader that sent it.                                             *)
FromLog(r, F) ==
    /\ r.prev + Len(r.entries) <= Len(F)
    /\ \A j \in 1 .. Len(r.entries) : r.entries[j] = F[r.prev + j]
    /\ r.prev > 0 => F[r.prev].term = r.prevTerm

RootedInv ==
    /\ \A n \in Server : /\ Rooted(log[n], leaderLog)
                         /\ Rooted(disk[n].log, leaderLog)
    /\ \A t \in DOMAIN leaderLog : Rooted(leaderLog[t], leaderLog)

TermsInv ==
    /\ \A n \in Server : /\ Below(log[n], currentTerm[n])
                         /\ Below(disk[n].log, disk[n].term)
                         /\ disk[n].term <= currentTerm[n]
    /\ \A t \in DOMAIN leaderLog : Below(leaderLog[t], t)

(* leaderLog speaks of the terms that have a leader, and of a present      *)
(* leader it says what its log is; a candidate has not led its term yet.   *)
LeadersInv ==
    /\ \A n \in Server : state[n] = Leader =>
         <<n, currentTerm[n]>> \in elected /\ log[n] = leaderLog[currentTerm[n]]
    /\ \A n \in Server : state[n] = Candidate => <<n, currentTerm[n]>> \notin elected
    /\ \A e \in elected : e[2] \in DOMAIN leaderLog /\ e[2] <= currentTerm[e[1]]
    /\ \A t \in DOMAIN leaderLog : \E n \in Server : <<n, t>> \in elected

GoodCall(r, E, L) ==
    /\ <<r.leader, r.term>> \in E /\ r.peer # r.leader
    /\ r.phase = "req" => FromLog(r, L[r.term])

CallsInv == \A r \in leaderRpcs : GoodCall(r, elected, leaderLog)

(* The inductive invariant of logs.                                        *)
LogInv == RootedInv /\ TermsInv /\ LeadersInv /\ CallsInv

-----------------------------------------------------------------------------
(* Logs that agree                                                         *)

LEMMA EntryFields ==
  ASSUME NEW l \in Seq(Entry), NEW i \in 1 .. Len(l)
  PROVE  l[i] \in Entry /\ l[i].index \in Nat /\ l[i].term \in Nat
<1>1. l[i] \in Entry
  OBVIOUS
<1> QED
  BY <1>1, Zenon DEF Entry

LEMMA AgreeTransitive ==
  ASSUME NEW a, NEW b, NEW c, NEW k \in Nat, Agree(a, b, k), Agree(b, c, k)
  PROVE  Agree(a, c, k)
  BY Zenon DEF Agree

LEMMA AgreeSymmetric ==
  ASSUME NEW a, NEW b, NEW k, Agree(a, b, k)
  PROVE  Agree(b, a, k)
  BY Zenon DEF Agree

LEMMA AgreeLess ==
  ASSUME NEW a \in Seq(Entry), NEW b \in Seq(Entry),
         NEW k \in Nat, NEW i \in Nat, Agree(a, b, k), i <= k
  PROVE  Agree(a, b, i)
  BY DEF Agree

LEMMA AgreeSelf ==
  ASSUME NEW a, Len(a) \in Nat, NEW k \in Nat, k <= Len(a)
  PROVE  Agree(a, a, k)
  BY Zenon DEF Agree

LEMMA AgreeOnNone ==
  ASSUME NEW a, NEW b, Len(a) \in Nat, Len(b) \in Nat
  PROVE  Agree(a, b, 0)
  BY SMT DEF Agree

(* Indexes and terms are numbers.                                          *)
LEMMA LenIsNat ==
  ASSUME NEW l \in Seq(Entry)
  PROVE  Len(l) \in Nat
  OBVIOUS

LEMMA InRange ==
  ASSUME NEW k \in Nat, NEW i \in 1 .. k
  PROVE  /\ i \in Nat /\ 0 < i /\ i <= k /\ 0 < k /\ k # 0
         /\ i - 0 = i /\ i \in 1 .. i
  OBVIOUS

LEMMA RangeGrows ==
  ASSUME NEW j, NEW k, j <= k, NEW i \in 1 .. j, j \in Nat, k \in Nat
  PROVE  i \in 1 .. k
  OBVIOUS

LEMMA LeqSelf ==
  ASSUME NEW j \in Nat
  PROVE  j <= j /\ 0 <= j /\ (j <= 0 => j = 0)
  OBVIOUS

LEMMA SumIsNat ==
  ASSUME NEW j \in Nat, NEW k \in Nat
  PROVE  j + k \in Nat /\ j <= j + k /\ k <= j + k
  OBVIOUS

LEMMA NextIsMore ==
  ASSUME NEW j \in Nat
  PROVE  j + 1 \in Nat /\ j <= j + 1 /\ j < j + 1 /\ ~(j + 1 <= j)
  OBVIOUS

LEMMA LastOfRange ==
  ASSUME NEW j \in Nat, NEW i \in 1 .. j + 1, ~(i \in 1 .. j)
  PROVE  i = j + 1
  OBVIOUS

LEMMA LessDiffers ==
  ASSUME NEW j \in Nat, NEW k \in Nat, j < k
  PROVE  j # k
  OBVIOUS

LEMMA LeqTransitive ==
  ASSUME NEW i \in Nat, NEW j \in Nat, NEW k \in Nat, i <= j, j <= k
  PROVE  i <= k
  OBVIOUS

LEMMA LessThenLeq ==
  ASSUME NEW i \in Nat, NEW j \in Nat, NEW k \in Nat, i < j, j <= k
  PROVE  i < k /\ i # k /\ ~(k <= i)
  OBVIOUS

LEMMA GreaterOrEqual ==
  ASSUME NEW j \in Nat, NEW k \in Nat
  PROVE  /\ j > k => k <= j
         /\ j >= k => k <= j /\ (j > k \/ j = k)
         /\ ~(j > k) => j <= k
  OBVIOUS

LEMMA InnerRange ==
  ASSUME NEW k \in Nat, NEW i \in 1 .. k, NEW j \in i .. k
  PROVE  j \in Nat /\ j \in 1 .. k /\ i \in 1 .. j
  OBVIOUS

LEMMA LeqAntisymmetric ==
  ASSUME NEW j \in Nat, NEW k \in Nat, j <= k, k <= j
  PROVE  j = k
  OBVIOUS

LEMMA Compared ==
  ASSUME NEW j \in Nat, NEW k \in Nat
  PROVE  j < k \/ k < j \/ j = k
  OBVIOUS

LEMMA LeqSplits ==
  ASSUME NEW j \in Nat, NEW k \in Nat, j <= k
  PROVE  j = k \/ j < k
  OBVIOUS

LEMMA RootedPrefix ==
  ASSUME NEW l \in Seq(Entry), NEW m \in Seq(Entry), NEW L,
         Rooted(l, L), Agree(m, l, Len(m))
  PROVE  Rooted(m, L)
<1> SUFFICES ASSUME NEW i \in 1 .. Len(m)
             PROVE  /\ m[i].index = i /\ m[i].term \in DOMAIN L
                    /\ Agree(m, L[m[i].term], i)
  BY Zenon DEF Rooted
<1>1. i \in Nat /\ i \in 1 .. Len(l) /\ m[i] = l[i]
  BY DEF Agree
<1>2. l[i].index = i /\ l[i].term \in DOMAIN L /\ Agree(l, L[l[i].term], i)
  BY <1>1, Zenon DEF Rooted
<1>3. Agree(m, l, i)
  BY DEF Agree
<1> QED
  BY <1>1, <1>2, <1>3, AgreeTransitive, Zenon

(* Two logs that have an entry of one term at an index agree up to it.     *)
LEMMA RootedMeet ==
  ASSUME NEW l \in Seq(Entry), NEW m \in Seq(Entry), NEW L,
         Rooted(l, L), Rooted(m, L),
         NEW i \in 1 .. Len(l), i <= Len(m), l[i].term = m[i].term
  PROVE  Agree(l, m, i)
<1>1. i \in 1 .. Len(m) /\ i \in Nat
  OBVIOUS
<1>2. Agree(l, L[l[i].term], i) /\ Agree(m, L[l[i].term], i)
  BY <1>1, Zenon DEF Rooted
<1> QED
  BY <1>1, <1>2, AgreeSymmetric, AgreeTransitive

LEMMA RootedGrown ==
  ASSUME NEW l \in Seq(Entry), NEW L, NEW M,
         \A t \in DOMAIN L : L[t] \in Seq(Entry),
         Rooted(l, L), Grown(L, M)
  PROVE  Rooted(l, M)
<1> SUFFICES ASSUME NEW i \in 1 .. Len(l)
             PROVE  /\ l[i].index = i /\ l[i].term \in DOMAIN M
                    /\ Agree(l, M[l[i].term], i)
  BY Zenon DEF Rooted
<1> DEFINE t == l[i].term
<1>1. l[i].index = i /\ t \in DOMAIN L /\ Agree(l, L[t], i) /\ i \in Nat
  BY DEF Rooted
<1>2. t \in DOMAIN M /\ Agree(L[t], M[t], Len(L[t]))
  BY <1>1, Zenon DEF Grown
<1>3. Agree(L[t], M[t], i)
  <2>1. i <= Len(L[t]) /\ Len(L[t]) \in Nat
    BY <1>1 DEF Agree
  <2> QED
    BY <1>1, <1>2, <2>1 DEF Agree
<1> HIDE DEF t
<1> QED
  BY <1>1, <1>2, <1>3, AgreeTransitive, Zenon DEF t

(* Within a log terms do not fall.                                         *)
LEMMA RootedTerms ==
  ASSUME NEW l \in Seq(Entry), NEW L, Rooted(l, L),
         \A t \in DOMAIN L : L[t] \in Seq(Entry) /\ Below(L[t], t),
         NEW i \in 1 .. Len(l), NEW j \in 1 .. Len(l), i <= j
  PROVE  l[i].term <= l[j].term
<1> DEFINE t == l[j].term
<1>1. t \in DOMAIN L /\ Agree(l, L[t], j)
  BY Zenon DEF Rooted
<1>2. i \in 1 .. Len(L[t]) /\ L[t][i] = l[i]
  BY <1>1 DEF Agree
<1> QED
  BY <1>1, <1>2, Zenon DEF Below

LEMMA JoinedLog ==
  ASSUME NEW a \in Seq(Entry), NEW b \in Seq(Entry)
  PROVE  /\ Len(a \o b) = Len(a) + Len(b)
         /\ \A j \in 1 .. Len(a) : (a \o b)[j] = a[j]
         /\ \A j \in 1 .. Len(b) : (a \o b)[Len(a) + j] = b[j]
<1> DEFINE m == a \o b
<1>1. /\ Len(m) = Len(a) + Len(b)
      /\ \A j \in 1 .. Len(a) + Len(b) :
           m[j] = IF j <= Len(a) THEN a[j] ELSE b[j - Len(a)]
  OBVIOUS
<1>2. Len(a) \in Nat /\ Len(b) \in Nat
  OBVIOUS
<1> HIDE DEF m
<1>3. \A j \in 1 .. Len(a) : m[j] = a[j]
  BY <1>1, <1>2
<1>4. \A j \in 1 .. Len(b) : m[Len(a) + j] = b[j]
  BY <1>1, <1>2
<1> QED
  BY <1>1, <1>3, <1>4, Zenon DEF m

(* The log l up to off + i - 1, followed by the entries es from the i-th.  *)
LEMMA SplicedLog ==
  ASSUME NEW l \in Seq(Entry), NEW es \in Seq(Entry), NEW off \in Nat,
         NEW i \in 1 .. Len(es), off + i - 1 <= Len(l)
  PROVE  LET m == SubSeq(l, 1, off + i - 1) \o SubSeq(es, i, Len(es))
         IN  /\ m \in Seq(Entry) /\ Len(m) = off + Len(es)
             /\ \A j \in 1 .. off + i - 1 : m[j] = l[j]
             /\ \A j \in i .. Len(es) : m[off + j] = es[j]
<1> DEFINE k == off + i - 1
           a == SubSeq(l, 1, k)
           b == SubSeq(es, i, Len(es))
           m == a \o b
<1>1. Len(l) \in Nat /\ Len(es) \in Nat /\ k \in 0 .. Len(l)
  OBVIOUS
<1>2. a \in Seq(Entry) /\ Len(a) = k /\ \A j \in 1 .. k : a[j] = l[j]
  <2> HIDE DEF k
  <2> QED
    BY <1>1
<1>3. /\ b \in Seq(Entry) /\ Len(b) = Len(es) - i + 1
      /\ \A j \in 1 .. Len(es) - i + 1 : b[j] = es[i + j - 1]
  BY <1>1
<1> HIDE DEF a, b
<1>4. /\ Len(m) = Len(a) + Len(b)
      /\ \A j \in 1 .. Len(a) : m[j] = a[j]
      /\ \A j \in 1 .. Len(b) : m[Len(a) + j] = b[j]
  BY <1>2, <1>3, JoinedLog, Zenon
<1>8. m \in Seq(Entry)
  BY <1>2, <1>3
<1> HIDE DEF m
<1>5. Len(m) = off + Len(es)
  BY <1>1, <1>2, <1>3, <1>4
<1>6. \A j \in 1 .. k : m[j] = l[j]
  BY <1>2, <1>4, Zenon
<1>7. ASSUME NEW j \in i .. Len(es) PROVE m[off + j] = es[j]
  <2> DEFINE x == j - i + 1
  <2>1. /\ x \in 1 .. Len(es) - i + 1 /\ x \in 1 .. Len(b)
        /\ i + x - 1 = j /\ Len(a) + x = off + j
    BY <1>1, <1>2, <1>3
  <2> HIDE DEF x
  <2>2. m[Len(a) + x] = b[x] /\ b[x] = es[i + x - 1]
    BY <1>3, <1>4, <2>1, Zenon
  <2> QED
    BY <2>1, <2>2, Zenon
<1> QED
  BY <1>5, <1>6, <1>7, <1>8, Zenon DEF m, a, b

(* Rule 4 of AppendEntries, for entries es that continue the log F where   *)
(* it agrees with l: the result has them, and keeps all that l shared with *)
(* F.  It is l, or it ends where es does.                                  *)
LEMMA MergeAgrees ==
  ASSUME LeastNumbers, NEW l \in Seq(Entry), NEW F \in Seq(Entry), NEW es \in Seq(Entry),
         NEW L, Rooted(l, L), Rooted(F, L),
         NEW off \in Nat, Agree(l, F, off), off + Len(es) <= Len(F),
         \A j \in 1 .. Len(es) : es[j] = F[off + j]
  PROVE  LET m == MergeEntries(l, off, es)
         IN  /\ m \in Seq(Entry) /\ Agree(m, F, off + Len(es))
             /\ m = l \/ Len(m) = off + Len(es)
             /\ \A k \in Nat : Agree(l, F, k) => Agree(m, F, k)
<1> DEFINE Differs(i) == off + i > Len(l) \/ l[off + i].term # es[i].term
           cut == {i \in 1 .. Len(es) :
                     Differs(i) /\ \A j \in 1 .. i - 1 : ~Differs(j)}
           i == CHOOSE k \in cut : TRUE
           m == MergeEntries(l, off, es)
<1>1. Len(l) \in Nat /\ Len(es) \in Nat /\ Len(F) \in Nat /\ off <= Len(l)
  BY DEF Agree
<1>3. m = IF cut = {} THEN l ELSE SubSeq(l, 1, off + i - 1) \o SubSeq(es, i, Len(es))
  BY Zenon DEF MergeEntries
<1>4. ASSUME NEW k \in 1 .. Len(es), ~Differs(k)
      PROVE  Agree(l, F, off + k)
  <2>1. off + k \in 1 .. Len(l) /\ off + k <= Len(F) /\ l[off + k].term = F[off + k].term
    BY <1>1, <1>4
  <2> QED
    BY <2>1, RootedMeet, Zenon
<1>5. CASE cut = {}
  <2>1. \A k \in 1 .. Len(es) : ~Differs(k)
    <3> DEFINE T == {k \in 1 .. Len(es) : Differs(k)}
    <3> SUFFICES ASSUME T # {} PROVE FALSE
      BY Zenon
    <3>1. T \in SUBSET Nat
      BY <1>1
    <3>2. PICK x \in T : \A y \in T : x <= y
      BY <3>1, Zenon DEF LeastNumbers
    <3>3. \A j \in 1 .. x - 1 : j \in 1 .. Len(es) /\ j \notin T
      BY <1>1, <3>1, <3>2, SMTT(30)
    <3>4. x \in cut
      BY <3>2, <3>3, Zenon
    <3> QED
      BY <1>5, <3>4, Zenon
  <2>2. Agree(l, F, off + Len(es))
    <3>1. CASE Len(es) = 0
      BY <3>1
    <3>2. CASE Len(es) # 0
      BY <3>2, <1>1, <1>4, <2>1, SMTT(30)
    <3> QED
      BY <3>1, <3>2, Zenon
  <2>3. m = l
    BY <1>3, <1>5, Zenon
  <2> HIDE DEF m
  <2> QED
    BY <2>2, <2>3, Zenon DEF m
<1>6. CASE cut # {}
  <2>1. i \in cut
    BY <1>6, Zenon
  <2>2. i \in 1 .. Len(es) /\ Differs(i) /\ \A j \in 1 .. i - 1 : ~Differs(j)
    BY <2>1, Zenon
  <2>3. m = SubSeq(l, 1, off + i - 1) \o SubSeq(es, i, Len(es))
    BY <1>3, <1>6, Zenon
  <2> HIDE DEF i, cut, m
  <2>4. Agree(l, F, off + i - 1)
    <3>1. CASE i = 1
      BY <3>1, <1>1
    <3>2. CASE i # 1
      <4>1. i - 1 \in 1 .. i - 1 /\ i - 1 \in 1 .. Len(es) /\ off + (i - 1) = off + i - 1
        BY <3>2, <1>1, <2>2
      <4> QED
        BY <4>1, <1>4, <2>2, Zenon
    <3> QED
      BY <3>1, <3>2, Zenon
  <2>5. off + i - 1 <= Len(l)
    BY <2>4, Zenon DEF Agree
  <2>9. /\ m \in Seq(Entry) /\ Len(m) = off + Len(es)
        /\ \A j \in 1 .. off + i - 1 : m[j] = l[j]
        /\ \A j \in i .. Len(es) : m[off + j] = es[j]
    <3> DEFINE c == SubSeq(l, 1, off + i - 1) \o SubSeq(es, i, Len(es))
    <3>1. /\ c \in Seq(Entry) /\ Len(c) = off + Len(es)
          /\ \A j \in 1 .. off + i - 1 : c[j] = l[j]
          /\ \A j \in i .. Len(es) : c[off + j] = es[j]
      BY <2>2, <2>5, SplicedLog, ZenonT(30)
    <3>2. m = c
      BY <2>3, Zenon
    <3> HIDE DEF c
    <3> QED
      BY <3>1, <3>2, Zenon
  <2>10. ASSUME NEW j \in 1 .. off + Len(es)
         PROVE  m[j] = F[j]
    <3>1. CASE j <= off + i - 1
      <4>1. j \in 1 .. off + i - 1
        BY <3>1, <1>1, <2>2
      <4> QED
        BY <4>1, <2>4, <2>9, Zenon DEF Agree
    <3>2. CASE ~(j <= off + i - 1)
      <4>1. j - off \in i .. Len(es) /\ off + (j - off) = j
        BY <3>2, <1>1, <2>2, SMTT(30)
      <4>2. j - off \in 1 .. Len(es)
        BY <4>1, <2>2
      <4>3. m[j] = es[j - off] /\ es[j - off] = F[j]
        BY <4>1, <4>2, <2>9, Zenon
      <4> QED
        BY <4>3, Zenon
    <3> QED
      BY <3>1, <3>2, Zenon
  <2>11. Agree(m, F, off + Len(es))
    BY <1>1, <2>9, <2>10 DEF Agree
  <2>12. ASSUME NEW k \in Nat, Agree(l, F, k)
         PROVE  k <= off + Len(es)
    <3>1. k <= off + i - 1
      <4> SUFFICES ASSUME off + i <= k PROVE FALSE
        BY <1>1, <2>2
      <4>1. off + i \in 1 .. k /\ off + i <= Len(l) /\ l[off + i] = F[off + i]
        BY <1>1, <2>2, <2>12 DEF Agree
      <4> QED
        BY <4>1, <1>1, <2>2
    <3> QED
      BY <3>1, <1>1, <2>2
  <2>13. \A k \in Nat : Agree(l, F, k) => Agree(m, F, k)
    BY <1>1, <2>9, <2>11, <2>12, AgreeLess
  <2> QED
    BY <2>9, <2>11, <2>13, Zenon DEF m
<1> QED
  BY <1>5, <1>6, Zenon

-----------------------------------------------------------------------------
(* What a step that elects nobody and appends no command preserves         *)

(* The types the argument uses.                                            *)
LogTypes ==
    /\ \A n \in Server : /\ currentTerm[n] \in Nat /\ logBase[n] = 0
                         /\ log[n] \in Seq(Entry)
                         /\ disk[n].log \in Seq(Entry) /\ disk[n].term \in Nat
    /\ \A t \in DOMAIN leaderLog : t \in Nat /\ leaderLog[t] \in Seq(Entry)
    /\ \A r \in leaderRpcs : r \in LeaderRpc
    /\ \A e \in elected : e \in Server \X Nat

LEMMA TypesOfLogs == StateTypeOK /\ Uncompacted /\ LogHistoryTypeOK => LogTypes
<1> SUFFICES ASSUME StateTypeOK, Uncompacted, LogHistoryTypeOK PROVE LogTypes
  BY Zenon
<1>1. \A n \in Server : /\ currentTerm[n] \in Nat /\ logBase[n] = 0
                       /\ log[n] \in Seq(Entry)
  BY Zenon DEF StateTypeOK, ElectionTypeOK, LogTypeOK, Uncompacted
<1>2. \A n \in Server : disk[n].log \in Seq(Entry) /\ disk[n].term \in Nat
  BY Zenon DEF StateTypeOK, DiskTypeOK
<1>3. \A r \in leaderRpcs : r \in LeaderRpc
  BY Zenon DEF StateTypeOK, NetworkTypeOK
<1>4. \A e \in elected : e \in Server \X Nat
  BY Zenon DEF StateTypeOK, HistoryTypeOK
<1>5. \A t \in DOMAIN leaderLog : t \in Nat /\ leaderLog[t] \in Seq(Entry)
  BY Zenon DEF LogHistoryTypeOK
<1> QED
  BY <1>1, <1>2, <1>3, <1>4, <1>5, Zenon DEF LogTypes

(* Whoever leads has led before, in the same term, and has kept its log.   *)
LeadersKept ==
    \A n \in Server : state'[n] = Leader =>
        state[n] = Leader /\ currentTerm'[n] = currentTerm[n] /\ log'[n] = log[n]

(* A new candidate is in a new term.                                       *)
CandidatesKept ==
    \A n \in Server : state'[n] = Candidate =>
        \/ state[n] = Candidate /\ currentTerm'[n] = currentTerm[n]
        \/ currentTerm'[n] > currentTerm[n]

LogsRight ==
    \A n \in Server :
        \/ log'[n] = log[n]
        \/ Rooted(log'[n], leaderLog) /\ Below(log'[n], currentTerm'[n])

FilesRight ==
    \A n \in Server :
        \/ disk'[n] = disk[n]
        \/ /\ Rooted(disk'[n].log, leaderLog) /\ Below(disk'[n].log, disk'[n].term)
           /\ disk'[n].term <= currentTerm'[n]

CallsRight ==
    \A r \in leaderRpcs' : r \in leaderRpcs \/ GoodCall(r, elected, leaderLog)

LEMMA BelowLater ==
  ASSUME NEW l \in Seq(Entry), NEW t \in Nat, NEW u \in Nat, Below(l, t), t <= u
  PROVE  Below(l, u)
  BY EntryFields DEF Below

LEMMA QuietLogStep ==
  ASSUME LogTypes, LogTypes', LogInv, UNCHANGED <<leaderLog, elected>>, TermsRise,
         LeadersKept, CandidatesKept, LogsRight, FilesRight, CallsRight
  PROVE  LogInv'
<1>1. RootedInv'
  BY Zenon DEF LogInv, RootedInv, LogsRight, FilesRight
<1>2. TermsInv'
  <2>1. ASSUME NEW n \in Server
        PROVE  /\ Below(log'[n], currentTerm'[n]) /\ Below(disk'[n].log, disk'[n].term)
               /\ disk'[n].term <= currentTerm'[n]
    <3>1. /\ currentTerm[n] \in Nat /\ currentTerm'[n] \in Nat /\ log[n] \in Seq(Entry)
          /\ disk[n].term \in Nat /\ currentTerm[n] <= currentTerm'[n]
      BY Zenon DEF LogTypes, TermsRise
    <3>2. /\ Below(log[n], currentTerm[n]) /\ Below(disk[n].log, disk[n].term)
          /\ disk[n].term <= currentTerm[n]
      BY Zenon DEF LogInv, TermsInv
    <3>3. Below(log[n], currentTerm'[n]) /\ disk[n].term <= currentTerm'[n]
      BY <3>1, <3>2, BelowLater
    <3> QED
      BY <3>2, <3>3, Zenon DEF LogsRight, FilesRight
  <2> QED
    BY <2>1, Zenon DEF LogInv, TermsInv
<1>3. LeadersInv'
  <2>1. ASSUME NEW n \in Server, state'[n] = Leader
        PROVE  <<n, currentTerm'[n]>> \in elected /\ log'[n] = leaderLog[currentTerm'[n]]
    BY <2>1, Zenon DEF LogInv, LeadersInv, LeadersKept
  <2>2. ASSUME NEW e \in elected
        PROVE  e[2] <= currentTerm'[e[1]] /\ e[2] <= currentTerm[e[1]]
    <3>1. e[1] \in Server /\ e[2] \in Nat /\ e[2] <= currentTerm[e[1]]
      BY Zenon DEF LogInv, LeadersInv, LogTypes
    <3>2. /\ currentTerm[e[1]] <= currentTerm'[e[1]]
          /\ currentTerm[e[1]] \in Nat /\ currentTerm'[e[1]] \in Nat
      BY <3>1, Zenon DEF TermsRise, LogTypes
    <3> QED
      BY <3>1, <3>2
  <2>3. ASSUME NEW n \in Server, state'[n] = Candidate
        PROVE  <<n, currentTerm'[n]>> \notin elected
    <3>1. CASE state[n] = Candidate /\ currentTerm'[n] = currentTerm[n]
      BY <3>1, Zenon DEF LogInv, LeadersInv
    <3>2. CASE currentTerm'[n] > currentTerm[n]
      <4> SUFFICES ASSUME <<n, currentTerm'[n]>> \in elected PROVE FALSE
        BY Zenon
      <4>1. currentTerm'[n] <= currentTerm[n]
        BY <2>2, Zenon
      <4>2. currentTerm[n] \in Nat /\ currentTerm'[n] \in Nat
        BY Zenon DEF LogTypes
      <4> QED
        BY <3>2, <4>1, <4>2
    <3> QED
      BY <2>3, <3>1, <3>2, Zenon DEF CandidatesKept
  <2> QED
    BY <2>1, <2>2, <2>3, Zenon DEF LogInv, LeadersInv
<1>4. CallsInv'
  BY Zenon DEF LogInv, CallsInv, CallsRight
<1> QED
  BY <1>1, <1>2, <1>3, <1>4, Zenon DEF LogInv

(* Steps that only move calls.                                             *)
LEMMA LogsUntouched ==
  ASSUME LogTypes, LogTypes', LogInv, UNCHANGED <<currentTerm, state, log, disk>>,
         UNCHANGED <<leaderLog, elected>>, CallsRight
  PROVE  LogInv'
<1>1. TermsRise
  BY DEF TermsRise, LogTypes
<1>2. LeadersKept /\ CandidatesKept /\ LogsRight /\ FilesRight
  BY Zenon DEF LeadersKept, CandidatesKept, LogsRight, FilesRight
<1> QED
  BY <1>1, <1>2, QuietLogStep, Zenon

-----------------------------------------------------------------------------
(* The steps                                                               *)

LEMMA LogInit == Init => LogInv
<1> SUFFICES ASSUME Init PROVE LogInv
  BY Zenon
<1>1. DOMAIN leaderLog = {} /\ elected = {} /\ leaderRpcs = {}
  BY DEF Init
<1>2. \A n \in Server : log[n] = << >> /\ disk[n].log = << >> /\ disk[n].term = 0
                       /\ currentTerm[n] = 0 /\ state[n] = Follower
  BY Zenon DEF Init
<1>3. \A L, t : Rooted(<< >>, L) /\ Below(<< >>, t)
  BY DEF Rooted, Below
<1> QED
  BY <1>1, <1>2, <1>3 DEF LogInv, RootedInv, TermsInv, LeadersInv, CallsInv,
                          Follower, Candidate, Leader

(* A save puts the present log, under the present or a new term.           *)
LEMMA FilesRightSaved ==
  ASSUME LogTypes, LogInv, NEW n \in Server, NEW v, NEW t \in Nat,
         currentTerm[n] <= t, currentTerm'[n] = t,
         Saved(n, t, v, log[n]) \/ UNCHANGED disk
  PROVE  FilesRight
<1>1. CASE UNCHANGED disk
  BY <1>1, Zenon DEF FilesRight
<1>2. CASE Saved(n, t, v, log[n])
  <2>1. \A m \in Server : m # n => disk'[m] = disk[m]
    BY <1>2 DEF Saved
  <2>2. disk'[n] = disk[n] \/ (disk'[n].log = log[n] /\ disk'[n].term = t)
    BY <1>2 DEF Saved
  <2>3. Rooted(log[n], leaderLog) /\ Below(log[n], currentTerm[n])
    BY Zenon DEF LogInv, RootedInv, TermsInv
  <2>4. Below(log[n], t) /\ t <= t
    BY <2>3, BelowLater DEF LogTypes
  <2> QED
    BY <2>1, <2>2, <2>3, <2>4, Zenon DEF FilesRight
<1> QED
  BY <1>1, <1>2, Zenon

(* Terms rise when one node's does and the others keep theirs.             *)
LEMMA TermsRiseAt ==
  ASSUME LogTypes, NEW n \in Server, currentTerm[n] <= currentTerm'[n],
         \A m \in Server \ {n} : currentTerm'[m] = currentTerm[m]
  PROVE  TermsRise
<1>1. \A m \in Server : currentTerm[m] <= currentTerm[m]
  BY LeqSelf, Zenon DEF LogTypes
<1> QED
  BY <1>1, Zenon DEF TermsRise

LEMMA LogBecomeCandidate ==
  ASSUME LogTypes, LogTypes', StateTypeOK, LogInv, NEW n \in Server, NEW reached,
         BecomeCandidate(n, reached)
  PROVE  LogInv'
<1> DEFINE t == currentTerm[n] + 1
<1>1. /\ state' = [state EXCEPT ![n] = Candidate]
      /\ currentTerm' = [currentTerm EXCEPT ![n] = t]
      /\ Saved(n, t, n, log[n]) \/ UNCHANGED disk
      /\ UNCHANGED <<logVars, leaderRpcs, elected, logHistory>>
  BY Zenon DEF BecomeCandidate, SaveFails
<1>2. UNCHANGED <<log, leaderLog>> /\ CallsRight
  BY <1>1, Zenon DEF logVars, logHistory, CallsRight
<1>3. /\ currentTerm[n] \in Nat /\ t \in Nat /\ currentTerm[n] <= t
      /\ currentTerm'[n] = t /\ state'[n] = Candidate /\ currentTerm[n] < t
      /\ \A m \in Server \ {n} : currentTerm'[m] = currentTerm[m] /\ state'[m] = state[m]
  <2>1. /\ currentTerm[n] \in Nat /\ t \in Nat /\ currentTerm[n] < t
        /\ currentTerm[n] <= t
    BY NextIsMore, Zenon DEF LogTypes
  <2> HIDE DEF t
  <2> QED
    BY <1>1, <2>1, Zenon DEF StateTypeOK, ElectionTypeOK
<1>4. TermsRise
  BY <1>3, TermsRiseAt, Zenon
<1>5. LeadersKept /\ CandidatesKept /\ LogsRight
  BY <1>2, <1>3, Zenon DEF LeadersKept, CandidatesKept, LogsRight, Candidate, Leader
<1>6. FilesRight
  BY <1>1, <1>3, FilesRightSaved, Zenon
<1> QED
  BY <1>1, <1>2, <1>4, <1>5, <1>6, QuietLogStep, Zenon

LEMMA LogRequestVote ==
  ASSUME LogTypes, LogTypes', StateTypeOK, LogInv, NEW r \in voteRpcs, RequestVote(r)
  PROVE  LogInv'
<1> DEFINE n     == r.peer
           newer == r.term > currentTerm[n]
           term  == IF newer THEN r.term ELSE currentTerm[n]
           vote  == IF newer THEN None ELSE votedFor[n]
<1>1. /\ currentTerm' = [currentTerm EXCEPT ![n] = term]
      /\ state' = [state EXCEPT ![n] = IF newer THEN Follower ELSE @]
      /\ Saved(n, term, vote, log[n]) \/ UNCHANGED disk
      /\ UNCHANGED <<logVars, leaderRpcs, elected, logHistory>>
  BY Zenon DEF RequestVote, SaveFails
<1>2. UNCHANGED <<log, leaderLog>> /\ CallsRight
  BY <1>1, Zenon DEF logVars, logHistory, CallsRight
<1>3. n \in Server /\ r.term \in Nat /\ currentTerm[n] \in Nat
  BY Zenon DEF StateTypeOK, NetworkTypeOK, VoteRpc, LogTypes
<1>4. /\ term \in Nat /\ currentTerm[n] <= term /\ currentTerm'[n] = term
      /\ \/ state'[n] = Follower
         \/ state'[n] = state[n] /\ term = currentTerm[n]
      /\ \A m \in Server \ {n} : currentTerm'[m] = currentTerm[m] /\ state'[m] = state[m]
  <2>1. term \in Nat /\ currentTerm[n] <= term /\ (newer \/ term = currentTerm[n])
    BY <1>3, LeqSelf, GreaterOrEqual, Zenon
  <2> HIDE DEF n, newer, term
  <2>2. /\ currentTerm'[n] = term /\ state'[n] = IF newer THEN Follower ELSE state[n]
        /\ \A m \in Server \ {n} : currentTerm'[m] = currentTerm[m] /\ state'[m] = state[m]
    BY <1>1, <1>3, Zenon DEF StateTypeOK, ElectionTypeOK
  <2> QED
    BY <2>1, <2>2, Zenon
<1> HIDE DEF n, newer, term, vote
<1>5. TermsRise
  BY <1>3, <1>4, TermsRiseAt, Zenon
<1>6. LeadersKept /\ CandidatesKept /\ LogsRight
  BY <1>2, <1>4, Zenon
     DEF LeadersKept, CandidatesKept, LogsRight, Follower, Candidate, Leader
<1>7. FilesRight
  BY <1>1, <1>3, <1>4, FilesRightSaved, Zenon
<1> QED
  BY <1>1, <1>2, <1>5, <1>6, <1>7, QuietLogStep, Zenon

LEMMA LogStepDown ==
  ASSUME LogTypes, LogTypes', StateTypeOK, LogInv, NEW n \in Server, NEW t \in Nat,
         StepDown(n, t), t > currentTerm[n],
         UNCHANGED <<log, disk, leaderLog, elected>>, CallsRight
  PROVE  LogInv'
<1>1. /\ currentTerm'[n] = t /\ state'[n] = Follower /\ currentTerm[n] \in Nat
      /\ \A m \in Server \ {n} : currentTerm'[m] = currentTerm[m] /\ state'[m] = state[m]
  BY Zenon DEF StepDown, StateTypeOK, ElectionTypeOK
<1>2. TermsRise
  BY <1>1 DEF TermsRise, LogTypes
<1>3. LeadersKept /\ CandidatesKept /\ LogsRight /\ FilesRight
  BY <1>1, Zenon DEF LeadersKept, CandidatesKept, LogsRight, FilesRight, Follower,
              Candidate, Leader
<1> QED
  BY <1>2, <1>3, QuietLogStep, Zenon

LEMMA LogHandleVoteReply ==
  ASSUME LogTypes, LogTypes', StateTypeOK, LogInv, NEW r \in voteRpcs, HandleVoteReply(r)
  PROVE  LogInv'
<1>1. /\ UNCHANGED <<logVars, diskVars, leaderRpcs, elected, logHistory>>
      /\ \/ UNCHANGED electionVars
         \/ StepDown(r.cand, r.rterm) /\ r.rterm > currentTerm[r.cand]
         \/ UNCHANGED <<currentTerm, state>>
  BY Zenon DEF HandleVoteReply
<1>2. UNCHANGED <<log, disk, leaderLog, elected>> /\ CallsRight
  BY <1>1, Zenon DEF logVars, diskVars, logHistory, CallsRight
<1>3. r.cand \in Server /\ r.rterm \in Nat
  BY Zenon DEF StateTypeOK, NetworkTypeOK, VoteRpc
<1>4. UNCHANGED electionVars => UNCHANGED <<currentTerm, state>>
  BY Zenon DEF electionVars
<1> QED
  BY <1>1, <1>2, <1>3, <1>4, LogStepDown, LogsUntouched, Zenon

(* What agreed with the leaders' logs still does when these have grown.    *)
LEMMA GrownLogs ==
  ASSUME LogTypes, LogInv, NEW M, Grown(leaderLog, M)
  PROVE  /\ \A n \in Server : Rooted(log[n], M) /\ Rooted(disk[n].log, M)
         /\ \A t \in DOMAIN leaderLog : Rooted(leaderLog[t], M)
         /\ \A r \in leaderRpcs : GoodCall(r, elected, M)
<1>1. \A t \in DOMAIN leaderLog : leaderLog[t] \in Seq(Entry)
  BY Zenon DEF LogTypes
<1>2. \A n \in Server : Rooted(log[n], M) /\ Rooted(disk[n].log, M)
  BY <1>1, RootedGrown, Zenon DEF LogTypes, LogInv, RootedInv
<1>3. \A t \in DOMAIN leaderLog : Rooted(leaderLog[t], M)
  BY <1>1, RootedGrown, Zenon DEF LogInv, RootedInv
<1>4. ASSUME NEW r \in leaderRpcs PROVE GoodCall(r, elected, M)
  <2> DEFINE F == leaderLog[r.term]
             G == M[r.term]
  <2>1. GoodCall(r, elected, leaderLog)
    BY Zenon DEF LogInv, CallsInv
  <2>2. r.term \in DOMAIN leaderLog
    BY <2>1, Zenon DEF GoodCall, LogInv, LeadersInv
  <2>3. Agree(F, G, Len(F)) /\ F \in Seq(Entry)
    BY <1>1, <2>2, Zenon DEF Grown
  <2>4. r.prev \in Nat /\ r.entries \in Seq(Entry)
    BY Zenon DEF LogTypes, LeaderRpc
  <2> HIDE DEF F, G
  <2>5. FromLog(r, F) => FromLog(r, G)
    <3> SUFFICES ASSUME FromLog(r, F) PROVE FromLog(r, G)
      BY Zenon
    <3>1. Len(r.entries) \in Nat /\ Len(F) \in Nat /\ Len(F) <= Len(G)
      BY <2>3, <2>4 DEF Agree
    <3>2. r.prev + Len(r.entries) <= Len(G)
      <4>1. r.prev + Len(r.entries) <= Len(F)
        BY Zenon DEF FromLog
      <4> QED
        BY <4>1, <3>1, <2>3, <2>4 DEF Agree
    <3>3. ASSUME NEW j \in 1 .. Len(r.entries) PROVE r.entries[j] = G[r.prev + j]
      <4>1. r.prev + j \in 1 .. Len(F) /\ r.entries[j] = F[r.prev + j]
        BY <2>4, <3>1 DEF FromLog
      <4> QED
        BY <4>1, <2>3, Zenon DEF Agree
    <3>4. r.prev > 0 => G[r.prev].term = r.prevTerm
      <4>1. r.prev > 0 => r.prev \in 1 .. Len(F) /\ F[r.prev].term = r.prevTerm
        BY <2>4, <3>1 DEF FromLog
      <4> QED
        BY <4>1, <2>3, Zenon DEF Agree
    <3> QED
      BY <3>2, <3>3, <3>4, Zenon DEF FromLog
  <2> QED
    BY <2>1, <2>5, Zenon DEF GoodCall, F, G
<1> QED
  BY <1>2, <1>3, <1>4, Zenon

LEMMA GoodCallLater ==
  ASSUME NEW r, NEW E, NEW D, NEW L, E \subseteq D, GoodCall(r, E, L)
  PROVE  GoodCall(r, D, L)
  BY Zenon DEF GoodCall

LEMMA LogBecomeLeader ==
  ASSUME LogTypes, LogTypes', StateTypeOK, LogInv, ElectionSafety',
         NEW n \in Server, BecomeLeader(n)
  PROVE  LogInv'
<1> DEFINE t == currentTerm[n]
<1>1. /\ UNCHANGED <<currentTerm, logVars, diskVars, leaderRpcs>>
      /\ \/ /\ state[n] = Candidate
            /\ state' = [state EXCEPT ![n] = Leader]
            /\ elected' = elected \cup {<<n, t>>}
            /\ leaderLog' = [u \in DOMAIN leaderLog \cup {t} |->
                               IF u = t THEN log[n] ELSE leaderLog[u]]
         \/ UNCHANGED <<state, elected, leaderLog>>
  BY Zenon DEF BecomeLeader
<1>2. UNCHANGED <<log, disk>> /\ CallsRight
  BY <1>1, Zenon DEF logVars, diskVars, CallsRight
<1>3. CASE UNCHANGED <<state, elected, leaderLog>>
  BY <1>1, <1>2, <1>3, LogsUntouched, Zenon
<1>4. CASE /\ state[n] = Candidate
           /\ state' = [state EXCEPT ![n] = Leader]
           /\ elected' = elected \cup {<<n, t>>}
           /\ leaderLog' = [u \in DOMAIN leaderLog \cup {t} |->
                              IF u = t THEN log[n] ELSE leaderLog[u]]
  <2>1. <<n, t>> \notin elected /\ t \in Nat
    BY <1>4, Zenon DEF LogInv, LeadersInv, LogTypes
  <2>2. t \notin DOMAIN leaderLog
    <3> SUFFICES ASSUME t \in DOMAIN leaderLog PROVE FALSE
      BY Zenon
    <3>1. PICK m \in Server : <<m, t>> \in elected
      BY Zenon DEF LogInv, LeadersInv
    <3>2. <<m, t>> \in elected' /\ <<n, t>> \in elected'
      BY <1>4, <3>1, Zenon
    <3>3. m = n
      BY <3>2, Zenon DEF ElectionSafety
    <3> QED
      BY <2>1, <3>1, <3>3, Zenon
  <2>3. /\ DOMAIN leaderLog' = DOMAIN leaderLog \cup {t}
        /\ leaderLog'[t] = log[n]
        /\ \A u \in DOMAIN leaderLog : leaderLog'[u] = leaderLog[u]
    BY <1>4, <2>2, Zenon
  <2>4. Grown(leaderLog, leaderLog')
    <3>1. \A u \in DOMAIN leaderLog : Len(leaderLog[u]) \in Nat
      BY DEF LogTypes
    <3> QED
      BY <2>3, <3>1 DEF Grown, Agree
  <2>5. /\ \A m \in Server : Rooted(log[m], leaderLog') /\ Rooted(disk[m].log, leaderLog')
        /\ \A u \in DOMAIN leaderLog : Rooted(leaderLog[u], leaderLog')
        /\ \A r \in leaderRpcs : GoodCall(r, elected, leaderLog')
    BY <2>4, GrownLogs, Zenon
  <2>6. RootedInv'
    <3>1. \A u \in DOMAIN leaderLog' : Rooted(leaderLog'[u], leaderLog')
      BY <2>3, <2>5, Zenon
    <3> QED
      BY <1>2, <2>5, <3>1, Zenon DEF RootedInv
  <2>7. TermsInv'
    BY <1>1, <1>2, <2>3, Zenon DEF LogInv, TermsInv
  <2>8. CallsInv'
    <3>1. \A r \in leaderRpcs : GoodCall(r, elected', leaderLog')
      BY <1>4, <2>5, GoodCallLater, Zenon
    <3> QED
      BY <1>1, <3>1, Zenon DEF CallsInv
  <2>9. LeadersInv'
    <3>1. ASSUME NEW m \in Server, state'[m] = Leader
          PROVE  /\ <<m, currentTerm[m]>> \in elected'
                 /\ log[m] = leaderLog'[currentTerm[m]]
      <4>1. CASE m = n
        BY <4>1, <1>4, <2>3, Zenon
      <4>2. CASE m # n
        <5>1. state[m] = Leader
          BY <3>1, <4>2, <1>4, Zenon DEF StateTypeOK, ElectionTypeOK
        <5>2. /\ <<m, currentTerm[m]>> \in elected
              /\ log[m] = leaderLog[currentTerm[m]]
          BY <5>1, Zenon DEF LogInv, LeadersInv
        <5>3. currentTerm[m] \in DOMAIN leaderLog
          BY <5>2, Zenon DEF LogInv, LeadersInv
        <5> QED
          BY <5>2, <5>3, <1>4, <2>3, Zenon
      <4> QED
        BY <4>1, <4>2, Zenon
    <3>2. ASSUME NEW m \in Server, state'[m] = Candidate
          PROVE  <<m, currentTerm[m]>> \notin elected'
      <4>1. m # n /\ state[m] = Candidate
        BY <3>2, <1>4, Zenon DEF StateTypeOK, ElectionTypeOK, Leader, Candidate
      <4> QED
        BY <4>1, <1>4, Zenon DEF LogInv, LeadersInv
    <3>3. ASSUME NEW e \in elected'
          PROVE  e[2] \in DOMAIN leaderLog' /\ e[2] <= currentTerm[e[1]]
      <4>1. CASE e = <<n, t>>
        BY <4>1, <2>1, <2>3
      <4>2. CASE e \in elected
        BY <4>2, <2>3, Zenon DEF LogInv, LeadersInv
      <4> QED
        BY <1>4, <4>1, <4>2, Zenon
    <3>4. \A u \in DOMAIN leaderLog' : \E m \in Server : <<m, u>> \in elected'
      BY <1>4, <2>3, Zenon DEF LogInv, LeadersInv
    <3> QED
      BY <1>1, <1>2, <3>1, <3>2, <3>3, <3>4, Zenon DEF LeadersInv
  <2> QED
    BY <2>6, <2>7, <2>8, <2>9, Zenon DEF LogInv
<1> QED
  BY <1>1, <1>3, <1>4, Zenon

LEMMA SpawnedCalls ==
  ASSUME NEW n, NEW reached, NEW commit, Spawn(n, reached, commit)
  PROVE  \A r \in leaderRpcs' :
           \/ r \in leaderRpcs
           \/ /\ r.leader = n /\ r.peer \in reached /\ r.term = currentTerm[n]
              /\ r.phase = "call" /\ r.commit = commit
<1> DEFINE Call(p) ==
             [leader |-> n, peer |-> p, term |-> currentTerm[n], commit |-> commit,
              phase |-> "call", prev |-> 0, prevTerm |-> 0, entries |-> << >>,
              snap |-> NoSnap, match |-> 0, rterm |-> 0, success |-> FALSE]
<1>1. leaderRpcs' = leaderRpcs \cup {Call(p) : p \in reached}
  BY Zenon DEF Spawn
<1>2. \A p \in reached : /\ Call(p).leader = n /\ Call(p).peer = p
                         /\ Call(p).term = currentTerm[n]
                         /\ Call(p).phase = "call" /\ Call(p).commit = commit
  BY Zenon
<1> HIDE DEF Call
<1> QED
  BY <1>1, <1>2

LEMMA CallsRightSpawned ==
  ASSUME LogInv, NEW n \in Server, NEW reached \in SUBSET Peers(n), NEW commit,
         state[n] = Leader, Spawn(n, reached, commit)
  PROVE  CallsRight
<1>1. <<n, currentTerm[n]>> \in elected
  BY Zenon DEF LogInv, LeadersInv
<1>2. \A r \in leaderRpcs' :
        \/ r \in leaderRpcs
        \/ /\ r.leader = n /\ r.peer \in reached /\ r.term = currentTerm[n]
           /\ r.phase = "call" /\ r.commit = commit
  BY SpawnedCalls
<1> QED
  BY <1>1, <1>2, Zenon DEF CallsRight, GoodCall, Peers

LEMMA AppendRequestFields ==
  ASSUME NEW r \in LeaderRpc, NEW prev, NEW pterm, NEW es
  PROVE  LET s == AppendRequest(r, prev, pterm, es)
         IN  /\ s.leader = r.leader /\ s.peer = r.peer /\ s.term = r.term
             /\ s.commit = r.commit /\ s.phase = "req" /\ s.prev = prev
             /\ s.prevTerm = pterm /\ s.entries = es
  BY Zenon DEF AppendRequest, LeaderRpc

LEMMA AppendReplyFields ==
  ASSUME NEW r \in LeaderRpc, NEW t, NEW ok
  PROVE  LET s == AppendReply(r, t, ok)
         IN  /\ s.leader = r.leader /\ s.peer = r.peer /\ s.term = r.term
             /\ s.commit = r.commit /\ s.phase = "resp" /\ s.success = ok
             /\ s.match = r.prev + Len(r.entries)
  BY Zenon DEF AppendReply, LeaderRpc

LEMMA RetryFields ==
  ASSUME NEW r \in LeaderRpc
  PROVE  /\ Retry(r).leader = r.leader /\ Retry(r).peer = r.peer
         /\ Retry(r).term = r.term /\ Retry(r).commit = r.commit
         /\ Retry(r).phase = "call"
  BY Zenon DEF Retry, LeaderRpc

(* A call that moves on without a request is as good as it was.            *)
LEMMA CallsRightAdvanced ==
  ASSUME LogInv, NEW r \in leaderRpcs, NEW s, s.leader = r.leader, s.peer = r.peer,
         s.term = r.term, s.phase # "req", Advance(r, s)
  PROVE  CallsRight
<1>1. <<r.leader, r.term>> \in elected /\ r.peer # r.leader
  BY Zenon DEF LogInv, CallsInv, GoodCall
<1> QED
  BY <1>1, Zenon DEF Advance, CallsRight, GoodCall

(* The request is cut out of the leader's log.                             *)
LEMMA RequestFromLog ==
  ASSUME NEW F \in Seq(Entry), NEW prev \in 0 .. Len(F), NEW r,
         r.prev = prev, r.entries = SubSeq(F, prev + 1, Len(F)),
         prev > 0 => r.prevTerm = F[prev].term
  PROVE  FromLog(r, F)
<1> DEFINE es == SubSeq(F, prev + 1, Len(F))
<1>1. Len(F) \in Nat /\ \A i \in prev + 1 .. Len(F) : F[i] \in Entry
  OBVIOUS
<1>2. /\ Len(es) = IF prev + 1 <= Len(F) THEN Len(F) - (prev + 1) + 1 ELSE 0
      /\ \A i \in 1 .. Len(F) - (prev + 1) + 1 : es[i] = F[prev + 1 + i - 1]
  BY <1>1, SMTT(30)
<1>3. r.entries = es
  BY Zenon
<1> HIDE DEF es
<1>4. Len(es) = Len(F) - prev
  BY <1>1, <1>2
<1>5. ASSUME NEW j \in 1 .. Len(es) PROVE es[j] = F[prev + j]
  <2>1. j \in 1 .. Len(F) - (prev + 1) + 1 /\ prev + 1 + j - 1 = prev + j
    BY <1>1, <1>4
  <2> QED
    BY <1>2, <2>1, Zenon
<1>6. r.prev + Len(r.entries) <= Len(F)
  BY <1>1, <1>3, <1>4
<1> QED
  BY <1>3, <1>5, <1>6, Zenon DEF FromLog

LEMMA LogSendHeartbeats ==
  ASSUME LogTypes, LogTypes', LogInv, NEW n \in Server,
         NEW reached \in SUBSET Peers(n), SendHeartbeats(n, reached)
  PROVE  LogInv'
<1>1. state[n] = Leader /\ Spawn(n, reached, commitIndex[n])
  BY Zenon DEF SendHeartbeats
<1>2. UNCHANGED <<currentTerm, state, log, disk>> /\ UNCHANGED <<leaderLog, elected>>
  BY Zenon
     DEF SendHeartbeats, electionVars, logVars, diskVars, historyVars, logHistory
<1> QED
  BY <1>1, <1>2, CallsRightSpawned, LogsUntouched, Zenon

LEMMA LogSendAppendEntries ==
  ASSUME LogTypes, LogTypes', StateTypeOK, LogInv, NEW r \in leaderRpcs,
         SendAppendEntries(r)
  PROVE  LogInv'
<1> DEFINE n     == r.leader
           base  == logBase[n]
           wish  == nextIndex[n][r.peer] - 1
           prev  == IF wish - base \in 1 .. Len(log[n]) THEN wish ELSE 0
           first == prev + 1
           pterm == IF prev > 0 THEN log[n][prev - base].term ELSE 0
           es    == IF first <= base THEN << >>
                    ELSE SubSeq(log[n], first - base, Len(log[n]) - base)
<1>1. UNCHANGED <<currentTerm, state, log, disk>> /\ UNCHANGED <<leaderLog, elected>>
  BY Zenon
     DEF SendAppendEntries, electionVars, logVars, diskVars, historyVars, logHistory
<1>2. \/ leaderRpcs' = leaderRpcs \ {r}
      \/ Advance(r, [r EXCEPT !.phase = "icall"])
      \/ /\ state[n] = Leader /\ currentTerm[n] = r.term
         /\ Advance(r, AppendRequest(r, prev, pterm, es))
  BY Zenon DEF SendAppendEntries
<1>3. /\ r \in LeaderRpc /\ n \in Server /\ base = 0 /\ log[n] \in Seq(Entry)
      /\ Len(log[n]) \in Nat /\ wish \in Int
  <2>1. r \in LeaderRpc /\ n \in Server /\ r.peer \in Server
    BY Zenon DEF LogTypes, LeaderRpc
  <2>2. base = 0 /\ log[n] \in Seq(Entry) /\ Len(log[n]) \in Nat
    BY <2>1, LenIsNat, Zenon DEF LogTypes
  <2>3. nextIndex[n][r.peer] \in Nat
    BY <2>1, Zenon DEF StateTypeOK, LeaderTypeOK
  <2>4. wish \in Int
    BY <2>3, SMTT(30)
  <2> QED
    BY <2>1, <2>2, <2>4, Zenon
<1>4. CASE leaderRpcs' = leaderRpcs \ {r}
  <2>1. CallsRight
    BY <1>4, Zenon DEF CallsRight
  <2> QED
    BY <2>1, <1>1, LogsUntouched, Zenon
<1>5. CASE Advance(r, [r EXCEPT !.phase = "icall"])
  <2> DEFINE s == [r EXCEPT !.phase = "icall"]
  <2>1. s.leader = r.leader /\ s.peer = r.peer /\ s.term = r.term /\ s.phase = "icall"
    BY <1>3, Zenon DEF LeaderRpc
  <2> HIDE DEF s
  <2>2. CallsRight
    BY <2>1, <1>5, CallsRightAdvanced, Zenon DEF s
  <2> QED
    BY <2>2, <1>1, LogsUntouched, Zenon
<1>6. CASE /\ state[n] = Leader /\ currentTerm[n] = r.term
           /\ Advance(r, AppendRequest(r, prev, pterm, es))
  <2> DEFINE s == AppendRequest(r, prev, pterm, es)
  <2>1. /\ s.leader = r.leader /\ s.peer = r.peer /\ s.term = r.term
        /\ s.prev = prev /\ s.prevTerm = pterm /\ s.entries = es
    <3> HIDE DEF n, base, wish, first, prev, pterm, es
    <3> QED
      BY <1>3, AppendRequestFields
  <2>2. log[n] = leaderLog[r.term]
    BY <1>3, <1>6, Zenon DEF LogInv, LeadersInv
  <2>3. /\ prev \in 0 .. Len(log[n])
        /\ prev > 0 => pterm = log[n][prev].term
        /\ es = SubSeq(log[n], prev + 1, Len(log[n]))
    <3>1. prev = IF wish - base \in 1 .. Len(log[n]) THEN wish ELSE 0
      BY Zenon
    <3>2. wish \in Int /\ Len(log[n]) \in Nat /\ base = 0
      BY <1>3, Zenon
    <3> HIDE DEF prev, base, n, wish
    <3>3. /\ prev \in 0 .. Len(log[n])
          /\ prev - base = prev /\ first - base = prev + 1 /\ ~(first <= base)
          /\ Len(log[n]) - base = Len(log[n])
      BY ONLY <3>1, <3>2, SMTT(30)
    <3> QED
      BY <3>3, Zenon
  <2> DEFINE F == log[n]
  <2>4. F \in Seq(Entry) /\ F = leaderLog[r.term]
    BY <1>3, <2>2, Zenon
  <2> HIDE DEF s, n, base, wish, first, prev, pterm, es, F
  <2>5. FromLog(s, F)
    BY <2>1, <2>3, <2>4, RequestFromLog, Zenon DEF F
  <2>6. <<r.leader, r.term>> \in elected /\ r.peer # r.leader
    BY Zenon DEF LogInv, CallsInv, GoodCall
  <2>7. GoodCall(s, elected, leaderLog)
    BY <2>1, <2>4, <2>5, <2>6, Zenon DEF GoodCall
  <2>8. CallsRight
    BY <1>6, <2>7, Zenon DEF CallsRight, Advance, s
  <2> QED
    BY <2>8, <1>1, LogsUntouched, Zenon
<1> QED
  BY <1>2, <1>4, <1>5, <1>6, Zenon

LEMMA LogHandleAppendReply ==
  ASSUME LogTypes, LogTypes', StateTypeOK, LogInv, NEW r \in leaderRpcs,
         HandleAppendReply(r)
  PROVE  LogInv'
<1> DEFINE n == r.leader
<1>1. UNCHANGED <<log, disk>> /\ UNCHANGED <<leaderLog, elected>>
  BY Zenon DEF HandleAppendReply, diskVars, historyVars, logHistory
<1>2. \/ leaderRpcs' = leaderRpcs \ {r} /\ UNCHANGED electionVars
      \/ /\ leaderRpcs' = leaderRpcs \ {r} /\ StepDown(n, r.rterm)
         /\ currentTerm[n] = r.term /\ r.rterm > r.term
      \/ Advance(r, Retry(r)) /\ UNCHANGED electionVars
  BY Zenon DEF HandleAppendReply
<1>3. r \in LeaderRpc /\ n \in Server /\ r.rterm \in Nat
  BY Zenon DEF LogTypes, LeaderRpc
<1>4. UNCHANGED electionVars => UNCHANGED <<currentTerm, state>>
  BY Zenon DEF electionVars
<1>5. leaderRpcs' = leaderRpcs \ {r} => CallsRight
  BY Zenon DEF CallsRight
<1>6. Advance(r, Retry(r)) => CallsRight
  BY <1>3, RetryFields, CallsRightAdvanced, Zenon
<1> QED
  BY <1>1, <1>2, <1>3, <1>4, <1>5, <1>6, LogStepDown, LogsUntouched, Zenon

(* The steps that only take, move or end calls, or apply an entry.         *)
LEMMA LogElsewhere ==
  ASSUME LogTypes, LogTypes', LogInv,
         \/ \E r \in voteRpcs : SendRequestVote(r)
         \/ \E n \in Server : ApplyPendingEntries(n)
         \/ LoseRpc
         \/ UNCHANGED vars
  PROVE  LogInv'
<1>1. UNCHANGED <<currentTerm, state, log, disk>> /\ UNCHANGED <<leaderLog, elected>>
  BY Zenon DEF SendRequestVote, ApplyPendingEntries, LoseRpc, vars, electionVars,
               logVars, diskVars, historyVars, logHistory
<1>2. leaderRpcs' \subseteq leaderRpcs
  BY Zenon DEF SendRequestVote, ApplyPendingEntries, LoseRpc, vars
<1>3. CallsRight
  BY <1>2, Zenon DEF CallsRight
<1> QED
  BY <1>1, <1>3, LogsUntouched, Zenon

(* A restart brings back the saved log, under the term the node was in.    *)
LEMMA LogRestart ==
  ASSUME DurableRestarts, LogTypes, LogTypes', StateTypeOK, LogInv,
         NEW n \in Server, Restart(n)
  PROVE  LogInv'
<1>1. /\ currentTerm' = [currentTerm EXCEPT ![n] = disk[n].term]
      /\ state' = [state EXCEPT ![n] = Follower]
      /\ log' = [log EXCEPT ![n] = disk[n].log]
      /\ disk' = [disk EXCEPT ![n] = disk[n]]
      /\ leaderRpcs' \subseteq leaderRpcs
      /\ UNCHANGED <<elected, logHistory>>
      /\ disk[n].term = currentTerm[n]
  BY Zenon DEF Restart, Reboot
<1>2. /\ \A m \in Server : currentTerm'[m] = currentTerm[m] /\ disk'[m] = disk[m]
      /\ state'[n] = Follower /\ log'[n] = disk[n].log
      /\ \A m \in Server \ {n} : state'[m] = state[m] /\ log'[m] = log[m]
      /\ UNCHANGED <<leaderLog, elected>>
  BY <1>1, Zenon DEF StateTypeOK, ElectionTypeOK, LogTypeOK, DiskTypeOK, logHistory
<1>3. TermsRise
  BY <1>2, LeqSelf, Zenon DEF TermsRise, LogTypes
<1>4. LeadersKept /\ CandidatesKept /\ FilesRight
  BY <1>2, Zenon
     DEF LeadersKept, CandidatesKept, FilesRight, Follower, Candidate, Leader
<1>5. LogsRight
  BY <1>1, <1>2, Zenon DEF LogsRight, LogInv, RootedInv, TermsInv
<1>6. CallsRight
  BY <1>1, Zenon DEF CallsRight
<1> QED
  BY <1>2, <1>3, <1>4, <1>5, <1>6, QuietLogStep, Zenon

(* A request that passes rule 3 makes the log agree with the leader's.     *)
LEMMA RequestMerges ==
  ASSUME LeastNumbers, LogTypes, LogInv, NEW r \in leaderRpcs, r.phase = "req",
         currentTerm[r.peer] <= r.term, PrevOk(r.peer, r)
  PROVE  LET m == MergeEntries(log[r.peer], r.prev, r.entries)
             l == log[r.peer]
             F == leaderLog[r.term]
         IN  /\ m \in Seq(Entry) /\ Rooted(m, leaderLog) /\ Below(m, r.term)
             /\ Agree(m, F, r.prev + Len(r.entries))
             /\ m = l \/ Len(m) = r.prev + Len(r.entries)
             /\ \A k \in Nat : Agree(l, F, k) => Agree(m, F, k)
<1> DEFINE n  == r.peer
           l  == log[n]
           F  == leaderLog[r.term]
           es == r.entries
           m  == MergeEntries(l, r.prev, es)
<1>1. /\ n \in Server /\ r.term \in Nat /\ r.prev \in Nat /\ es \in Seq(Entry)
      /\ l \in Seq(Entry) /\ currentTerm[n] \in Nat /\ logBase[n] = 0
  BY Zenon DEF LogTypes, LeaderRpc
<1>2. <<r.leader, r.term>> \in elected /\ FromLog(r, F)
  BY Zenon DEF LogInv, CallsInv, GoodCall
<1>3. r.term \in DOMAIN leaderLog
  BY <1>2, Zenon DEF LogInv, LeadersInv
<1>4. F \in Seq(Entry) /\ Rooted(F, leaderLog) /\ Below(F, r.term)
  BY <1>3, Zenon DEF LogTypes, LogInv, RootedInv, TermsInv
<1>5. Rooted(l, leaderLog) /\ Below(l, currentTerm[n])
  BY <1>1, Zenon DEF LogInv, RootedInv, TermsInv
<1>6. r.prev > 0 => r.prev \in 1 .. Len(l) /\ l[r.prev].term = r.prevTerm
  BY <1>1 DEF PrevOk
<1> HIDE DEF n, l, F
<1>7. Len(es) \in Nat /\ Len(F) \in Nat /\ Len(l) \in Nat
  BY <1>1, <1>4
<1>8. /\ r.prev + Len(es) <= Len(F) /\ \A j \in 1 .. Len(es) : es[j] = F[r.prev + j]
      /\ r.prev > 0 => F[r.prev].term = r.prevTerm
  BY <1>2, Zenon DEF FromLog
<1>9. Agree(l, F, r.prev)
  <2>1. CASE r.prev = 0
    BY <2>1, <1>7, AgreeOnNone, Zenon
  <2>2. CASE r.prev > 0
    <3>1. r.prev \in 1 .. Len(l) /\ l[r.prev].term = F[r.prev].term
      BY <2>2, <1>6, <1>8, Zenon
    <3>2. r.prev <= Len(F)
      BY <1>1, <1>7, <1>8, SumIsNat, LeqTransitive, ZenonT(30)
    <3> QED
      BY <3>1, <3>2, <1>1, <1>4, <1>5, RootedMeet, Zenon DEF l
  <2> QED
    BY <1>1, <2>1, <2>2
<1> HIDE DEF es
<1>10. /\ m \in Seq(Entry) /\ Agree(m, F, r.prev + Len(es))
       /\ m = l \/ Len(m) = r.prev + Len(es)
       /\ \A k \in Nat : Agree(l, F, k) => Agree(m, F, k)
  BY <1>1, <1>4, <1>5, <1>8, <1>9, MergeAgrees, Zenon
<1> HIDE DEF m
<1>11. Rooted(m, leaderLog)
  BY <1>4, <1>5, <1>10, RootedPrefix, Zenon
<1>12. Below(m, r.term)
  <2>1. CASE m = l
    BY <2>1, <1>1, <1>5, BelowLater, Zenon DEF n
  <2>2. CASE Len(m) = r.prev + Len(es)
    BY <2>2, <1>4, <1>7, <1>10 DEF Below, Agree
  <2> QED
    BY <1>10, <2>1, <2>2, Zenon
<1> QED
  BY <1>10, <1>11, <1>12, Zenon DEF m, l, F, es, n

(* The handler of a request: the node of the request does not lead its     *)
(* term, so what its log becomes is nobody's business but its own.         *)
LEMMA LogAppendEntries ==
  ASSUME LeastNumbers, LogTypes, LogTypes', StateTypeOK, LogInv, ElectionSafety,
         NEW r \in leaderRpcs, AppendEntries(r)
  PROVE  LogInv'
<1> DEFINE n      == r.peer
           newer  == r.term > currentTerm[n]
           vote   == IF newer THEN None ELSE votedFor[n]
           role   == IF newer THEN Follower ELSE state[n]
           off    == r.prev - logBase[n]
           merged == MergeEntries(log[n], off, r.entries)
           F      == leaderLog[r.term]
<1>1. /\ r.phase = "req"
      /\ \/ /\ r.term >= currentTerm[n]
            /\ currentTerm' = [currentTerm EXCEPT ![n] = r.term]
            /\ state' = [state EXCEPT ![n] = role]
            /\ \/ UNCHANGED <<log, disk>> /\ Advance(r, AppendReply(r, r.term, FALSE))
               \/ /\ PrevOk(n, r) /\ log' = [log EXCEPT ![n] = merged]
                  /\ UNCHANGED disk \/ Saved(n, r.term, vote, merged)
                  /\ \/ leaderRpcs' = leaderRpcs \ {r}
                     \/ Advance(r, AppendReply(r, r.term, TRUE))
            /\ UNCHANGED <<historyVars, leaderLog>>
         \/ off < 0
         \/ /\ Advance(r, AppendReply(r, currentTerm[n], FALSE))
            /\ UNCHANGED <<electionVars, logVars, diskVars, historyVars, logHistory>>
  BY Zenon DEF AppendEntries, SaveFails
<1>2. /\ r \in LeaderRpc /\ n \in Server /\ r.leader \in Server
      /\ r.term \in Nat /\ r.prev \in Nat /\ r.entries \in Seq(Entry)
  BY Zenon DEF LogTypes, LeaderRpc
<1>3. logBase[n] = 0 /\ off = r.prev /\ ~(off < 0)
  BY <1>2 DEF LogTypes
<1>4. /\ <<r.leader, r.term>> \in elected /\ n # r.leader
      /\ FromLog(r, F)
  BY <1>1, Zenon DEF LogInv, CallsInv, GoodCall
<1>5. CallsRight
  <2>1. \A t, ok : Advance(r, AppendReply(r, t, ok)) => CallsRight
    BY <1>2, AppendReplyFields, CallsRightAdvanced
  <2>2. leaderRpcs' = leaderRpcs \ {r} => CallsRight
    BY Zenon DEF CallsRight
  <2> QED
    BY <1>1, <1>3, <2>1, <2>2, Zenon
<1>6. CASE /\ Advance(r, AppendReply(r, currentTerm[n], FALSE))
           /\ UNCHANGED <<electionVars, logVars, diskVars, historyVars, logHistory>>
  <2>1. UNCHANGED <<currentTerm, state, log, disk>> /\ UNCHANGED <<leaderLog, elected>>
    BY <1>6, Zenon DEF electionVars, logVars, diskVars, historyVars, logHistory
  <2> QED
    BY <2>1, <1>5, LogsUntouched, Zenon
<1>7. CASE /\ r.term >= currentTerm[n]
           /\ currentTerm' = [currentTerm EXCEPT ![n] = r.term]
           /\ state' = [state EXCEPT ![n] = role]
           /\ \/ UNCHANGED <<log, disk>>
              \/ /\ PrevOk(n, r) /\ log' = [log EXCEPT ![n] = merged]
                 /\ UNCHANGED disk \/ Saved(n, r.term, vote, merged)
           /\ UNCHANGED <<historyVars, leaderLog>>
  <2>0. PrevOk(n, r) => Rooted(merged, leaderLog) /\ Below(merged, r.term)
    <3>1. currentTerm[n] <= r.term
      BY <1>2, <1>7, Zenon DEF LogTypes
    <3> QED
      BY <1>1, <1>3, <3>1, RequestMerges, Zenon
  <2> HIDE DEF merged, vote
  <2>1. /\ currentTerm[n] \in Nat /\ currentTerm[n] <= r.term
        /\ currentTerm'[n] = r.term
        /\ state'[n] = Follower \/ (state'[n] = state[n] /\ currentTerm[n] = r.term)
        /\ \A m \in Server \ {n} : currentTerm'[m] = currentTerm[m] /\ state'[m] = state[m]
    <3>1. currentTerm[n] \in Nat
      BY <1>2, Zenon DEF LogTypes
    <3>2. currentTerm[n] <= r.term /\ (newer \/ currentTerm[n] = r.term)
      BY <1>2, <1>7, <3>1, GreaterOrEqual, Zenon
    <3>3. /\ currentTerm'[n] = r.term /\ state'[n] = role
          /\ \A m \in Server \ {n} : /\ currentTerm'[m] = currentTerm[m]
                                     /\ state'[m] = state[m]
      BY <1>2, <1>7, Zenon DEF StateTypeOK, ElectionTypeOK
    <3> QED
      BY <3>1, <3>2, <3>3, ZenonT(30)
  <2>2. ~(state[n] = Leader /\ currentTerm[n] = r.term)
    <3> SUFFICES ASSUME state[n] = Leader, currentTerm[n] = r.term PROVE FALSE
      BY Zenon
    <3>1. <<n, r.term>> \in elected
      BY <1>2, Zenon DEF LogInv, LeadersInv
    <3>2. n = r.leader
      BY <3>1, <1>4, Zenon DEF ElectionSafety
    <3> QED
      BY <3>2, <1>4, Zenon
  <2>3. \A m \in Server \ {n} : log'[m] = log[m] /\ disk'[m] = disk[m]
    <3>1. UNCHANGED log \/ log' = [log EXCEPT ![n] = merged]
      BY <1>7, Zenon
    <3>2. UNCHANGED disk \/ Saved(n, r.term, vote, merged)
      BY <1>7, Zenon
    <3>3. \A m \in Server \ {n} : log'[m] = log[m]
      BY <3>1, Zenon DEF StateTypeOK, LogTypeOK
    <3>4. \A m \in Server \ {n} : disk'[m] = disk[m]
      BY <3>2, Zenon DEF StateTypeOK, DiskTypeOK, Saved
    <3> QED
      BY <3>3, <3>4, Zenon
  <2>4. \/ UNCHANGED <<log, disk>>
        \/ /\ Rooted(merged, leaderLog) /\ Below(merged, r.term)
           /\ log'[n] = merged
           /\ disk'[n] = disk[n] \/ (disk'[n].log = merged /\ disk'[n].term = r.term)
    <3> SUFFICES ASSUME PrevOk(n, r), log' = [log EXCEPT ![n] = merged],
                        UNCHANGED disk \/ Saved(n, r.term, vote, merged)
                 PROVE  /\ Rooted(merged, leaderLog) /\ Below(merged, r.term)
                        /\ log'[n] = merged
                        /\ \/ disk'[n] = disk[n]
                           \/ disk'[n].log = merged /\ disk'[n].term = r.term
      BY <1>7, Zenon
    <3>1. log'[n] = merged
      BY <1>2, Zenon DEF StateTypeOK, LogTypeOK
    <3>2. disk'[n] = disk[n] \/ (disk'[n].log = merged /\ disk'[n].term = r.term)
      BY <1>2, SMTT(30) DEF StateTypeOK, DiskTypeOK, Saved
    <3> QED
      BY <2>0, <3>1, <3>2, Zenon
  <2> HIDE DEF n, newer, vote, role, off, merged, F
  <2>5. TermsRise
    BY <1>2, <2>1, TermsRiseAt, Zenon
  <2>6. LeadersKept /\ CandidatesKept
    BY <1>2, <2>1, <2>2, <2>3, Zenon
       DEF LeadersKept, CandidatesKept, Follower, Candidate, Leader
  <2>7. LogsRight /\ FilesRight
    <3>1. LogsRight
      BY <2>1, <2>3, <2>4, ZenonT(30) DEF LogsRight
    <3>2. r.term <= currentTerm'[n]
      BY <1>2, <2>1, LeqSelf, Zenon
    <3>3. FilesRight
      BY <2>1, <2>3, <2>4, <3>2, ZenonT(30) DEF FilesRight
    <3> QED
      BY <3>1, <3>3, Zenon
  <2>8. UNCHANGED <<leaderLog, elected>>
    BY <1>7, Zenon DEF historyVars
  <2> QED
    BY <1>5, <2>5, <2>6, <2>7, <2>8, QuietLogStep, Zenon
<1> QED
  BY <1>1, <1>3, <1>6, <1>7, Zenon

LEMMA AppendedLog ==
  ASSUME NEW l \in Seq(Entry), NEW e \in Entry
  PROVE  /\ Append(l, e) \in Seq(Entry) /\ Len(Append(l, e)) = Len(l) + 1
         /\ Append(l, e)[Len(l) + 1] = e /\ Agree(l, Append(l, e), Len(l))
<1> DEFINE m == Append(l, e)
<1>1. m \in Seq(Entry) /\ Len(m) = Len(l) + 1
  OBVIOUS
<1>2. \A i \in 1 .. Len(l) : m[i] = l[i]
  OBVIOUS
<1>3. m[Len(l) + 1] = e
  OBVIOUS
<1>4. Len(l) \in Nat
  OBVIOUS
<1> HIDE DEF m
<1>5. Agree(l, m, Len(l))
  BY <1>1, <1>2, <1>4 DEF Agree
<1> QED
  BY <1>1, <1>3, <1>5, Zenon DEF m

(* The leader of term t adds the entry e of t to its log.                  *)
LEMMA LeaderLogGrows ==
  ASSUME NEW L, \A u \in DOMAIN L : L[u] \in Seq(Entry), NEW t \in DOMAIN L,
         NEW e \in Entry, Rooted(L[t], [L EXCEPT ![t] = Append(L[t], e)]),
         e.index = Len(L[t]) + 1, e.term = t, t \in Nat, Below(L[t], t)
  PROVE  LET new == Append(L[t], e)
             M   == [L EXCEPT ![t] = new]
         IN  /\ Rooted(new, M) /\ Below(new, t)
<1> DEFINE l   == L[t]
           new == Append(l, e)
           M   == [L EXCEPT ![t] = new]
<1>1. l \in Seq(Entry) /\ Len(l) \in Nat
  OBVIOUS
<1>2. /\ new \in Seq(Entry) /\ Len(new) = Len(l) + 1 /\ new[Len(l) + 1] = e
      /\ Agree(l, new, Len(l))
  BY <1>1, AppendedLog, Zenon
<1>3. DOMAIN M = DOMAIN L /\ M[t] = new
  BY Zenon
<1>4. Rooted(l, M) /\ e.index = Len(l) + 1 /\ Below(l, t)
  BY Zenon
<1> HIDE DEF l, new, M
<1>5. ASSUME NEW i \in 1 .. Len(new)
      PROVE  /\ new[i].index = i /\ new[i].term \in DOMAIN M
             /\ Agree(new, M[new[i].term], i) /\ new[i].term <= t
  <2>1. CASE i = Len(l) + 1
    <3>1. new[i] = e /\ i \in Nat
      BY <2>1, <1>1, <1>2
    <3>2. Agree(new, new, i)
      BY <2>1, <1>1, <1>2 DEF Agree
    <3> QED
      BY <2>1, <3>1, <3>2, <1>3, <1>4
  <2>2. CASE i \in 1 .. Len(l)
    <3>1. new[i] = l[i] /\ Agree(new, l, i) /\ i \in Nat
      BY <2>2, <1>1, <1>2 DEF Agree
    <3>2. l[i].index = i /\ l[i].term \in DOMAIN M /\ Agree(l, M[l[i].term], i)
      BY <2>2, <1>4, Zenon DEF Rooted
    <3>3. Agree(new, M[l[i].term], i)
      BY <3>1, <3>2, AgreeTransitive, Zenon
    <3> QED
      BY <2>2, <3>1, <3>2, <3>3, <1>4, Zenon DEF Below
  <2> QED
    BY <1>1, <1>2, <2>1, <2>2
<1>6. Rooted(new, M) /\ Below(new, t)
  BY <1>5, Zenon DEF Rooted, Below
<1> QED
  BY <1>6, Zenon DEF l, new, M

LEMMA LogReplicateCommand ==
  ASSUME LogTypes, LogTypes', StateTypeOK, LogInv, ElectionSafety,
         NEW n \in Server, NEW reached \in SUBSET Peers(n), ReplicateCommand(n, reached)
  PROVE  LogInv'
<1> DEFINE t   == currentTerm[n]
           e   == [index |-> LastIndex(n) + 1, term |-> t, cmd |-> submitted + 1]
           new == Append(log[n], e)
           commit == UpdateCommitIndex(n, new, matchIndex[n])
<1>1. /\ state[n] = Leader
      /\ UNCHANGED <<electionVars, historyVars>>
      /\ \/ /\ Saved(n, t, votedFor[n], new)
            /\ log' = [log EXCEPT ![n] = new]
            /\ Spawn(n, reached, commit)
            /\ leaderLog' = [leaderLog EXCEPT ![t] = new]
         \/ UNCHANGED <<disk, log, leaderRpcs, logHistory>>
  BY Zenon DEF ReplicateCommand, SaveFails
<1>2. UNCHANGED <<currentTerm, state, elected>>
  BY <1>1, Zenon DEF electionVars, historyVars
<1>3. CASE UNCHANGED <<disk, log, leaderRpcs, logHistory>>
  <2>1. CallsRight /\ UNCHANGED leaderLog
    BY <1>3, Zenon DEF CallsRight, logHistory
  <2> QED
    BY <1>2, <1>3, <2>1, LogsUntouched, Zenon
<1>4. CASE /\ Saved(n, t, votedFor[n], new)
           /\ log' = [log EXCEPT ![n] = new]
           /\ Spawn(n, reached, commit)
           /\ leaderLog' = [leaderLog EXCEPT ![t] = new]
  <2>1. /\ <<n, t>> \in elected /\ t \in DOMAIN leaderLog /\ log[n] = leaderLog[t]
        /\ t \in Nat /\ log[n] \in Seq(Entry) /\ Len(log[n]) \in Nat
    <3>1. <<n, t>> \in elected /\ t \in DOMAIN leaderLog /\ log[n] = leaderLog[t]
      BY <1>1, Zenon DEF LogInv, LeadersInv
    <3>2. t \in Nat /\ log[n] \in Seq(Entry)
      BY Zenon DEF LogTypes
    <3> QED
      BY <3>1, <3>2, LenIsNat, Zenon
  <2>2. e \in Entry /\ e.index = Len(log[n]) + 1 /\ e.term = t
    <3>1. LastIndex(n) = Len(log[n]) /\ submitted \in Nat
      BY <2>1, BoundsAssumption, SMTT(30) DEF LastIndex, LogTypes, StateTypeOK, ClientTypeOK
    <3> QED
      BY <2>1, <3>1 DEF Entry
  <2> HIDE DEF e
  <2>3. /\ new \in Seq(Entry) /\ Len(new) = Len(log[n]) + 1
        /\ Agree(log[n], new, Len(log[n]))
    BY <2>1, <2>2, AppendedLog, Zenon
  <2>4. CallsRight
    BY <1>1, <1>4, CallsRightSpawned, Zenon
  <2>5. /\ DOMAIN leaderLog' = DOMAIN leaderLog /\ leaderLog'[t] = new
        /\ \A u \in DOMAIN leaderLog : u # t => leaderLog'[u] = leaderLog[u]
    BY <1>4, <2>1, Zenon
  <2>6. log'[n] = new /\ \A m \in Server \ {n} : log'[m] = log[m]
    BY <1>4, Zenon DEF StateTypeOK, LogTypeOK
  <2>7. /\ disk'[n].log = new /\ disk'[n].term = t
        /\ \A m \in Server \ {n} : disk'[m] = disk[m]
    BY <1>4, Zenon DEF Saved, StateTypeOK, DiskTypeOK
  <2>8. Grown(leaderLog, leaderLog')
    <3>1. \A u \in DOMAIN leaderLog : Len(leaderLog[u]) \in Nat
      BY DEF LogTypes
    <3>2. \A u \in DOMAIN leaderLog : Agree(leaderLog[u], leaderLog[u], Len(leaderLog[u]))
      BY <3>1 DEF Agree
    <3> QED
      BY <2>1, <2>3, <2>5, <3>2, ZenonT(30) DEF Grown
  <2>9. /\ \A m \in Server : Rooted(log[m], leaderLog') /\ Rooted(disk[m].log, leaderLog')
        /\ \A u \in DOMAIN leaderLog : Rooted(leaderLog[u], leaderLog')
        /\ \A r \in leaderRpcs : GoodCall(r, elected, leaderLog')
    BY <2>8, GrownLogs, Zenon
  <2>10. Rooted(new, leaderLog') /\ Below(new, t)
    <3>1. /\ \A u \in DOMAIN leaderLog : leaderLog[u] \in Seq(Entry)
          /\ Rooted(leaderLog[t], leaderLog') /\ Below(leaderLog[t], t)
      BY <2>1, <2>9, Zenon DEF LogTypes, LogInv, TermsInv
    <3> QED
      BY <1>4, <2>1, <2>2, <3>1, LeaderLogGrows, Zenon
  <2> HIDE DEF new, t
  <2>11. RootedInv'
    <3>1. \A m \in Server : Rooted(log'[m], leaderLog') /\ Rooted(disk'[m].log, leaderLog')
      BY <2>6, <2>7, <2>9, <2>10, Zenon
    <3>2. \A u \in DOMAIN leaderLog' : Rooted(leaderLog'[u], leaderLog')
      BY <2>5, <2>9, <2>10, ZenonT(30)
    <3> QED
      BY <3>1, <3>2, Zenon DEF RootedInv
  <2>12. TermsInv'
    <3>1. currentTerm'[n] = t /\ t <= t
      BY <1>2, <2>1, LeqSelf, Zenon DEF t
    <3>2. \A m \in Server : /\ Below(log'[m], currentTerm'[m])
                            /\ Below(disk'[m].log, disk'[m].term)
                            /\ disk'[m].term <= currentTerm'[m]
      <4> SUFFICES ASSUME NEW m \in Server
                   PROVE  /\ Below(log'[m], currentTerm'[m])
                          /\ Below(disk'[m].log, disk'[m].term)
                          /\ disk'[m].term <= currentTerm'[m]
        BY Zenon
      <4>1. CASE m = n
        BY <4>1, <2>6, <2>7, <2>10, <3>1, Zenon
      <4>2. CASE m # n
        BY <4>2, <1>2, <2>6, <2>7, Zenon DEF LogInv, TermsInv
      <4> QED
        BY <4>1, <4>2, Zenon
    <3>3. \A u \in DOMAIN leaderLog' : Below(leaderLog'[u], u)
      BY <2>5, <2>10, ZenonT(30) DEF LogInv, TermsInv
    <3> QED
      BY <3>2, <3>3, Zenon DEF TermsInv
  <2>13. CallsInv'
    <3>1. \A r \in leaderRpcs' : r \in leaderRpcs \/ (<<r.leader, r.term>> \in elected
            /\ r.peer # r.leader /\ r.phase = "call")
      <4>1. \A r \in leaderRpcs' :
              \/ r \in leaderRpcs
              \/ /\ r.leader = n /\ r.peer \in reached /\ r.term = t
                 /\ r.phase = "call"
        <5>1. Spawn(n, reached, commit)
          BY <1>4, Zenon
        <5> HIDE DEF commit
        <5> QED
          BY <5>1, SpawnedCalls, ZenonT(30) DEF t
      <4>2. \A p \in reached : p # n
        BY Zenon DEF Peers
      <4> QED
        BY <2>1, <4>1, <4>2, ZenonT(30)
    <3>2. \A r \in leaderRpcs' : GoodCall(r, elected, leaderLog')
      BY <2>9, <3>1, Zenon DEF GoodCall
    <3> QED
      BY <1>2, <3>2, ZenonT(30) DEF CallsInv
  <2>14. LeadersInv'
    <3>1. ASSUME NEW m \in Server, state[m] = Leader
          PROVE  /\ <<m, currentTerm[m]>> \in elected
                 /\ log'[m] = leaderLog'[currentTerm[m]]
      <4>1. /\ <<m, currentTerm[m]>> \in elected
            /\ log[m] = leaderLog[currentTerm[m]] /\ currentTerm[m] \in DOMAIN leaderLog
        BY <3>1, Zenon DEF LogInv, LeadersInv
      <4>2. CASE m = n
        BY <4>1, <4>2, <2>5, <2>6, Zenon DEF t
      <4>3. CASE m # n
        <5>1. currentTerm[m] # t
          BY <4>1, <4>3, <2>1, Zenon DEF ElectionSafety
        <5> QED
          BY <4>1, <4>3, <5>1, <2>5, <2>6, Zenon
      <4> QED
        BY <4>2, <4>3, Zenon
    <3> QED
      BY <1>2, <2>5, <3>1, Zenon DEF LogInv, LeadersInv
  <2> QED
    BY <2>11, <2>12, <2>13, <2>14, ZenonT(30) DEF LogInv
<1> QED
  BY <1>1, <1>3, <1>4, Zenon

-----------------------------------------------------------------------------
(* Together                                                                *)

LEMMA LogStep ==
  ASSUME LeastNumbers, DurableRestarts, StateTypeOK, LogTypes, LogTypes',
         ElectionSafety, ElectionSafety', LogInv, PlainNext \/ UNCHANGED vars
  PROVE  LogInv'
<1>1. CASE UNCHANGED vars
  BY <1>1, LogElsewhere, Zenon
<1>2. CASE PlainNext
  BY <1>2, LogBecomeLeader, LogElsewhere, LogRestart, LogBecomeCandidate,
     LogSendHeartbeats, LogReplicateCommand, LogRequestVote, LogHandleVoteReply,
     LogSendAppendEntries, LogAppendEntries, LogHandleAppendReply,
     ZenonT(30) DEF PlainNext
<1> QED
  BY <1>1, <1>2, Zenon

(* Two logs with an entry of the same term at an index are equal up to it. *)
LEMMA LogsMeet ==
  ASSUME LogTypes, LogInv
  PROVE  LogMatching
<1> SUFFICES ASSUME NEW n \in Server, NEW m \in Server,
                    NEW i \in 1 .. LastIndex(n), Covers(m, i), At(n, i) # At(m, i),
                    NEW j \in i .. LastIndex(n), Covers(m, j),
                    At(n, j).term = At(m, j).term
             PROVE  FALSE
  BY Zenon DEF LogMatching
<1>1. /\ logBase[n] = 0 /\ logBase[m] = 0 /\ log[n] \in Seq(Entry)
      /\ log[m] \in Seq(Entry) /\ Len(log[n]) \in Nat /\ Len(log[m]) \in Nat
  BY LenIsNat, Zenon DEF LogTypes
<1>2. /\ i \in 1 .. Len(log[n]) /\ j \in i .. Len(log[n]) /\ j \in 1 .. Len(log[m])
      /\ log[n][i] # log[m][i] /\ log[n][j].term = log[m][j].term
  BY <1>1, SMTT(30) DEF LastIndex, Covers, At
<1>3. j \in 1 .. Len(log[n]) /\ i \in 1 .. j /\ j <= Len(log[m])
  BY <1>1, <1>2, InnerRange, InRange, Zenon
<1>4. Agree(log[n], log[m], j)
  BY <1>1, <1>2, <1>3, RootedMeet, Zenon DEF LogInv, RootedInv
<1> QED
  BY <1>2, <1>3, <1>4, Zenon DEF Agree

-----------------------------------------------------------------------------
(* What has been acknowledged, and what can still be chosen                *)

(* Node v has answered that it holds the log of the leader of t up to i,   *)
(* or further.                                                             *)
Acked(A, v, t, i) == \E a \in A : a[1] = v /\ a[2] = t /\ i <= a[3]

(* The leader of t made the entry at i itself: updateCommitIndex counts    *)
(* only such entries.                                                      *)
Own(L, t, i) == t \in DOMAIN L /\ i \in 1 .. Len(L[t]) /\ L[t][i].term = t

Holders(A, t, i) == {v \in Server : Acked(A, v, t, i)}

Chosen(L, A, t, i) == Own(L, t, i) /\ Majority(Holders(A, t, i))

(* The nodes that have acknowledged the log of t's leader up to i, or may. *)
Hopefuls(A, C, t, i) == {v \in Server : Acked(A, v, t, i) \/ C[v] <= t}

Choosable(A, C, t, i) == Majority(Hopefuls(A, C, t, i))

(* Acknowledgements are of the present or an earlier term, and of what its *)
(* leader had.                                                             *)
AcksOfLeaders ==
    \A a \in acks : /\ a[2] <= currentTerm[a[1]] /\ a[2] \in DOMAIN leaderLog
                    /\ a[3] <= Len(leaderLog[a[2]])

(* A node has what it acknowledged while it is in that term, and beyond it *)
(* whatever can still be chosen.                                           *)
AckedKept ==
    \A v \in Server : \A t \in DOMAIN leaderLog : \A i \in Nat :
        /\ Acked(acks, v, t, i)
        /\ \/ currentTerm[v] = t
           \/ Own(leaderLog, t, i) /\ Choosable(acks, currentTerm, t, i)
        => Agree(log[v], leaderLog[t], i)

(* Later leaders have all that can still be chosen.                        *)
LeadersAgree ==
    \A t, u \in DOMAIN leaderLog : \A i \in Nat :
        t < u /\ Own(leaderLog, t, i) /\ Choosable(acks, currentTerm, t, i)
        => Agree(leaderLog[u], leaderLog[t], i)

(* A leader counts itself.                                                 *)
LeadersAck ==
    \A e \in elected : \A i \in Nat :
        Own(leaderLog, e[2], i) => Acked(acks, e[1], e[2], i)

AckInv == AcksOfLeaders /\ AckedKept /\ LeadersAgree /\ LeadersAck

(* Candidate c may still become the first leader of term u.                *)
Running(c, u) ==
    state[c] = Candidate /\ currentTerm[c] = u /\ u \notin DOMAIN leaderLog

(* Votes are for elections that have begun.                                *)
BallotsBegun == \A b \in ballots : b[2] <= currentTerm[b[3]]

(* A candidate has what its voters acknowledged and can still be chosen.   *)
VotersServed ==
    \A b \in ballots : Running(b[3], b[2]) =>
        \A t \in DOMAIN leaderLog : \A i \in Nat :
            /\ t < b[2] /\ Acked(acks, b[1], t, i)
            /\ Own(leaderLog, t, i) /\ Choosable(acks, currentTerm, t, i)
            => Agree(log[b[3]], leaderLog[t], i)

(* A vote request in the network says how the candidate's log ends.        *)
RequestsTrue ==
    \A r \in voteRpcs : r.phase = "req" /\ Running(r.cand, r.term) =>
        /\ r.lastIdx = LastLogInfo(log[r.cand]).index
        /\ r.lastTerm = LastLogInfo(log[r.cand]).term

VoteInv == BallotsBegun /\ VotersServed /\ RequestsTrue

(* What types, elections and logs contribute, and how nodes are counted.   *)
Sound == /\ StateTypeOK /\ LogHistoryTypeOK /\ Uncompacted /\ LogTypes /\ LogInv
         /\ ElectionInv /\ ElectionSafety /\ Counting /\ LeastNumbers

LEMMA MajorityGrows ==
  ASSUME Sound, NEW S \in SUBSET Server, NEW T \in SUBSET Server, S \subseteq T,
         Majority(S)
  PROVE  Majority(T)
  BY Zenon DEF Sound, Counting

LEMMA MajoritiesShare ==
  ASSUME Sound, NEW S \in SUBSET Server, NEW T \in SUBSET Server,
         Majority(S), Majority(T)
  PROVE  \E v \in Server : v \in S /\ v \in T
  BY Zenon DEF Sound, Counting

-----------------------------------------------------------------------------
(* The four kinds of steps                                                 *)

(* No log changes and nothing is acknowledged.                             *)
Quiet == UNCHANGED <<log, leaderLog, acks, elected>> /\ TermsRise

(* A node takes over the entries of the request r.                         *)
Merging(r) ==
    LET n == r.peer
    IN  /\ r.phase = "req" /\ currentTerm[n] <= r.term /\ PrevOk(n, r)
        /\ log'[n] = MergeEntries(log[n], r.prev, r.entries)
        /\ currentTerm'[n] = r.term
        /\ \A m \in Server \ {n} : log'[m] = log[m] /\ currentTerm'[m] = currentTerm[m]
        /\ \/ acks' = acks
           \/ acks' = acks \cup {<<n, r.term, r.prev + Len(r.entries)>>}
        /\ UNCHANGED <<leaderLog, elected>>

(* A candidate becomes leader.                                             *)
Electing(n) ==
    /\ state[n] = Candidate /\ promoting[n] > 0
    /\ elected' = elected \cup {<<n, currentTerm[n]>>}
    /\ leaderLog' = [t \in DOMAIN leaderLog \cup {currentTerm[n]} |->
                       IF t = currentTerm[n] THEN log[n] ELSE leaderLog[t]]
    /\ UNCHANGED <<currentTerm, log, acks>>

(* A leader appends the entry e.                                           *)
Appending(n, e) ==
    /\ state[n] = Leader /\ e.term = currentTerm[n] /\ e.index = Len(log[n]) + 1
    /\ log'[n] = Append(log[n], e)
    /\ \A m \in Server \ {n} : log'[m] = log[m]
    /\ leaderLog' = [leaderLog EXCEPT ![currentTerm[n]] = Append(log[n], e)]
    /\ acks' = acks \cup {<<n, currentTerm[n], Len(log[n]) + 1>>}
    /\ UNCHANGED <<currentTerm, elected>>

AnyKind ==
    \/ Quiet
    \/ \E r \in leaderRpcs : Merging(r)
    \/ \E n \in Server : Electing(n)
    \/ \E n \in Server : \E e \in Entry : Appending(n, e)

(* A node that has a role after the step had it before, in the same term.  *)
RoleStays(m, role) ==
    state'[m] = role => state[m] = role /\ currentTerm'[m] = currentTerm[m]

LeadersStay == \A m \in Server : RoleStays(m, Leader)

CandidatesStay == \A m \in Server : RoleStays(m, Candidate)

(* A node that restarts finds the log it had.                              *)
FilesCurrent == faults = 0 => \A n \in Server : disk[n].log = log[n]

LogsSurvive == MaxRestarts = 0 \/ MaxFaults = 0

LEMMA KindUntouched ==
  ASSUME Sound, UNCHANGED <<currentTerm, state, log, leaderLog, acks, elected>>
  PROVE  Quiet /\ LeadersStay /\ CandidatesStay
<1>1. TermsRise
  BY DEF Sound, LogTypes, TermsRise
<1> QED
  BY <1>1, Zenon DEF Quiet, LeadersStay, CandidatesStay, RoleStays

LEMMA KindElsewhere ==
  ASSUME Sound,
         \/ \E r \in voteRpcs : SendRequestVote(r)
         \/ \E n \in Server :
              \/ ApplyPendingEntries(n)
              \/ \E reached \in SUBSET Peers(n) : SendHeartbeats(n, reached)
         \/ \E r \in leaderRpcs : SendAppendEntries(r)
         \/ LoseRpc
         \/ UNCHANGED vars
  PROVE  Quiet /\ LeadersStay /\ CandidatesStay
<1>1. UNCHANGED <<electionVars, log, historyVars, logHistory>>
  BY Zenon DEF SendRequestVote, ApplyPendingEntries, SendHeartbeats,
               SendAppendEntries, LoseRpc, vars, logVars
<1> QED
  BY <1>1, KindUntouched, Zenon DEF electionVars, historyVars, logHistory

LEMMA KindBecomeCandidate ==
  ASSUME Sound, NEW n \in Server, NEW reached, BecomeCandidate(n, reached)
  PROVE  /\ Quiet /\ LeadersStay /\ \A m \in Server \ {n} : RoleStays(m, Candidate)
         /\ currentTerm'[n] = currentTerm[n] + 1
<1>1. /\ state' = [state EXCEPT ![n] = Candidate]
      /\ currentTerm' = [currentTerm EXCEPT ![n] = currentTerm[n] + 1]
      /\ UNCHANGED <<logVars, elected, logHistory>>
  BY Zenon DEF BecomeCandidate
<1>2. UNCHANGED <<log, leaderLog, acks, elected>>
  BY <1>1, Zenon DEF logVars, logHistory
<1>3. /\ currentTerm[n] \in Nat /\ currentTerm'[n] = currentTerm[n] + 1
      /\ state'[n] = Candidate
      /\ \A m \in Server \ {n} : currentTerm'[m] = currentTerm[m] /\ state'[m] = state[m]
  BY <1>1, Zenon DEF Sound, StateTypeOK, ElectionTypeOK
<1>4. TermsRise
  BY <1>3 DEF Sound, TermsRise, LogTypes
<1> QED
  BY <1>2, <1>3, <1>4, Zenon DEF Quiet, LeadersStay, RoleStays, Leader, Candidate

LEMMA KindRequestVote ==
  ASSUME Sound, NEW r \in voteRpcs, RequestVote(r)
  PROVE  Quiet /\ LeadersStay /\ CandidatesStay
<1> DEFINE n     == r.peer
           newer == r.term > currentTerm[n]
           term  == IF newer THEN r.term ELSE currentTerm[n]
<1>1. /\ currentTerm' = [currentTerm EXCEPT ![n] = term]
      /\ state' = [state EXCEPT ![n] = IF newer THEN Follower ELSE @]
      /\ UNCHANGED <<logVars, elected, logHistory>>
  BY Zenon DEF RequestVote
<1>2. UNCHANGED <<log, leaderLog, acks, elected>>
  BY <1>1, Zenon DEF logVars, logHistory
<1>3. n \in Server /\ r.term \in Nat /\ currentTerm[n] \in Nat
  BY Zenon DEF Sound, StateTypeOK, NetworkTypeOK, VoteRpc, LogTypes
<1>4. /\ term \in Nat /\ currentTerm[n] <= term /\ currentTerm'[n] = term
      /\ \/ state'[n] = Follower
         \/ state'[n] = state[n] /\ term = currentTerm[n]
      /\ \A m \in Server \ {n} : currentTerm'[m] = currentTerm[m] /\ state'[m] = state[m]
  BY <1>1, <1>3 DEF Sound, StateTypeOK, ElectionTypeOK
<1> HIDE DEF n, newer, term
<1>5. TermsRise
  BY <1>3, <1>4 DEF Sound, TermsRise, LogTypes
<1> QED
  BY <1>2, <1>4, <1>5, Zenon
     DEF Quiet, LeadersStay, CandidatesStay, RoleStays, Leader,
                          Candidate, Follower

LEMMA KindStepDown ==
  ASSUME Sound, NEW n \in Server, NEW t \in Nat, StepDown(n, t), t > currentTerm[n],
         UNCHANGED <<log, leaderLog, acks, elected>>
  PROVE  Quiet /\ LeadersStay /\ CandidatesStay
<1>1. /\ currentTerm'[n] = t /\ state'[n] = Follower /\ currentTerm[n] \in Nat
      /\ \A m \in Server \ {n} : currentTerm'[m] = currentTerm[m] /\ state'[m] = state[m]
  BY Zenon DEF Sound, StepDown, StateTypeOK, ElectionTypeOK
<1>2. TermsRise
  BY <1>1, GreaterOrEqual, TermsRiseAt, Zenon DEF Sound
<1> QED
  BY <1>1, <1>2, Zenon DEF Quiet, LeadersStay, CandidatesStay, RoleStays, Leader,
                    Candidate, Follower

LEMMA KindHandleVoteReply ==
  ASSUME Sound, NEW r \in voteRpcs, HandleVoteReply(r)
  PROVE  Quiet /\ LeadersStay /\ CandidatesStay
<1>1. /\ UNCHANGED <<logVars, elected, logHistory>>
      /\ \/ UNCHANGED electionVars
         \/ StepDown(r.cand, r.rterm) /\ r.rterm > currentTerm[r.cand]
         \/ UNCHANGED <<currentTerm, state>>
  BY Zenon DEF HandleVoteReply
<1>2. UNCHANGED <<log, leaderLog, acks, elected>>
  BY <1>1, Zenon DEF logVars, logHistory
<1>3. r.cand \in Server /\ r.rterm \in Nat
  BY Zenon DEF Sound, StateTypeOK, NetworkTypeOK, VoteRpc
<1>4. UNCHANGED electionVars => UNCHANGED <<currentTerm, state>>
  BY Zenon DEF electionVars
<1> QED
  BY <1>1, <1>2, <1>3, <1>4, KindStepDown, KindUntouched, Zenon

LEMMA KindHandleAppendReply ==
  ASSUME Sound, NEW r \in leaderRpcs, HandleAppendReply(r)
  PROVE  Quiet /\ LeadersStay /\ CandidatesStay
<1>1. /\ UNCHANGED <<log, historyVars, logHistory>>
      /\ \/ UNCHANGED electionVars
         \/ StepDown(r.leader, r.rterm) /\ currentTerm[r.leader] = r.term /\ r.rterm > r.term
  BY Zenon DEF HandleAppendReply
<1>2. UNCHANGED <<log, leaderLog, acks, elected>>
  BY <1>1, Zenon DEF historyVars, logHistory
<1>3. r.leader \in Server /\ r.rterm \in Nat
  BY Zenon DEF Sound, LogTypes, LeaderRpc
<1>4. UNCHANGED electionVars => UNCHANGED <<currentTerm, state>>
  BY Zenon DEF electionVars
<1> QED
  BY <1>1, <1>2, <1>3, <1>4, KindStepDown, KindUntouched, Zenon

LEMMA KindRestart ==
  ASSUME DurableRestarts, LogsSurvive, Sound, FilesCurrent, NEW n \in Server, Restart(n)
  PROVE  Quiet /\ LeadersStay /\ CandidatesStay
<1>1. /\ currentTerm' = [currentTerm EXCEPT ![n] = disk[n].term]
      /\ state' = [state EXCEPT ![n] = Follower]
      /\ log' = [log EXCEPT ![n] = disk[n].log]
      /\ UNCHANGED <<elected, logHistory>>
      /\ disk[n].term = currentTerm[n] /\ restarts < MaxRestarts
  BY Zenon DEF Restart, Reboot
<1>2. faults = 0
  BY <1>1, BoundsAssumption DEF LogsSurvive, Sound, StateTypeOK, ClientTypeOK
<1>3. disk[n].log = log[n]
  BY <1>2, Zenon DEF FilesCurrent
<1>4. UNCHANGED <<log, leaderLog, acks, elected>> /\ UNCHANGED currentTerm
  BY <1>1, <1>3, Zenon DEF Sound, StateTypeOK, LogTypeOK, ElectionTypeOK, logHistory
<1>5. state'[n] = Follower /\ \A m \in Server \ {n} : state'[m] = state[m]
  BY <1>1, Zenon DEF Sound, StateTypeOK, ElectionTypeOK
<1>6. TermsRise
  BY <1>4 DEF Sound, TermsRise, LogTypes
<1> QED
  BY <1>4, <1>5, <1>6, Zenon
     DEF Quiet, LeadersStay, CandidatesStay, RoleStays, Leader,
                          Candidate, Follower

LEMMA KindBecomeLeader ==
  ASSUME Sound, NEW n \in Server, BecomeLeader(n)
  PROVE  /\ CandidatesStay
         /\ \/ Quiet /\ LeadersStay /\ UNCHANGED matchIndex
            \/ /\ Electing(n) /\ \A m \in Server \ {n} : RoleStays(m, Leader)
               /\ \A p \in Server : matchIndex'[n][p] = 0
               /\ \A m \in Server \ {n} : matchIndex'[m] = matchIndex[m]
<1>1. /\ UNCHANGED <<currentTerm, logVars, acks>>
      /\ promoting[n] > 0
      /\ \/ /\ state[n] = Candidate
            /\ state' = [state EXCEPT ![n] = Leader]
            /\ matchIndex' = [matchIndex EXCEPT ![n] = [p \in Server |-> 0]]
            /\ elected' = elected \cup {<<n, currentTerm[n]>>}
            /\ leaderLog' = [u \in DOMAIN leaderLog \cup {currentTerm[n]} |->
                               IF u = currentTerm[n] THEN log[n] ELSE leaderLog[u]]
         \/ UNCHANGED <<state, leaderVars, elected, leaderLog>>
  BY Zenon DEF BecomeLeader
<1>2. UNCHANGED <<currentTerm, log, acks>>
  BY <1>1, Zenon DEF logVars
<1>3. CASE UNCHANGED <<state, leaderVars, elected, leaderLog>>
  BY <1>2, <1>3, KindUntouched, Zenon DEF leaderVars
<1>4. CASE /\ state[n] = Candidate
           /\ state' = [state EXCEPT ![n] = Leader]
           /\ matchIndex' = [matchIndex EXCEPT ![n] = [p \in Server |-> 0]]
           /\ elected' = elected \cup {<<n, currentTerm[n]>>}
           /\ leaderLog' = [u \in DOMAIN leaderLog \cup {currentTerm[n]} |->
                              IF u = currentTerm[n] THEN log[n] ELSE leaderLog[u]]
  <2>1. state'[n] = Leader /\ \A m \in Server \ {n} : state'[m] = state[m]
    BY <1>4, Zenon DEF Sound, StateTypeOK, ElectionTypeOK
  <2>2. /\ \A p \in Server : matchIndex'[n][p] = 0
        /\ \A m \in Server \ {n} : matchIndex'[m] = matchIndex[m]
    BY <1>4, Zenon DEF Sound, StateTypeOK, LeaderTypeOK
  <2>3. CandidatesStay /\ \A m \in Server \ {n} : RoleStays(m, Leader)
    BY <1>2, <2>1, Zenon DEF CandidatesStay, RoleStays, Candidate, Leader
  <2>4. Electing(n)
    BY <1>1, <1>2, <1>4, Zenon DEF Electing
  <2> QED
    BY <2>2, <2>3, <2>4, Zenon
<1> QED
  BY <1>1, <1>3, <1>4, Zenon

(* The answer to the request r: none, a refusal, or a success that is      *)
(* acknowledged.                                                           *)
Answered(r) ==
    \/ leaderRpcs' = leaderRpcs \ {r} /\ UNCHANGED commitIndex
    \/ /\ \E t \in Nat : Advance(r, AppendReply(r, t, FALSE))
       /\ UNCHANGED commitIndex
    \/ /\ Merging(r) /\ Advance(r, AppendReply(r, r.term, TRUE))
       /\ acks' = acks \cup {<<r.peer, r.term, r.prev + Len(r.entries)>>}
       /\ Commit(r.peer, LeaderCommit(r.peer, r))

LEMMA KindAppendEntries ==
  ASSUME Sound, NEW r \in leaderRpcs, AppendEntries(r)
  PROVE  /\ LeadersStay /\ CandidatesStay
         /\ Quiet \/ Merging(r)
         /\ Answered(r)
<1> DEFINE n      == r.peer
           newer  == r.term > currentTerm[n]
           role   == IF newer THEN Follower ELSE state[n]
           off    == r.prev - logBase[n]
           merged == MergeEntries(log[n], off, r.entries)
           Succeed == /\ Advance(r, AppendReply(r, r.term, TRUE))
                      /\ Commit(n, LeaderCommit(n, r))
                      /\ acks' = acks \cup {<<n, r.term, r.prev + Len(r.entries)>>}
<1>1. /\ r.phase = "req"
      /\ \/ /\ r.term >= currentTerm[n]
            /\ currentTerm' = [currentTerm EXCEPT ![n] = r.term]
            /\ state' = [state EXCEPT ![n] = role]
            /\ \/ /\ UNCHANGED <<log, acks, commitVars>>
                  /\ Advance(r, AppendReply(r, r.term, FALSE))
               \/ /\ PrevOk(n, r) /\ log' = [log EXCEPT ![n] = merged]
                  /\ \/ leaderRpcs' = leaderRpcs \ {r} /\ UNCHANGED <<commitVars, acks>>
                     \/ Succeed
            /\ UNCHANGED <<historyVars, leaderLog>>
         \/ off < 0
         \/ /\ Advance(r, AppendReply(r, currentTerm[n], FALSE))
            /\ UNCHANGED <<electionVars, logVars, historyVars, logHistory>>
  BY Zenon DEF AppendEntries
<1>2. /\ n \in Server /\ r.term \in Nat /\ r.prev \in Nat /\ currentTerm[n] \in Nat
      /\ logBase[n] = 0
  BY Zenon DEF Sound, LogTypes, LeaderRpc
<1>3. off = r.prev /\ ~(off < 0)
  BY <1>2
<1>4. CASE /\ Advance(r, AppendReply(r, currentTerm[n], FALSE))
           /\ UNCHANGED <<electionVars, logVars, historyVars, logHistory>>
  <2>1. /\ UNCHANGED <<currentTerm, state, log, leaderLog, acks, elected>>
        /\ UNCHANGED commitIndex
    BY <1>4, Zenon DEF electionVars, logVars, commitVars, historyVars, logHistory
  <2> QED
    BY <1>2, <1>4, <2>1, KindUntouched, Zenon DEF Answered
<1>5. CASE /\ r.term >= currentTerm[n]
           /\ currentTerm' = [currentTerm EXCEPT ![n] = r.term]
           /\ state' = [state EXCEPT ![n] = role]
           /\ \/ /\ UNCHANGED <<log, acks, commitVars>>
                 /\ Advance(r, AppendReply(r, r.term, FALSE))
              \/ /\ PrevOk(n, r) /\ log' = [log EXCEPT ![n] = merged]
                 /\ \/ leaderRpcs' = leaderRpcs \ {r} /\ UNCHANGED <<commitVars, acks>>
                    \/ Succeed
           /\ UNCHANGED <<historyVars, leaderLog>>
  <2>1. /\ currentTerm[n] <= r.term /\ currentTerm'[n] = r.term
        /\ state'[n] = Follower \/ (state'[n] = state[n] /\ currentTerm[n] = r.term)
        /\ \A m \in Server \ {n} : currentTerm'[m] = currentTerm[m] /\ state'[m] = state[m]
    <3>1. currentTerm[n] <= r.term /\ (newer \/ currentTerm[n] = r.term)
      BY <1>2, <1>5, GreaterOrEqual, Zenon
    <3>2. /\ currentTerm'[n] = r.term /\ state'[n] = role
          /\ \A m \in Server \ {n} : /\ currentTerm'[m] = currentTerm[m]
                                     /\ state'[m] = state[m]
      BY <1>2, <1>5, Zenon DEF Sound, StateTypeOK, ElectionTypeOK
    <3> QED
      BY <3>1, <3>2, ZenonT(30)
  <2>2. LeadersStay /\ CandidatesStay
    BY <1>2, <2>1, Zenon
       DEF LeadersStay, CandidatesStay, RoleStays, Leader, Candidate, Follower
  <2>3. UNCHANGED <<leaderLog, elected>>
    BY <1>5, Zenon DEF historyVars
  <2>4. CASE /\ UNCHANGED <<log, acks, commitVars>>
             /\ Advance(r, AppendReply(r, r.term, FALSE))
    <3>1. TermsRise
      BY <1>2, <2>1, TermsRiseAt, Zenon DEF Sound
    <3> QED
      BY <1>2, <2>2, <2>3, <2>4, <3>1, ZenonT(30) DEF Quiet, Answered, commitVars
  <2>5. CASE /\ PrevOk(n, r) /\ log' = [log EXCEPT ![n] = merged]
             /\ \/ leaderRpcs' = leaderRpcs \ {r} /\ UNCHANGED <<commitVars, acks>>
                \/ Succeed
    <3>1. log'[n] = MergeEntries(log[n], r.prev, r.entries)
      <4> HIDE DEF off
      <4> QED
        BY <1>2, <1>3, <2>5, Zenon DEF Sound, StateTypeOK, LogTypeOK
    <3> HIDE DEF merged
    <3>2. \A m \in Server \ {n} : log'[m] = log[m]
      BY <2>5, Zenon DEF Sound, StateTypeOK, LogTypeOK
    <3>3. Merging(r)
      BY <1>1, <2>1, <2>3, <2>5, <3>1, <3>2, ZenonT(30) DEF Merging
    <3>4. UNCHANGED commitVars => UNCHANGED commitIndex
      BY Zenon DEF commitVars
    <3> QED
      BY <2>2, <2>5, <3>3, <3>4, Zenon DEF Answered
  <2> QED
    BY <1>5, <2>4, <2>5, Zenon
<1> QED
  BY <1>1, <1>3, <1>4, <1>5, Zenon

LEMMA KindReplicateCommand ==
  ASSUME Sound, NEW n \in Server, NEW reached \in SUBSET Peers(n),
         ReplicateCommand(n, reached)
  PROVE  /\ LeadersStay /\ CandidatesStay
         /\ \/ Quiet /\ UNCHANGED <<leaderRpcs, commitIndex>>
            \/ \E e \in Entry :
                 /\ Appending(n, e)
                 /\ LET commit == UpdateCommitIndex(n, Append(log[n], e), matchIndex[n])
                    IN  Commit(n, commit) /\ Spawn(n, reached, commit)
<1> DEFINE t   == currentTerm[n]
           e   == [index |-> LastIndex(n) + 1, term |-> t, cmd |-> submitted + 1]
           new == Append(log[n], e)
           commit == UpdateCommitIndex(n, new, matchIndex[n])
<1>1. /\ state[n] = Leader
      /\ UNCHANGED <<electionVars, historyVars>>
      /\ \/ /\ log' = [log EXCEPT ![n] = new]
            /\ Commit(n, commit)
            /\ Spawn(n, reached, commit)
            /\ leaderLog' = [leaderLog EXCEPT ![t] = new]
            /\ acks' = acks \cup {<<n, t, LastIndex(n) + 1>>}
         \/ UNCHANGED <<log, commitVars, leaderRpcs, logHistory>>
  BY Zenon DEF ReplicateCommand
<1>2. UNCHANGED <<currentTerm, state, elected>>
  BY <1>1, Zenon DEF electionVars, historyVars
<1>3. LeadersStay /\ CandidatesStay
  BY <1>2, Zenon DEF LeadersStay, CandidatesStay, RoleStays
<1>4. CASE UNCHANGED <<log, commitVars, leaderRpcs, logHistory>>
  BY <1>2, <1>4, KindUntouched, Zenon DEF commitVars, logHistory
<1>5. CASE /\ log' = [log EXCEPT ![n] = new]
           /\ Commit(n, commit)
           /\ Spawn(n, reached, commit)
           /\ leaderLog' = [leaderLog EXCEPT ![t] = new]
           /\ acks' = acks \cup {<<n, t, LastIndex(n) + 1>>}
  <2>1. LastIndex(n) = Len(log[n]) /\ Len(log[n]) \in Nat /\ submitted \in Nat /\ t \in Nat
    <3>1. logBase[n] = 0 /\ Len(log[n]) \in Nat /\ t \in Nat
      BY LenIsNat, Zenon DEF Sound, LogTypes
    <3>2. LastIndex(n) = 0 + Len(log[n])
      BY <3>1, Zenon DEF LastIndex
    <3>3. submitted \in 0 .. MaxCommands /\ MaxCommands \in Nat
      BY BoundsAssumption, Zenon DEF Sound, StateTypeOK, ClientTypeOK
    <3> HIDE DEF t
    <3> QED
      BY ONLY <3>1, <3>2, <3>3, SMTT(30)
  <2>2. e \in Entry /\ e.index = Len(log[n]) + 1 /\ e.term = t
    BY <2>1 DEF Entry
  <2> HIDE DEF e
  <2>3. log'[n] = new /\ \A m \in Server \ {n} : log'[m] = log[m]
    BY <1>5, Zenon DEF Sound, StateTypeOK, LogTypeOK
  <2>4. Appending(n, e)
    BY <1>1, <1>2, <1>5, <2>1, <2>2, <2>3, ZenonT(30) DEF Appending
  <2> QED
    BY <1>3, <1>5, <2>2, <2>4, ZenonT(30)
<1> QED
  BY <1>1, <1>4, <1>5, Zenon

(* The steps there are without compaction.                                 *)
LEMMA StepSplit ==
  ASSUME PlainNext \/ UNCHANGED vars
  PROVE  \/ UNCHANGED vars
         \/ \E n \in Server :
              \/ BecomeLeader(n) \/ ApplyPendingEntries(n) \/ Restart(n)
              \/ \E reached \in SUBSET Peers(n) :
                   \/ BecomeCandidate(n, reached) \/ SendHeartbeats(n, reached)
                   \/ ReplicateCommand(n, reached)
         \/ \E r \in voteRpcs :
              SendRequestVote(r) \/ RequestVote(r) \/ HandleVoteReply(r)
         \/ \E r \in leaderRpcs :
              SendAppendEntries(r) \/ AppendEntries(r) \/ HandleAppendReply(r)
         \/ LoseRpc
  BY Zenon DEF PlainNext

LEMMA StepKinds ==
  ASSUME DurableRestarts, LogsSurvive, Sound, FilesCurrent, PlainNext \/ UNCHANGED vars
  PROVE  AnyKind
<1> USE DEF AnyKind
<1>1. Uncompacted
  BY Zenon DEF Sound
<1>2. CASE UNCHANGED vars
  BY <1>2, KindElsewhere, Zenon
<1>3. CASE \E n \in Server :
             \/ BecomeLeader(n) \/ ApplyPendingEntries(n) \/ Restart(n)
             \/ \E reached \in SUBSET Peers(n) :
                  \/ BecomeCandidate(n, reached) \/ SendHeartbeats(n, reached)
                  \/ ReplicateCommand(n, reached)
  BY <1>1, <1>3, KindBecomeLeader, KindElsewhere, KindRestart, KindBecomeCandidate,
     KindReplicateCommand, ZenonT(30)
<1>4. CASE \E r \in voteRpcs :
             SendRequestVote(r) \/ RequestVote(r) \/ HandleVoteReply(r)
  BY <1>4, KindElsewhere, KindRequestVote, KindHandleVoteReply, Zenon
<1>5. CASE \E r \in leaderRpcs :
             SendAppendEntries(r) \/ AppendEntries(r) \/ HandleAppendReply(r)
  BY <1>5, KindElsewhere, KindAppendEntries, KindHandleAppendReply, Zenon
<1>6. CASE LoseRpc
  BY <1>6, KindElsewhere, Zenon
<1> QED
  BY <1>2, <1>3, <1>4, <1>5, <1>6, StepSplit, Zenon

-----------------------------------------------------------------------------
(* Acknowledgements and choices                                            *)

(* What can be chosen after a step could be chosen before it: terms rise,  *)
(* and an acknowledgement is of the term its node is in.                   *)
LEMMA ChoosableBefore ==
  ASSUME Sound, NEW A, NEW B, NEW C, NEW D, NEW t \in Nat, NEW i,
         \A v \in Server : C[v] \in Nat /\ D[v] \in Nat /\ C[v] <= D[v],
         \A b \in B : b \in A \/ C[b[1]] <= b[2],
         Choosable(B, D, t, i)
  PROVE  Choosable(A, C, t, i)
<1>1. Hopefuls(B, D, t, i) \subseteq Hopefuls(A, C, t, i)
  <2> SUFFICES ASSUME NEW v \in Server, Acked(B, v, t, i) \/ D[v] <= t
               PROVE  Acked(A, v, t, i) \/ C[v] <= t
    BY Zenon DEF Hopefuls
  <2>1. CASE D[v] <= t
    BY <2>1, LeqTransitive, ZenonT(30)
  <2>2. CASE Acked(B, v, t, i)
    BY <2>2, Zenon DEF Acked
  <2> QED
    BY <2>1, <2>2, Zenon
<1>2. /\ Hopefuls(B, D, t, i) \in SUBSET Server /\ Hopefuls(A, C, t, i) \in SUBSET Server
  BY Zenon DEF Hopefuls
<1> QED
  BY <1>1, <1>2, MajorityGrows, Zenon DEF Choosable

LEMMA ChosenIsChoosable ==
  ASSUME Sound, NEW L, NEW A, NEW C, NEW t, NEW i, Chosen(L, A, t, i)
  PROVE  Own(L, t, i) /\ Choosable(A, C, t, i)
<1>1. Holders(A, t, i) \subseteq Hopefuls(A, C, t, i)
  BY Zenon DEF Holders, Hopefuls
<1>2. Holders(A, t, i) \in SUBSET Server /\ Hopefuls(A, C, t, i) \in SUBSET Server
  BY Zenon DEF Holders, Hopefuls
<1> QED
  BY <1>1, <1>2, MajorityGrows, Zenon DEF Choosable, Chosen

(* What one more acknowledgement adds.                                     *)
LEMMA AckedAdded ==
  ASSUME NEW A, NEW B, NEW n, NEW t, NEW k, \A b \in B : b \in A \/ b = <<n, t, k>>,
         NEW v, NEW u, NEW i, Acked(B, v, u, i)
  PROVE  Acked(A, v, u, i) \/ (v = n /\ u = t /\ i <= k)
<1>1. PICK b \in B : b[1] = v /\ b[2] = u /\ i <= b[3]
  BY Zenon DEF Acked
<1>2. CASE b \in A
  BY <1>1, <1>2, Zenon DEF Acked
<1>3. CASE b = <<n, t, k>>
  <2>1. b[1] = n /\ b[2] = t /\ b[3] = k
    BY <1>3, Zenon
  <2> QED
    BY <1>1, <2>1, Zenon
<1> QED
  BY <1>1, <1>2, <1>3, Zenon

(* An acknowledgement of the node's own term takes no choice away.         *)
LEMMA AddedIsCurrent ==
  ASSUME NEW A, NEW B, NEW C, NEW n, NEW t, NEW k, C[n] <= t,
         NEW b \in B, b \in A \/ b = <<n, t, k>>
  PROVE  b \in A \/ C[b[1]] <= b[2]
<1>1. CASE b = <<n, t, k>>
  <2>1. b[1] = n /\ b[2] = t
    BY <1>1, Zenon
  <2> QED
    BY <2>1, Zenon
<1> QED
  BY <1>1, Zenon

(* The types of terms and logs, before and after a step.                   *)
LEMMA SoundTypes ==
  ASSUME Sound
  PROVE  /\ \A n \in Server : /\ currentTerm[n] \in Nat /\ log[n] \in Seq(Entry)
                             /\ Len(log[n]) \in Nat
         /\ \A t \in DOMAIN leaderLog : /\ t \in Nat /\ leaderLog[t] \in Seq(Entry)
                                        /\ Len(leaderLog[t]) \in Nat
         /\ \A a \in acks : a[1] \in Server /\ a[2] \in Nat /\ a[3] \in Nat
  BY DEF Sound, LogTypes, LogHistoryTypeOK

(* An acknowledgement of the term a node is in was given in that term.     *)
LEMMA AckedTerm ==
  ASSUME Sound, AcksOfLeaders, NEW v \in Server, NEW t, NEW i, Acked(acks, v, t, i)
  PROVE  /\ t \in Nat /\ t <= currentTerm[v] /\ t \in DOMAIN leaderLog
         /\ i \in Nat => i <= Len(leaderLog[t])
<1>1. PICK a \in acks : a[1] = v /\ a[2] = t /\ i <= a[3]
  BY Zenon DEF Acked
<1>2. a[2] \in Nat /\ a[3] \in Nat
  BY SoundTypes, Zenon
<1>3. /\ a[2] <= currentTerm[a[1]] /\ a[2] \in DOMAIN leaderLog
      /\ a[3] <= Len(leaderLog[a[2]])
  BY Zenon DEF AcksOfLeaders
<1>4. Len(leaderLog[t]) \in Nat
  BY <1>1, <1>3, SoundTypes, Zenon
<1> QED
  BY <1>1, <1>2, <1>3, <1>4, LeqTransitive, ZenonT(30)

LEMMA AckQuiet ==
  ASSUME Sound, Sound', AckInv, Quiet
  PROVE  AckInv'
<1>1. UNCHANGED <<log, leaderLog, acks, elected>> /\ TermsRise
  BY Zenon DEF Quiet
<1>2. \A n \in Server : /\ currentTerm[n] \in Nat /\ currentTerm'[n] \in Nat
                        /\ currentTerm[n] <= currentTerm'[n]
  BY <1>1, Zenon DEF Sound, LogTypes, TermsRise
<1>3. \A t \in DOMAIN leaderLog : \A i :
        Choosable(acks, currentTerm', t, i) => Choosable(acks, currentTerm, t, i)
  BY <1>2, SoundTypes, ChoosableBefore, Zenon
<1>4. AcksOfLeaders'
  <2> SUFFICES ASSUME NEW a \in acks PROVE a[2] <= currentTerm'[a[1]]
    BY <1>1, Zenon DEF AckInv, AcksOfLeaders
  <2>1. a[1] \in Server /\ a[2] \in Nat /\ a[2] <= currentTerm[a[1]]
    BY SoundTypes, Zenon DEF AckInv, AcksOfLeaders
  <2> QED
    BY <2>1, <1>2, LeqTransitive, ZenonT(30)
<1>5. AckedKept'
  <2> SUFFICES ASSUME NEW v \in Server, NEW t \in DOMAIN leaderLog, NEW i \in Nat,
                      Acked(acks, v, t, i),
                      \/ currentTerm'[v] = t
                      \/ Own(leaderLog, t, i) /\ Choosable(acks, currentTerm', t, i)
               PROVE  Agree(log[v], leaderLog[t], i)
    BY <1>1, Zenon DEF AckedKept
  <2>1. t \in Nat /\ t <= currentTerm[v]
    BY AckedTerm, ZenonT(30) DEF AckInv
  <2>2. currentTerm'[v] = t => currentTerm[v] = t
    BY <2>1, <1>2, LeqAntisymmetric, ZenonT(30)
  <2> QED
    BY <2>2, <1>3, Zenon DEF AckInv, AckedKept
<1>6. LeadersAgree'
  BY <1>1, <1>3, Zenon DEF AckInv, LeadersAgree
<1>7. LeadersAck'
  BY <1>1, Zenon DEF AckInv, LeadersAck
<1> QED
  BY <1>4, <1>5, <1>6, <1>7, Zenon DEF AckInv

(* What a node shares with the log of an earlier leader, and can still be  *)
(* chosen, is in the request of a later one, so taking that over keeps it. *)
LEMMA MergeKeepsChoosable ==
  ASSUME Sound, AckInv, NEW r \in leaderRpcs, Merging(r),
         NEW t \in DOMAIN leaderLog, NEW i \in Nat, NEW k \in Nat, k <= i,
         t <= currentTerm[r.peer], Agree(log[r.peer], leaderLog[t], k),
         t < r.term => Own(leaderLog, t, i) /\ Choosable(acks, currentTerm, t, i)
  PROVE  Agree(log'[r.peer], leaderLog[t], k)
<1> DEFINE n == r.peer
           F == leaderLog[r.term]
           G == leaderLog[t]
           m == MergeEntries(log[n], r.prev, r.entries)
<1>1. /\ r.phase = "req" /\ currentTerm[n] <= r.term /\ PrevOk(n, r) /\ log'[n] = m
  BY Zenon DEF Merging
<1>2. n \in Server /\ r.term \in Nat /\ <<r.leader, r.term>> \in elected
  BY Zenon DEF Sound, LogTypes, LeaderRpc, LogInv, CallsInv, GoodCall
<1>3. r.term \in DOMAIN leaderLog
  BY <1>2, Zenon DEF Sound, LogInv, LeadersInv
<1>4. /\ F \in Seq(Entry) /\ G \in Seq(Entry) /\ t \in Nat /\ currentTerm[n] \in Nat
      /\ log[n] \in Seq(Entry)
  BY <1>2, <1>3, SoundTypes, Zenon
<1>5. /\ m \in Seq(Entry) /\ \A j \in Nat : Agree(log[n], F, j) => Agree(m, F, j)
  BY <1>1, RequestMerges, Zenon DEF Sound
<1>6. CASE t = r.term
  BY <1>1, <1>5, <1>6, Zenon
<1>7. CASE t < r.term
  <2>1. Agree(F, G, i)
    BY <1>3, <1>7, Zenon DEF AckInv, LeadersAgree
  <2> HIDE DEF F, G, m
  <2>2. Agree(F, G, k)
    BY <2>1, <1>4, AgreeLess, Zenon
  <2>3. Agree(log[n], F, k)
    BY <2>2, AgreeSymmetric, AgreeTransitive, Zenon DEF G
  <2>4. Agree(m, G, k)
    BY <2>2, <2>3, <1>5, AgreeTransitive, Zenon
  <2> QED
    BY <1>1, <2>4, Zenon DEF G
<1>8. t = r.term \/ t < r.term
  BY <1>1, <1>2, <1>4, LeqTransitive, LeqSplits, Zenon
<1> QED
  BY <1>6, <1>7, <1>8, Zenon

LEMMA AckMerging ==
  ASSUME Sound, Sound', AckInv, NEW r \in leaderRpcs, Merging(r)
  PROVE  AckInv'
<1> DEFINE n == r.peer
           F == leaderLog[r.term]
           k == r.prev + Len(r.entries)
<1>1. /\ r.phase = "req" /\ currentTerm[n] <= r.term /\ PrevOk(n, r)
      /\ log'[n] = MergeEntries(log[n], r.prev, r.entries)
      /\ currentTerm'[n] = r.term
      /\ \A m \in Server \ {n} : log'[m] = log[m] /\ currentTerm'[m] = currentTerm[m]
      /\ acks' = acks \/ acks' = acks \cup {<<n, r.term, k>>}
      /\ UNCHANGED <<leaderLog, elected>>
  BY Zenon DEF Merging
<1>2. /\ n \in Server /\ r.term \in Nat /\ <<r.leader, r.term>> \in elected
      /\ k \in Nat /\ FromLog(r, F)
  <2>1. /\ n \in Server /\ r.term \in Nat /\ r.prev \in Nat
        /\ r.entries \in Seq(Entry)
    BY Zenon DEF Sound, LogTypes, LeaderRpc
  <2>2. <<r.leader, r.term>> \in elected /\ FromLog(r, F)
    BY <1>1, Zenon DEF Sound, LogInv, CallsInv, GoodCall
  <2> QED
    BY <2>1, <2>2, LenIsNat, SumIsNat, Zenon
<1>3. r.term \in DOMAIN leaderLog /\ k <= Len(F)
  BY <1>2, Zenon DEF Sound, LogInv, LeadersInv, FromLog
<1>4. /\ \A v \in Server : /\ currentTerm[v] \in Nat /\ currentTerm'[v] \in Nat
                           /\ currentTerm[v] <= currentTerm'[v]
      /\ acks \subseteq acks'
      /\ \A a \in acks' : a \in acks \/ a = <<n, r.term, k>>
  <2>1. ASSUME NEW v \in Server
        PROVE  /\ currentTerm[v] \in Nat /\ currentTerm'[v] \in Nat
               /\ currentTerm[v] <= currentTerm'[v]
    <3>1. CASE v = n
      BY <3>1, <1>1, <1>2, SoundTypes, Zenon
    <3>2. CASE v # n
      BY <3>2, <1>1, SoundTypes, LeqSelf, Zenon
    <3> QED
      BY <3>1, <3>2, Zenon
  <2>2. acks \subseteq acks' /\ \A a \in acks' : a \in acks \/ a = <<n, r.term, k>>
    BY <1>1, Zenon
  <2> QED
    BY <2>1, <2>2, Zenon
<1>5. Agree(log'[n], F, k) /\ log'[n] \in Seq(Entry) /\ F \in Seq(Entry)
  BY <1>1, <1>3, SoundTypes, RequestMerges, ZenonT(30) DEF Sound
<1> HIDE DEF k, F
<1>6. ASSUME NEW v, NEW t, NEW i, Acked(acks', v, t, i)
      PROVE  Acked(acks, v, t, i) \/ (v = n /\ t = r.term /\ i <= k)
  BY <1>4, <1>6, AckedAdded, Zenon
<1>7. \A t \in DOMAIN leaderLog : \A i :
        Choosable(acks', currentTerm', t, i) => Choosable(acks, currentTerm, t, i)
  <2>1. \A a \in acks' : a \in acks \/ currentTerm[a[1]] <= a[2]
    <3>1. currentTerm[n] <= r.term
      BY <1>1, Zenon
    <3>2. \A b \in acks' : b \in acks \/ b = <<n, r.term, k>>
      BY <1>4, Zenon
    <3> HIDE DEF n
    <3> QED
      BY <3>1, <3>2, AddedIsCurrent, ZenonT(30)
  <2> QED
    BY <2>1, <1>4, SoundTypes, ChoosableBefore, ZenonT(30)
<1>8. AcksOfLeaders'
  <2> SUFFICES ASSUME NEW a \in acks'
               PROVE  /\ a[2] <= currentTerm'[a[1]] /\ a[2] \in DOMAIN leaderLog
                      /\ a[3] <= Len(leaderLog[a[2]])
    BY <1>1, Zenon DEF AcksOfLeaders
  <2>1. CASE a = <<n, r.term, k>>
    <3>1. a[1] = n /\ a[2] = r.term /\ a[3] = k
      BY <2>1, Zenon
    <3> QED
      BY <3>1, <1>1, <1>2, <1>3, LeqSelf, Zenon DEF F
  <2>2. CASE a \in acks
    <3>1. a[1] \in Server /\ a[2] \in Nat
      BY <2>2, SoundTypes, Zenon
    <3>2. /\ a[2] <= currentTerm[a[1]] /\ a[2] \in DOMAIN leaderLog
          /\ a[3] <= Len(leaderLog[a[2]])
      BY <2>2, Zenon DEF AckInv, AcksOfLeaders
    <3> QED
      BY <3>1, <3>2, <1>4, LeqTransitive, ZenonT(30)
  <2> QED
    BY <1>4, <2>1, <2>2, Zenon
<1>9. AckedKept'
  <2> SUFFICES ASSUME NEW v \in Server, NEW t \in DOMAIN leaderLog, NEW i \in Nat,
                      Acked(acks', v, t, i),
                      \/ currentTerm'[v] = t
                      \/ Own(leaderLog, t, i) /\ Choosable(acks', currentTerm', t, i)
               PROVE  Agree(log'[v], leaderLog[t], i)
    BY <1>1, Zenon DEF AckedKept
  <2>1. CASE v # n
    BY <2>1, <1>1, <1>6, <1>7, Zenon DEF AckInv, AckedKept
  <2>2. CASE v = n /\ t = r.term /\ i <= k
    BY <2>2, <1>2, <1>5, AgreeLess, Zenon DEF F
  <2>3. CASE v = n /\ Acked(acks, v, t, i)
    <3>1. t \in Nat /\ t <= currentTerm[n]
      BY <2>3, AckedTerm, Zenon DEF AckInv
    <3>2. t < r.term => Own(leaderLog, t, i) /\ Choosable(acks, currentTerm, t, i)
      BY <2>3, <1>1, <1>2, <1>7, <3>1, LessDiffers, ZenonT(30)
    <3>3. t < r.term \/ currentTerm[n] = t
      <4>1. t = r.term \/ t < r.term
        BY <1>1, <1>2, <1>4, <3>1, LeqTransitive, LeqSplits, ZenonT(30)
      <4> QED
        BY <1>1, <1>2, <1>4, <3>1, <4>1, LeqAntisymmetric, ZenonT(30)
    <3>4. Agree(log[n], leaderLog[t], i)
      BY <2>3, <3>2, <3>3, Zenon DEF AckInv, AckedKept
    <3>5. i <= i
      BY LeqSelf, Zenon
    <3> QED
      BY <2>3, <3>1, <3>2, <3>4, <3>5, MergeKeepsChoosable, ZenonT(30)
  <2> QED
    BY <1>6, <2>1, <2>2, <2>3, Zenon
<1>10. LeadersAgree'
  BY <1>1, <1>7, Zenon DEF AckInv, LeadersAgree
<1>11. LeadersAck'
  BY <1>1, <1>4, Zenon DEF AckInv, LeadersAck, Acked
<1> QED
  BY <1>8, <1>9, <1>10, <1>11, Zenon DEF AckInv

(* The term of a new leader had none, and no entry is of that term.        *)
LEMMA ElectingEffect ==
  ASSUME Sound, Sound', NEW n \in Server, Electing(n)
  PROVE  LET t == currentTerm[n]
         IN  /\ t \in Nat /\ t \notin DOMAIN leaderLog
             /\ DOMAIN leaderLog' = DOMAIN leaderLog \cup {t} /\ leaderLog'[t] = log[n]
             /\ \A u \in DOMAIN leaderLog : leaderLog'[u] = leaderLog[u]
             /\ \A u, i : Own(leaderLog', u, i) => u # t /\ Own(leaderLog, u, i)
<1> DEFINE t == currentTerm[n]
<1>1. /\ state[n] = Candidate /\ elected' = elected \cup {<<n, t>>}
      /\ leaderLog' = [u \in DOMAIN leaderLog \cup {t} |->
                         IF u = t THEN log[n] ELSE leaderLog[u]]
  BY Zenon DEF Electing
<1>2. t \in Nat /\ log[n] \in Seq(Entry)
  BY SoundTypes, Zenon
<1>3. t \notin DOMAIN leaderLog
  <2> SUFFICES ASSUME t \in DOMAIN leaderLog PROVE FALSE
    BY Zenon
  <2>1. PICK m \in Server : <<m, t>> \in elected
    BY Zenon DEF Sound, LogInv, LeadersInv
  <2>2. m = n
    <3>1. <<m, t>> \in elected' /\ <<n, t>> \in elected'
      BY <1>1, <2>1, Zenon
    <3>2. ElectionSafety'
      BY Zenon DEF Sound
    <3> HIDE DEF t
    <3> QED
      BY <3>1, <3>2, ZenonT(30) DEF ElectionSafety
  <2> QED
    BY <1>1, <2>1, <2>2, Zenon DEF Sound, LogInv, LeadersInv
<1>4. /\ DOMAIN leaderLog' = DOMAIN leaderLog \cup {t} /\ leaderLog'[t] = log[n]
      /\ \A u \in DOMAIN leaderLog : leaderLog'[u] = leaderLog[u]
  BY <1>1, <1>3, Zenon
<1>5. \A i \in 1 .. Len(log[n]) : log[n][i].term # t
  BY <1>3, ZenonT(30) DEF Sound, LogInv, RootedInv, Rooted
<1> HIDE DEF t
<1>6. \A u, i : Own(leaderLog', u, i) => u # t /\ Own(leaderLog, u, i)
  BY <1>4, <1>5, Zenon DEF Own
<1> QED
  BY <1>2, <1>3, <1>4, <1>6, Zenon DEF t

(* A new leader has what can still be chosen: one of its voters has it.    *)
LEMMA ElectedHasChoosable ==
  ASSUME Sound, VoteInv, NEW n \in Server, Electing(n),
         currentTerm[n] \notin DOMAIN leaderLog,
         NEW t \in DOMAIN leaderLog, NEW i \in Nat, t < currentTerm[n],
         Own(leaderLog, t, i), Choosable(acks, currentTerm, t, i)
  PROVE  Agree(log[n], leaderLog[t], i)
<1>1. state[n] = Candidate /\ promoting[n] > 0
  BY Zenon DEF Electing
<1>2. /\ Majority(voters[n]) /\ voters[n] \in SUBSET Server
      /\ \A v \in voters[n] : <<v, currentTerm[n], n>> \in ballots
  BY <1>1, Zenon DEF Sound, ElectionInv, TallyInv, StateTypeOK, HistoryTypeOK
<1>3. Hopefuls(acks, currentTerm, t, i) \in SUBSET Server
  BY Zenon DEF Hopefuls
<1>4. PICK v \in Server : v \in voters[n] /\ v \in Hopefuls(acks, currentTerm, t, i)
  BY <1>2, <1>3, MajoritiesShare, Zenon DEF Choosable
<1>5. <<v, currentTerm[n], n>> \in ballots
  BY <1>2, <1>4, Zenon
<1>6. currentTerm[n] <= currentTerm[v]
  BY <1>5, Zenon DEF Sound, ElectionInv, BallotsCurrent
<1>7. currentTerm[n] \in Nat /\ currentTerm[v] \in Nat /\ t \in Nat
  BY SoundTypes, ZenonT(30)
<1>8. Acked(acks, v, t, i)
  BY <1>4, <1>6, <1>7, LessThenLeq, ZenonT(30) DEF Hopefuls
<1>9. Running(n, currentTerm[n])
  BY <1>1, Zenon DEF Running
<1> QED
  BY <1>5, <1>8, <1>9, Zenon DEF VoteInv, VotersServed

LEMMA AckElecting ==
  ASSUME Sound, Sound', AckInv, VoteInv, NEW n \in Server, Electing(n)
  PROVE  AckInv'
<1> DEFINE t0 == currentTerm[n]
<1>1. UNCHANGED <<currentTerm, log, acks>> /\ elected' = elected \cup {<<n, t0>>}
  BY Zenon DEF Electing
<1>2. /\ t0 \in Nat /\ t0 \notin DOMAIN leaderLog
      /\ DOMAIN leaderLog' = DOMAIN leaderLog \cup {t0} /\ leaderLog'[t0] = log[n]
      /\ \A u \in DOMAIN leaderLog : leaderLog'[u] = leaderLog[u]
      /\ \A u, i : Own(leaderLog', u, i) => u # t0 /\ Own(leaderLog, u, i)
  BY ElectingEffect, Zenon
<1>3. \A t \in DOMAIN leaderLog : \A i \in Nat :
        t < t0 /\ Own(leaderLog, t, i) /\ Choosable(acks, currentTerm, t, i)
        => Agree(log[n], leaderLog[t], i)
  BY <1>2, ElectedHasChoosable, Zenon
<1> HIDE DEF t0
<1>4. AcksOfLeaders'
  BY <1>1, <1>2, Zenon DEF AckInv, AcksOfLeaders
<1>5. AckedKept'
  <2> SUFFICES ASSUME NEW v \in Server, NEW t \in DOMAIN leaderLog', NEW i \in Nat,
                      Acked(acks, v, t, i),
                      \/ currentTerm[v] = t
                      \/ Own(leaderLog', t, i) /\ Choosable(acks, currentTerm, t, i)
               PROVE  Agree(log[v], leaderLog'[t], i)
    BY <1>1, Zenon DEF AckedKept
  <2>1. t \in DOMAIN leaderLog
    BY AckedTerm, Zenon DEF AckInv
  <2>2. Agree(log[v], leaderLog[t], i)
    BY <1>2, <2>1, Zenon DEF AckInv, AckedKept
  <2> QED
    BY <1>2, <2>1, <2>2, Zenon
<1>6. LeadersAgree'
  <2> SUFFICES ASSUME NEW t \in DOMAIN leaderLog', NEW u \in DOMAIN leaderLog',
                      NEW i \in Nat, t < u, Own(leaderLog', t, i),
                      Choosable(acks, currentTerm, t, i)
               PROVE  Agree(leaderLog'[u], leaderLog'[t], i)
    BY <1>1, Zenon DEF LeadersAgree
  <2>1. t \in DOMAIN leaderLog /\ leaderLog'[t] = leaderLog[t] /\ Own(leaderLog, t, i)
    BY <1>2, Zenon
  <2>2. CASE u = t0
    BY <2>1, <2>2, <1>2, <1>3, Zenon
  <2>3. CASE u \in DOMAIN leaderLog
    BY <2>1, <2>3, <1>2, Zenon DEF AckInv, LeadersAgree
  <2> QED
    BY <1>2, <2>2, <2>3, Zenon
<1>7. LeadersAck'
  <2> SUFFICES ASSUME NEW e \in elected', NEW i \in Nat, Own(leaderLog', e[2], i)
               PROVE  Acked(acks, e[1], e[2], i)
    BY <1>1, Zenon DEF LeadersAck
  <2>1. e[2] # t0 /\ Own(leaderLog, e[2], i)
    BY <1>2, Zenon
  <2>2. e \in elected
    <3>1. CASE e = <<n, t0>>
      BY <2>1, <3>1, Zenon
    <3> QED
      BY <1>1, <3>1, Zenon
  <2> QED
    BY <2>1, <2>2, Zenon DEF AckInv, LeadersAck
<1> QED
  BY <1>4, <1>5, <1>6, <1>7, Zenon DEF AckInv

LEMMA AgreeGrown ==
  ASSUME NEW a \in Seq(Entry), NEW b \in Seq(Entry), NEW c, NEW d, NEW i \in Nat,
         Agree(a, b, i), Agree(a, c, Len(a)), Agree(b, d, Len(b)),
         Len(c) \in Nat, Len(d) \in Nat
  PROVE  Agree(c, d, i)
<1>1. /\ Len(a) \in Nat /\ Len(b) \in Nat /\ i <= Len(a) /\ i <= Len(b)
      /\ Len(a) <= Len(c) /\ Len(b) <= Len(d)
  BY LenIsNat, Zenon DEF Agree
<1>2. i <= Len(c) /\ i <= Len(d)
  BY <1>1, LeqTransitive, Zenon
<1>3. ASSUME NEW j \in 1 .. i PROVE c[j] = d[j]
  <2>1. j \in 1 .. Len(a) /\ j \in 1 .. Len(b)
    BY <1>1, RangeGrows, Zenon
  <2> QED
    BY <2>1, Zenon DEF Agree
<1> QED
  BY <1>2, <1>3, Zenon DEF Agree

(* A leader's log and the record of it grow by one entry.                  *)
LEMMA AppendingEffect ==
  ASSUME Sound, Sound', NEW n \in Server, NEW e \in Entry, Appending(n, e)
  PROVE  LET t == currentTerm[n]
             N == Len(log[n]) + 1
         IN  /\ t \in Nat /\ t \in DOMAIN leaderLog /\ <<n, t>> \in elected
             /\ log[n] = leaderLog[t] /\ log'[n] = leaderLog'[t] /\ Len(log'[n]) = N
             /\ DOMAIN leaderLog' = DOMAIN leaderLog
             /\ \A u \in DOMAIN leaderLog :
                  Agree(leaderLog[u], leaderLog'[u], Len(leaderLog[u]))
             /\ \A v \in Server : Agree(log[v], log'[v], Len(log[v]))
             /\ \A u, i : Own(leaderLog', u, i) =>
                  Own(leaderLog, u, i) \/ (u = t /\ i = N)
             /\ \A v, u, i : Acked(acks', v, u, i) =>
                  Acked(acks, v, u, i) \/ (v = n /\ u = t /\ i <= N)
<1> DEFINE t   == currentTerm[n]
           N   == Len(log[n]) + 1
           new == Append(log[n], e)
<1>1. /\ state[n] = Leader /\ log'[n] = new
      /\ \A m \in Server \ {n} : log'[m] = log[m]
      /\ leaderLog' = [leaderLog EXCEPT ![t] = new]
      /\ acks' = acks \cup {<<n, t, N>>}
  <2>1. state[n] = Leader /\ log'[n] = new /\ acks' = acks \cup {<<n, t, N>>}
    BY Zenon DEF Appending
  <2>2. \A m \in Server \ {n} : log'[m] = log[m]
    BY Zenon DEF Appending
  <2>3. leaderLog' = [leaderLog EXCEPT ![t] = new]
    BY Zenon DEF Appending
  <2> HIDE DEF t, N, new
  <2> QED
    BY <2>1, <2>2, <2>3, Zenon
<1>2. /\ <<n, t>> \in elected /\ t \in DOMAIN leaderLog /\ log[n] = leaderLog[t]
  <2>1. <<n, t>> \in elected /\ log[n] = leaderLog[t]
    BY <1>1, Zenon DEF Sound, LogInv, LeadersInv
  <2>2. \A d \in elected : d[2] \in DOMAIN leaderLog
    BY Zenon DEF Sound, LogInv, LeadersInv
  <2> HIDE DEF t
  <2> QED
    BY <2>1, <2>2, Zenon
<1>3. t \in Nat /\ log[n] \in Seq(Entry) /\ Len(log[n]) \in Nat
  BY SoundTypes, Zenon
<1>4. /\ new \in Seq(Entry) /\ Len(new) = N /\ Agree(log[n], new, Len(log[n]))
  BY <1>3, AppendedLog, Zenon
<1>5. /\ DOMAIN leaderLog' = DOMAIN leaderLog /\ leaderLog'[t] = new
      /\ \A u \in DOMAIN leaderLog : u # t => leaderLog'[u] = leaderLog[u]
  BY <1>1, <1>2, Zenon
<1>6. \A l : Len(l) \in Nat => Agree(l, l, Len(l))
  BY AgreeSelf, LeqSelf, ZenonT(30)
<1> HIDE DEF t, N, new
<1>7. \A u \in DOMAIN leaderLog : Agree(leaderLog[u], leaderLog'[u], Len(leaderLog[u]))
  BY <1>2, <1>4, <1>5, <1>6, SoundTypes, Zenon
<1>8. \A v \in Server : Agree(log[v], log'[v], Len(log[v]))
  BY <1>1, <1>4, <1>6, SoundTypes, ZenonT(30)
<1>9. ASSUME NEW u, NEW i, Own(leaderLog', u, i), ~Own(leaderLog, u, i)
      PROVE  u = t /\ i = N
  <2>1. u = t
    BY <1>5, <1>9, Zenon DEF Own
  <2>2. i \in 1 .. Len(new) /\ new[i].term = t
    BY <2>1, <1>5, <1>9, Zenon DEF Own
  <2>3. ~(i \in 1 .. Len(log[n]))
    BY <2>1, <2>2, <1>2, <1>3, <1>4, <1>9, ZenonT(30) DEF Own, Agree
  <2> QED
    BY <2>1, <2>2, <2>3, <1>3, <1>4, LastOfRange, ZenonT(30) DEF N
<1>10. \A v, u, i : Acked(acks', v, u, i) =>
         Acked(acks, v, u, i) \/ (v = n /\ u = t /\ i <= N)
  <2>1. \A b \in acks' : b \in acks \/ b = <<n, t, N>>
    BY <1>1, Zenon
  <2> QED
    BY <2>1, AckedAdded, Zenon
<1>11. log'[n] = leaderLog'[t] /\ Len(log'[n]) = N
  BY <1>1, <1>4, <1>5, ZenonT(30)
<1> QED
  BY <1>2, <1>3, <1>5, <1>7, <1>8, <1>9, <1>10, <1>11, ZenonT(30) DEF t, N

(* What a deposed leader appends can never be chosen: the voters of its    *)
(* successor are in later terms and have not saved it.                     *)
LEMMA LateEntryLost ==
  ASSUME Sound, Sound', AckInv, NEW n \in Server, NEW e \in Entry, Appending(n, e),
         NEW u \in DOMAIN leaderLog, currentTerm[n] < u
  PROVE  ~Choosable(acks', currentTerm, currentTerm[n], Len(log[n]) + 1)
<1> DEFINE t == currentTerm[n]
           N == Len(log[n]) + 1
<1> SUFFICES ASSUME Choosable(acks', currentTerm, t, N) PROVE FALSE
  BY Zenon
<1>1. /\ t \in Nat /\ log[n] = leaderLog[t] /\ t \in DOMAIN leaderLog
      /\ \A v, w, i : Acked(acks', v, w, i) =>
           Acked(acks, v, w, i) \/ (v = n /\ w = t /\ i <= N)
  BY AppendingEffect, Zenon
<1>2. PICK m \in Server : <<m, u>> \in elected
  BY Zenon DEF Sound, LogInv, LeadersInv
<1>3. Majority(Supporters(<<m, u>>))
  BY <1>2, Zenon DEF Sound, ElectionInv, LeaderHasMajority
<1>4. /\ Supporters(<<m, u>>) \in SUBSET Server
      /\ Hopefuls(acks', currentTerm, t, N) \in SUBSET Server
  BY Zenon DEF Supporters, Hopefuls
<1>5. PICK v \in Server : /\ v \in Supporters(<<m, u>>)
                          /\ v \in Hopefuls(acks', currentTerm, t, N)
  BY <1>3, <1>4, MajoritiesShare, Zenon DEF Choosable
<1>6. <<v, u, m>> \in ballots
  BY <1>5, Zenon DEF Supporters
<1>7. u <= currentTerm[v]
  BY <1>6, Zenon DEF Sound, ElectionInv, BallotsCurrent
<1>8. u \in Nat /\ currentTerm[v] \in Nat /\ Len(log[n]) \in Nat
  BY SoundTypes, ZenonT(30)
<1>9. Acked(acks', v, t, N) /\ v # n
  BY <1>1, <1>5, <1>7, <1>8, LessThenLeq, ZenonT(30) DEF Hopefuls
<1>10. Acked(acks, v, t, N)
  BY <1>1, <1>9, Zenon
<1>11. N <= Len(leaderLog[t])
  BY <1>8, <1>10, AckedTerm, NextIsMore, ZenonT(30) DEF AckInv
<1> QED
  BY <1>1, <1>8, <1>11, NextIsMore, ZenonT(30)

LEMMA AckAppending ==
  ASSUME Sound, Sound', AckInv, NEW n \in Server, NEW e \in Entry, Appending(n, e)
  PROVE  AckInv'
<1> DEFINE t0 == currentTerm[n]
           N  == Len(log[n]) + 1
<1>1. /\ UNCHANGED <<currentTerm, elected>> /\ acks' = acks \cup {<<n, t0, N>>}
  BY Zenon DEF Appending
<1>2. /\ t0 \in Nat /\ t0 \in DOMAIN leaderLog /\ <<n, t0>> \in elected
      /\ log[n] = leaderLog[t0] /\ log'[n] = leaderLog'[t0] /\ Len(log'[n]) = N
      /\ DOMAIN leaderLog' = DOMAIN leaderLog
      /\ \A u \in DOMAIN leaderLog :
           Agree(leaderLog[u], leaderLog'[u], Len(leaderLog[u]))
      /\ \A v \in Server : Agree(log[v], log'[v], Len(log[v]))
      /\ \A u, i : Own(leaderLog', u, i) =>
           Own(leaderLog, u, i) \/ (u = t0 /\ i = N)
      /\ \A v, u, i : Acked(acks', v, u, i) =>
           Acked(acks, v, u, i) \/ (v = n /\ u = t0 /\ i <= N)
  BY AppendingEffect, Zenon
<1>3. N \in Nat /\ Len(log[n]) \in Nat /\ N = Len(log[n]) + 1
  BY SoundTypes, NextIsMore, ZenonT(30)
<1>4. \A u \in DOMAIN leaderLog : t0 < u => ~Choosable(acks', currentTerm, t0, N)
  BY LateEntryLost, Zenon
<1> HIDE DEF t0, N
<1>5. \A t \in DOMAIN leaderLog : \A i :
        Choosable(acks', currentTerm, t, i) => Choosable(acks, currentTerm, t, i)
  <2>1. \A a \in acks' : a \in acks \/ currentTerm[a[1]] <= a[2]
    <3>1. \A b \in acks' : b \in acks \/ b = <<n, t0, N>>
      BY <1>1, Zenon
    <3>2. currentTerm[n] <= t0
      BY <1>2, LeqSelf, Zenon DEF t0
    <3> QED
      BY <3>1, <3>2, AddedIsCurrent, Zenon
  <2>2. \A v \in Server : currentTerm[v] \in Nat /\ currentTerm[v] <= currentTerm[v]
    BY SoundTypes, LeqSelf, ZenonT(30)
  <2> QED
    BY <2>1, <2>2, SoundTypes, ChoosableBefore, ZenonT(30)
<1>6. AcksOfLeaders'
  <2> SUFFICES ASSUME NEW a \in acks'
               PROVE  /\ a[2] <= currentTerm[a[1]] /\ a[2] \in DOMAIN leaderLog
                      /\ a[3] <= Len(leaderLog'[a[2]])
    BY <1>1, <1>2, Zenon DEF AcksOfLeaders
  <2>1. CASE a = <<n, t0, N>>
    <3>1. a[1] = n /\ a[2] = t0 /\ a[3] = N
      BY <2>1, Zenon
    <3> QED
      BY <3>1, <1>2, <1>3, LeqSelf, ZenonT(30) DEF t0
  <2>2. CASE a \in acks
    <3>1. a[3] \in Nat /\ a[2] \in DOMAIN leaderLog
      BY <2>2, SoundTypes, Zenon DEF AckInv, AcksOfLeaders
    <3>2. /\ Len(leaderLog[a[2]]) <= Len(leaderLog'[a[2]])
          /\ Len(leaderLog[a[2]]) \in Nat /\ Len(leaderLog'[a[2]]) \in Nat
      BY <1>2, <3>1, SoundTypes, LenIsNat, Zenon DEF Agree, Sound, LogTypes
    <3> QED
      BY <2>2, <3>1, <3>2, LeqTransitive, ZenonT(30) DEF AckInv, AcksOfLeaders
  <2> QED
    BY <1>1, <2>1, <2>2, Zenon
<1>7. \A i \in Nat : i <= N => Agree(log'[n], leaderLog'[t0], i)
  BY <1>2, <1>3, Zenon DEF Agree
<1>8. ASSUME NEW v \in Server, NEW t \in DOMAIN leaderLog, NEW i \in Nat,
             Agree(log[v], leaderLog[t], i)
      PROVE  Agree(log'[v], leaderLog'[t], i)
  <2>1. /\ log[v] \in Seq(Entry) /\ leaderLog[t] \in Seq(Entry)
        /\ Len(log'[v]) \in Nat /\ Len(leaderLog'[t]) \in Nat
    BY <1>2, SoundTypes, LenIsNat, ZenonT(30) DEF Sound, LogTypes
  <2> QED
    BY <1>2, <1>8, <2>1, AgreeGrown, Zenon
<1>9. AckedKept'
  <2> SUFFICES ASSUME NEW v \in Server, NEW t \in DOMAIN leaderLog, NEW i \in Nat,
                      Acked(acks', v, t, i),
                      \/ currentTerm[v] = t
                      \/ Own(leaderLog', t, i) /\ Choosable(acks', currentTerm, t, i)
               PROVE  Agree(log'[v], leaderLog'[t], i)
    BY <1>1, <1>2, Zenon DEF AckedKept
  <2>1. CASE v = n /\ t = t0 /\ i <= N
    BY <2>1, <1>7, Zenon
  <2>2. CASE Acked(acks, v, t, i)
    <3>1. i <= Len(leaderLog[t])
      BY <2>2, AckedTerm, ZenonT(30) DEF AckInv
    <3>2. ~(t = t0 /\ i = N)
      BY <3>1, <1>2, <1>3, NextIsMore, Zenon
    <3>3. Agree(log[v], leaderLog[t], i)
      BY <2>2, <3>2, <1>2, <1>5, ZenonT(30) DEF AckInv, AckedKept
    <3> QED
      BY <3>3, <1>8, Zenon
  <2> QED
    <3>1. Acked(acks, v, t, i) \/ (v = n /\ t = t0 /\ i <= N)
      BY <1>2, Zenon
    <3> QED
      BY <3>1, <2>1, <2>2, Zenon
<1>10. LeadersAgree'
  <2> SUFFICES ASSUME NEW t \in DOMAIN leaderLog, NEW u \in DOMAIN leaderLog,
                      NEW i \in Nat, t < u, Own(leaderLog', t, i),
                      Choosable(acks', currentTerm, t, i)
               PROVE  Agree(leaderLog'[u], leaderLog'[t], i)
    BY <1>1, <1>2, Zenon DEF LeadersAgree
  <2>1. ~(t = t0 /\ i = N)
    BY <1>4, Zenon
  <2>2. Agree(leaderLog[u], leaderLog[t], i)
    BY <2>1, <1>2, <1>5, ZenonT(30) DEF AckInv, LeadersAgree
  <2>3. /\ leaderLog[u] \in Seq(Entry) /\ leaderLog[t] \in Seq(Entry)
        /\ Len(leaderLog'[u]) \in Nat /\ Len(leaderLog'[t]) \in Nat
    BY <1>2, SoundTypes, LenIsNat, Zenon DEF Sound, LogTypes
  <2> QED
    BY <1>2, <2>2, <2>3, AgreeGrown, Zenon
<1>11. LeadersAck'
  <2> SUFFICES ASSUME NEW d \in elected, NEW i \in Nat, Own(leaderLog', d[2], i)
               PROVE  Acked(acks', d[1], d[2], i)
    BY <1>1, Zenon DEF LeadersAck
  <2>1. CASE Own(leaderLog, d[2], i)
    BY <2>1, <1>1, Zenon DEF AckInv, LeadersAck, Acked
  <2>2. CASE d[2] = t0 /\ i = N
    <3>1. d[1] = n
      BY <2>2, <1>2, Zenon DEF Sound, ElectionSafety
    <3>2. <<n, t0, N>> \in acks'
      BY <1>1, Zenon
    <3>3. Acked(acks', n, t0, N)
      <4> DEFINE a == <<n, t0, N>>
      <4>1. a[1] = n /\ a[2] = t0 /\ N <= a[3]
        BY <1>3, LeqSelf, ZenonT(30)
      <4> QED
        BY <3>2, <4>1, Zenon DEF Acked
    <3> QED
      BY <2>2, <3>1, <3>3, Zenon
  <2> QED
    BY <1>2, <2>1, <2>2, Zenon
<1> QED
  BY <1>6, <1>9, <1>10, <1>11, Zenon DEF AckInv

LEMMA AckStep ==
  ASSUME Sound, Sound', AckInv, VoteInv, AnyKind
  PROVE  AckInv'
  BY AckQuiet, AckMerging, AckElecting, AckAppending, Zenon DEF AnyKind
=============================================================================
